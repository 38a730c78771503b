---------------------------- MODULE ToolkitProofs ----------------------------
(* Proofs about the components of MCToolkit, one after another, for every    *)
(* value of their constants; the two captures are in StreamProofs.  Each has *)
(* an inductive invariant of its own; a run is one component's behaviour,    *)
(* since only the subject moves.                                             *)
EXTENDS MCToolkit, FiniteSetTheorems, SequenceTheorems, TLAPS

-----------------------------------------------------------------------------
(* Only the subject moves                                                    *)

LEMMA SubjectMoves ==
    ASSUME [RunNext]_allvars
    PROVE  /\ subject' = subject
           /\ subject = "holds" => [Holds!Next]_(Holds!vars)
           /\ subject = "stream" => [Stream!StreamNext]_(Stream!svars)
           /\ subject = "video" => [Video!VideoNext]_(Video!wvars)
           /\ subject = "uci" => [Uci!UciNext]_(Uci!uvars)
           /\ subject = "ping" => [Ping!PingNext]_(Ping!pvars)
           /\ subject = "arbiter" => [Arbiter!ArbiterNext]_(Arbiter!avars)
           /\ subject = "wait" => [Polls!WaitNext]_(Polls!wvars)
           /\ subject = "tod" => [Tod!TodNext]_(Tod!tvars)
           /\ subject = "reu" => [Reu!ExtractNext]_(Reu!xvars)
<1> USE DEF receiving, holding, streaming, filming, commanding, pinging, allotting, polling,
            timing, extracting, Holds!vars, Stream!svars, Video!wvars, Uci!uvars, Ping!pvars,
            Arbiter!avars, Polls!wvars, Tod!tvars, Reu!xvars
<1>1. CASE UNCHANGED allvars
  BY <1>1, SMTT(30) DEF allvars
<1>2. CASE RunNext
  BY <1>2 DEF RunNext
<1> QED BY <1>1, <1>2

LEMMA SubjectBegins ==
    ASSUME RunInit
    PROVE  /\ subject = "holds" => Holds!Init
           /\ subject = "stream" => Stream!StreamInit
           /\ subject = "video" => Video!VideoInit
           /\ subject = "uci" => Uci!UciInit
           /\ subject = "ping" => Ping!PingInit
           /\ subject = "arbiter" => Arbiter!ArbiterInit
           /\ subject = "wait" => Polls!WaitInit
           /\ subject = "tod" => Tod!TodInit
           /\ subject = "reu" => Reu!ExtractInit
BY DEF RunInit

-----------------------------------------------------------------------------
(* The pool of Ultimate 64s (U64Pool) and the locks around it, for any       *)
(* number of processes, threads and devices.  The device lock lets a process *)
(* join a hold of its own, so that it keeps processes apart and not threads; *)
(* the threads of a process are kept apart by its pool, which has every      *)
(* device once.  Both together give a user its lock, provided that no unit   *)
(* is in the pool under two names.                                           *)

OneNamePerUnit == \A d, e \in Devices : UnitOf[d] = UnitOf[e] => d = e

(* The two parts of a queue around its entry k+1.                           *)
LEMMA SubSeqOfQueue ==
    ASSUME NEW S, NEW Q \in Seq(S), NEW k \in 0 .. Len(Q), k < Len(Q)
    PROVE  /\ SubSeq(Q, k + 2, Len(Q)) \in Seq(S)
           /\ Len(SubSeq(Q, k + 2, Len(Q))) = Len(Q) - k - 1
           /\ \A i \in 1 .. Len(Q) - k - 1 :
                 SubSeq(Q, k + 2, Len(Q))[i] = Q[i + k + 1]
           /\ SubSeq(Q, 1, k) \in Seq(S)
           /\ Len(SubSeq(Q, 1, k)) = k
           /\ \A i \in 1 .. k : SubSeq(Q, 1, k)[i] = Q[i]
<1> DEFINE n == Len(Q)
           A == SubSeq(Q, k + 2, n)
           B == SubSeq(Q, 1, k)
<1>1. n \in Nat /\ k \in Nat /\ k < n /\ DOMAIN Q = 1 .. n
  OBVIOUS
<1>2. /\ A \in Seq(S) /\ Len(A) = n - k - 1
      /\ \A i \in 1 .. n - k - 1 : A[i] = Q[i + k + 1]
  <2>1. \A i \in k + 2 .. n : Q[i] \in S
    BY <1>1
  <2>2. /\ A \in Seq(S) /\ Len(A) = IF k + 2 <= n THEN n - (k + 2) + 1 ELSE 0
        /\ \A i \in 1 .. n - (k + 2) + 1 : A[i] = Q[k + 2 + i - 1]
    BY <1>1, <2>1, SubSeqProperties
  <2> HIDE DEF A, n
  <2>3. Len(A) = n - k - 1
    BY <1>1, <2>2
  <2>4. ASSUME NEW i \in 1 .. n - k - 1 PROVE A[i] = Q[i + k + 1]
    <3>1. A[i] = Q[k + 2 + i - 1]
      BY <1>1, <2>2
    <3>2. k + 2 + i - 1 = i + k + 1
      BY <1>1
    <3> QED BY <3>1, <3>2
  <2> QED BY <2>2, <2>3, <2>4
<1>3. /\ B \in Seq(S) /\ Len(B) = k
      /\ \A i \in 1 .. k : B[i] = Q[i]
  <2>1. \A i \in 1 .. k : Q[i] \in S
    BY <1>1
  <2>2. /\ B \in Seq(S) /\ Len(B) = IF 1 <= k THEN k - 1 + 1 ELSE 0
        /\ \A i \in 1 .. k - 1 + 1 : B[i] = Q[1 + i - 1]
    BY <1>1, <2>1, SubSeqProperties
  <2> HIDE DEF B, n
  <2>3. Len(B) = k
    BY <1>1, <2>2
  <2>4. ASSUME NEW i \in 1 .. k PROVE B[i] = Q[i]
    <3>1. B[i] = Q[1 + i - 1]
      BY <1>1, <2>2
    <3>2. 1 + i - 1 = i
      BY <1>1
    <3> QED BY <3>1, <3>2
  <2> QED BY <2>2, <2>3, <2>4
<1> QED BY <1>2, <1>3

(* What is left of a queue when its entry k+1 is taken and the first k are  *)
(* put behind the rest: entries of the queue at other places than k+1, each *)
(* at most once.                                                            *)
LEMMA WithoutNextProperties ==
    ASSUME NEW S, NEW Q \in Seq(S), NEW k \in 0 .. Len(Q), k < Len(Q),
           \A i, j \in DOMAIN Q : i # j => Q[i] # Q[j]
    PROVE  /\ WithoutNext(Q, k) \in Seq(S)
           /\ Len(WithoutNext(Q, k)) = Len(Q) - 1
           /\ \A i, j \in DOMAIN WithoutNext(Q, k) :
                i # j => WithoutNext(Q, k)[i] # WithoutNext(Q, k)[j]
           /\ \A i \in DOMAIN WithoutNext(Q, k) :
                /\ WithoutNext(Q, k)[i] # Q[k + 1]
                /\ \E j \in DOMAIN Q : WithoutNext(Q, k)[i] = Q[j]
<1> DEFINE n == Len(Q)
           A == SubSeq(Q, k + 2, n)
           B == SubSeq(Q, 1, k)
           R == A \o B
           At(i) == IF i <= n - k - 1 THEN i + k + 1 ELSE i - (n - k - 1)
<1>1. n \in Nat /\ k \in Nat /\ k < n /\ DOMAIN Q = 1 .. n
  OBVIOUS
<1>2. /\ A \in Seq(S) /\ Len(A) = n - k - 1
      /\ \A i \in 1 .. n - k - 1 : A[i] = Q[i + k + 1]
  BY SubSeqOfQueue
<1>3. /\ B \in Seq(S) /\ Len(B) = k
      /\ \A i \in 1 .. k : B[i] = Q[i]
  BY SubSeqOfQueue
<1> HIDE DEF A, B, n
<1>4. /\ R \in Seq(S) /\ Len(R) = n - 1 /\ DOMAIN R = 1 .. n - 1
      /\ \A i \in 1 .. n - 1 :
            R[i] = IF i <= n - k - 1 THEN A[i] ELSE B[i - (n - k - 1)]
  <2>1. /\ R \in Seq(S) /\ Len(R) = Len(A) + Len(B)
        /\ \A i \in 1 .. Len(A) + Len(B) :
              R[i] = IF i <= Len(A) THEN A[i] ELSE B[i - Len(A)]
    BY <1>2, <1>3, ConcatProperties, ZenonT(30)
  <2> HIDE DEF R
  <2>2. Len(A) + Len(B) = n - 1
    BY <1>1, <1>2, <1>3
  <2>3. DOMAIN R = 1 .. Len(R)
    BY <2>1
  <2> QED BY <2>1, <2>2, <2>3, <1>2
<1> HIDE DEF R
<1>5. ASSUME NEW i \in DOMAIN R
      PROVE  R[i] = Q[At(i)] /\ At(i) \in 1 .. n /\ At(i) # k + 1
  <2>1. CASE i <= n - k - 1
    <3>1. i \in 1 .. n - k - 1 /\ R[i] = A[i]
      BY <2>1, <1>1, <1>4
    <3> QED BY <3>1, <2>1, <1>1, <1>2
  <2>2. CASE ~(i <= n - k - 1)
    <3>1. i - (n - k - 1) \in 1 .. k /\ R[i] = B[i - (n - k - 1)]
      BY <2>2, <1>1, <1>4
    <3> QED BY <3>1, <2>2, <1>1, <1>3
  <2> QED BY <2>1, <2>2
<1>6. ASSUME NEW i \in DOMAIN R, NEW j \in DOMAIN R, i # j
      PROVE  At(i) # At(j)
  BY <1>1, <1>4, <1>6
<1> HIDE DEF At
<1>7. \A i, j \in DOMAIN R : i # j => R[i] # R[j]
  BY <1>5, <1>6, <1>1
<1>8. \A i \in DOMAIN R : R[i] # Q[k + 1] /\ \E j \in DOMAIN Q : R[i] = Q[j]
  <2>1. k + 1 \in DOMAIN Q
    BY <1>1
  <2> QED BY <1>5, <1>1, <2>1
<1> QED BY <1>4, <1>7, <1>8 DEF R, A, B, n, WithoutNext

(* Nothing else of the queue is gone.                                       *)
LEMMA WithoutNextKeepsRest ==
    ASSUME NEW S, NEW Q \in Seq(S), NEW k \in 0 .. Len(Q), k < Len(Q),
           NEW j \in DOMAIN Q
    PROVE  \/ j = k + 1
           \/ \E i \in DOMAIN WithoutNext(Q, k) : WithoutNext(Q, k)[i] = Q[j]
<1> DEFINE n == Len(Q)
           A == SubSeq(Q, k + 2, n)
           B == SubSeq(Q, 1, k)
<1>1. n \in Nat /\ k \in Nat /\ k < n /\ DOMAIN Q = 1 .. n /\ j \in 1 .. n
  OBVIOUS
<1>2. /\ WithoutNext(Q, k) = A \o B
      /\ A \in Seq(S) /\ Len(A) = n - k - 1
      /\ \A i \in 1 .. n - k - 1 : A[i] = Q[i + k + 1]
      /\ B \in Seq(S) /\ Len(B) = k
      /\ \A i \in 1 .. k : B[i] = Q[i]
  BY <1>1, SubSeqOfQueue, ZenonT(30) DEF WithoutNext
<1> HIDE DEF A, B, n
<1> DEFINE R == A \o B
<1>3. /\ DOMAIN R = 1 .. n - 1
      /\ \A i \in 1 .. n - 1 :
            R[i] = IF i <= n - k - 1 THEN A[i] ELSE B[i - (n - k - 1)]
  <2>1. /\ R \in Seq(S) /\ Len(R) = Len(A) + Len(B)
        /\ \A i \in 1 .. Len(A) + Len(B) :
              R[i] = IF i <= Len(A) THEN A[i] ELSE B[i - Len(A)]
    BY <1>2, ConcatProperties
  <2> HIDE DEF R
  <2>2. Len(A) + Len(B) = n - 1 /\ DOMAIN R = 1 .. Len(R)
    BY <1>1, <1>2, <2>1
  <2> QED BY <2>1, <2>2, <1>2
<1> HIDE DEF R
<1>4. CASE j < k + 1
  <2> DEFINE i == j + (n - k - 1)
  <2>1. /\ i \in 1 .. n - 1 /\ ~(i <= n - k - 1)
        /\ i - (n - k - 1) = j /\ j \in 1 .. k
    BY <1>1, <1>4
  <2> HIDE DEF i
  <2>2. R[i] = B[j] /\ B[j] = Q[j]
    BY <1>2, <1>3, <2>1
  <2> QED BY <1>2, <1>3, <2>1, <2>2 DEF R
<1>5. CASE j > k + 1
  <2> DEFINE i == j - (k + 1)
  <2>1. /\ i \in 1 .. n - 1 /\ i <= n - k - 1 /\ i \in 1 .. n - k - 1
        /\ i + k + 1 = j
    BY <1>1, <1>5
  <2> HIDE DEF i
  <2>2. R[i] = A[i] /\ A[i] = Q[j]
    BY <1>2, <1>3, <2>1
  <2> QED BY <1>2, <1>3, <2>1, <2>2 DEF R
<1> QED BY <1>1, <1>4, <1>5

-----------------------------------------------------------------------------
(* The use of a lock is the only thing that two names of a unit disturb.    *)
UserHasLockIf == OneNamePerUnit => UserHasLock

SafeInv == /\ TypeOK /\ DevicesDiffer /\ BusyHasDevice
           /\ LockIsUsers /\ LockIsClosers /\ UserHasLockIf

LEMMA InitSafeInv == ASSUME PoolAssumption PROVE Init => SafeInv
<1> SUFFICES ASSUME Init PROVE SafeInv
  OBVIOUS
<1> USE DEF PoolAssumption
<1>1. ASSUME NEW m \in Managers
      PROVE  /\ available[m] \in Seq(Devices)
             /\ \A i, j \in DOMAIN available[m] :
                   i # j => available[m][i] # available[m][j]
  <2>1. Cardinality(Devices) \in Nat
    BY FS_CardinalityType
  <2>2. available[m] \in Listing(Devices)
    BY DEF Init
  <2> QED BY <2>1, <2>2 DEF Listing
<1>2. available \in [Managers -> Seq(Devices)]
  <2>1. available \in [Managers -> Listing(Devices)]
    BY DEF Init
  <2> QED BY <2>1, <1>1
<1>3. TypeOK
  BY <1>2 DEF Init, TypeOK
<1>4. DevicesDiffer
  <2>1. \A m \in Managers : Out(m) = {}
    BY DEF Init, Out, Mine, Busy, Using
  <2> QED BY <1>1, <2>1 DEF DevicesDiffer
<1>5. BusyHasDevice /\ LockIsUsers /\ LockIsClosers /\ UserHasLockIf
  BY DEF Init, BusyHasDevice, LockIsUsers, LockIsClosers, UserHasLockIf,
         UserHasLock, Busy, Using, IsShut
<1> QED BY <1>3, <1>4, <1>5 DEF SafeInv

-----------------------------------------------------------------------------
(* Steps that hand out no device, and steps in which nobody gets or loses   *)
(* the use of one.                                                          *)
LEMMA DevicesKept ==
    ASSUME DevicesDiffer, UNCHANGED available,
           \A w \in Threads :
                pc'[w] \in Busy => pc[w] \in Busy /\ device'[w] = device[w]
    PROVE  DevicesDiffer'
<1>1. \A m \in Managers : Out(m)' \subseteq Out(m)
  BY DEF Out, Mine
<1>2. \A m \in Managers : \A w \in Out(m)' : device'[w] = device[w]
  BY DEF Out, Mine
<1> HIDE DEF Out
<1> QED BY <1>1, <1>2 DEF DevicesDiffer

LEMMA LocksKept ==
    ASSUME SafeInv, UNCHANGED <<lock, locks, phase>>,
           \A w \in Threads :
                pc[w] \in Using \cup {"gone"} \/ pc'[w] \in Using \cup {"gone"}
                    => pc'[w] = pc[w] /\ device'[w] = device[w]
    PROVE  LockIsUsers' /\ LockIsClosers' /\ UserHasLockIf'
<1>1. \A w \in Threads : pc[w] \in Using \cup {"gone"} => Unit(w)' = Unit(w)
  BY DEF Unit
<1>2. LockIsUsers'
  BY <1>1 DEF SafeInv, LockIsUsers, Using
<1>3. LockIsClosers'
  BY DEF SafeInv, LockIsClosers
<1>4. UserHasLockIf'
  BY <1>1 DEF SafeInv, UserHasLockIf, UserHasLock, Using
<1> QED BY <1>2, <1>3, <1>4

-----------------------------------------------------------------------------
(* The probes of acquire(): the device taken is no other thread's, for it   *)
(* was available.                                                           *)
LEMMA ProbeKeepsSafeInv ==
    ASSUME PoolAssumption, SafeInv, NEW t \in Threads,
           pc[t] \in {"idle", "wait"}, ~IsShut(MgrOf[t]),
           Probe(t, MgrOf[t]),
           waiting' \subseteq Threads, notified' \subseteq waiting',
           UNCHANGED <<lockVars, endVars>>
    PROVE  SafeInv'
<1> USE DEF PoolAssumption, Busy, Using, Mine, IsShut, lockVars, endVars
<1> DEFINE m == MgrOf[t]
           Q == available[m]
<1>1. /\ m \in Managers /\ Q \in Seq(Devices)
      /\ \A i, j \in DOMAIN Q : i # j => Q[i] # Q[j]
  BY DEF SafeInv, TypeOK, DevicesDiffer
<1>2. PICK k \in 0 .. Len(Q) :
        /\ probeFailed' = [probeFailed EXCEPT ![m] = @ \/ k > 0]
        /\ \/ /\ k = Len(Q)
              /\ Goto(t, "idle")
              /\ UNCHANGED <<available, inFlight, device, open>>
           \/ k < Len(Q) /\ TakeDevice(t, m, k)
  BY DEF Probe
<1>3. probeFailed' \in [Managers -> BOOLEAN]
  BY <1>1, <1>2 DEF SafeInv, TypeOK
<1>4. CASE k = Len(Q)
  <2>1. Goto(t, "idle") /\ UNCHANGED <<available, inFlight, device, open>>
    <3> Len(Q) \in Nat
      BY <1>1
    <3> HIDE DEF Q
    <3> QED BY <1>2, <1>4
  <2>2. pc' = [pc EXCEPT ![t] = "idle"]
    BY <2>1 DEF Goto
  <2>3. TypeOK'
    BY <1>3, <2>1, <2>2 DEF SafeInv, TypeOK
  <2>4. pc \in [Threads -> {"idle", "wait", "locking",
            "register", "baseline", "have", "giveback", "stop", "gone"}]
    BY DEF SafeInv, BusyHasDevice, TypeOK
  <2>5. DevicesDiffer'
    BY <2>1, <2>2, <2>4 DEF SafeInv, DevicesDiffer, Out
  <2>6. BusyHasDevice'
    BY <2>1, <2>2, <2>4 DEF SafeInv, BusyHasDevice
  <2>7. LockIsUsers' /\ LockIsClosers' /\ UserHasLockIf'
    BY <2>1, <2>2, <2>4 DEF SafeInv, LockIsUsers, LockIsClosers,
                                UserHasLockIf, UserHasLock, Unit
  <2> QED BY <2>3, <2>5, <2>6, <2>7 DEF SafeInv
<1>5. CASE k < Len(Q)
  <2> DEFINE R == WithoutNext(Q, k)
             d == Q[k + 1]
  <2>1. /\ R \in Seq(Devices)
        /\ \A i, j \in DOMAIN R : i # j => R[i] # R[j]
        /\ \A i \in DOMAIN R : R[i] # d /\ \E j \in DOMAIN Q : R[i] = Q[j]
    <3> Len(Q) \in Nat
      BY <1>1
    <3> HIDE DEF Q
    <3> QED BY <1>1, <1>5, WithoutNextProperties
  <2>2. k + 1 \in DOMAIN Q /\ d \in Devices
    BY <1>1, <1>5
  <2>3. /\ available' = [available EXCEPT ![m] = R]
        /\ device' = [device EXCEPT ![t] = d]
        /\ \/ /\ inFlight' = [inFlight EXCEPT ![m] = @ \cup {t}]
              /\ open' = open \cup {t}
              /\ pc' = [pc EXCEPT ![t] = "locking"]
           \/ /\ t \in Interrupted
              /\ pc' = [pc EXCEPT ![t] = "gone"]
              /\ UNCHANGED <<inFlight, open>>
    <3>1. TakeDevice(t, m, k)
      <4> Len(Q) \in Nat
        BY <1>1
      <4> HIDE DEF Q
      <4> QED BY <1>2, <1>5
    <3> QED BY <3>1 DEF TakeDevice, Goto
  <2>4. t \notin Out(m) /\ \A w \in Out(m) : device[w] # d
    BY <1>1, <2>2 DEF SafeInv, DevicesDiffer, Out
  <2> HIDE DEF R, d, Q
  <2>5. TypeOK'
    <3>1. available' \in [Managers -> Seq(Devices)]
      BY <1>1, <2>1, <2>3 DEF SafeInv, TypeOK
    <3>2. inFlight' \in [Managers -> SUBSET Threads]
      <4>1. inFlight \in [Managers -> SUBSET Threads]
        BY DEF SafeInv, TypeOK
      <4>2. inFlight' \in {inFlight, [inFlight EXCEPT ![m] = @ \cup {t}]}
        BY <2>3
      <4> HIDE DEF m
      <4> QED BY <1>1, <4>1, <4>2
    <3>6. device' \in [Threads -> Devices \cup {NoDevice}]
      BY <2>2, <2>3 DEF SafeInv, TypeOK
    <3>4. open' \subseteq Threads
      BY <2>3 DEF SafeInv, TypeOK
    <3>5. pc' \in [Threads -> {"idle", "wait", "locking", "register",
                             "baseline", "have", "giveback", "stop", "gone"}]
      <4>1. pc \in [Threads -> {"idle", "wait", "locking", "register",
                               "baseline", "have", "giveback", "stop", "gone"}]
        BY DEF SafeInv, TypeOK
      <4> QED BY <2>3, <4>1
    <3>3. /\ locks' \in [Managers -> SUBSET Threads]
          /\ lock' \in [Units -> Threads \cup Managers \cup {NoOne}]
          /\ phase' \in [Managers -> {"no", "unlock", "stop", "done"}]
          /\ stopping' \in [Managers -> SUBSET Threads]
      BY DEF SafeInv, TypeOK
    <3> QED BY <1>3, <3>1, <3>2, <3>3, <3>4, <3>5, <3>6 DEF TypeOK
  <2>6. /\ Out(m)' = Out(m) \cup {t}
        /\ \A n \in Managers \ {m} : Out(n)' = Out(n)
    BY <1>1, <2>3 DEF SafeInv, TypeOK, Out
  <2>7. /\ available'[m] = R /\ device'[t] = d
        /\ \A n \in Managers \ {m} : available'[n] = available[n]
        /\ \A w \in Threads \ {t} : device'[w] = device[w]
        /\ \A n \in Managers : Out(n) \subseteq Threads
        /\ \A n \in Managers \ {m} : t \notin Out(n)
    BY <1>1, <2>3 DEF SafeInv, TypeOK, Out, BusyHasDevice
  <2>8. DevicesDiffer'
    <3> SUFFICES ASSUME NEW n \in Managers
                 PROVE  /\ \A i, j \in DOMAIN available'[n] :
                              i # j => available'[n][i] # available'[n][j]
                        /\ \A w, x \in Out(n)' : w # x => device'[w] # device'[x]
                        /\ \A w \in Out(n)', i \in DOMAIN available'[n] :
                              available'[n][i] # device'[w]
      BY DEF DevicesDiffer
    <3>1. CASE n = m
      <4>1. \A w \in Out(m), i \in DOMAIN Q : Q[i] # device[w]
        BY <1>1 DEF SafeInv, DevicesDiffer, Q
      <4>2. \A w, x \in Out(m) : w # x => device[w] # device[x]
        BY <1>1 DEF SafeInv, DevicesDiffer
      <4> QED BY <3>1, <4>1, <4>2, <2>1, <2>4, <2>6, <2>7
    <3>2. CASE n # m
      BY <3>2, <2>6, <2>7 DEF SafeInv, DevicesDiffer
    <3> QED BY <3>1, <3>2
  <2>9. BusyHasDevice'
    BY <2>2, <2>3 DEF SafeInv, TypeOK, BusyHasDevice
  <2>10. LockIsUsers' /\ LockIsClosers' /\ UserHasLockIf'
    BY <2>3 DEF SafeInv, TypeOK, LockIsUsers, LockIsClosers,
                     UserHasLockIf, UserHasLock, Unit
  <2> QED BY <2>5, <2>8, <2>9, <2>10 DEF SafeInv
<1> QED BY <1>1, <1>4, <1>5

-----------------------------------------------------------------------------
LEMMA StepSafeInv ==
    ASSUME PoolAssumption, SafeInv, [Next]_vars
    PROVE  SafeInv'
<1> USE DEF PoolAssumption, Busy, Using, Mine, IsShut, Goto,
            poolVars, lockVars, endVars
<1>1. CASE UNCHANGED vars
  BY <1>1 DEF vars, SafeInv, TypeOK, DevicesDiffer, Out, BusyHasDevice,
              LockIsUsers, LockIsClosers, UserHasLockIf, UserHasLock, Unit
<1>2. ASSUME NEW t \in Threads, Acquire(t) PROVE SafeInv'
  <2>1. CASE available[MgrOf[t]] = <<>>
    <3> USE <1>2, <2>1 DEF Acquire, SafeInv
    <3>0. /\ pc' = [pc EXCEPT ![t] = "wait"]
          /\ UNCHANGED <<available, device, lock, locks, phase>>
      OBVIOUS
    <3>1. TypeOK'
      BY DEF TypeOK
    <3>4. \A w \in Threads : w # t => pc'[w] = pc[w]
      BY <3>0 DEF TypeOK
    <3>5. pc[t] \in {"idle", "wait"} /\ pc'[t] \in {"idle", "wait"}
      BY <3>0 DEF TypeOK
    <3>2. DevicesDiffer'
      BY <3>0, <3>4, <3>5, DevicesKept
    <3>3. BusyHasDevice'
      BY <3>0, <3>4, <3>5 DEF BusyHasDevice
    <3>6. LockIsUsers' /\ LockIsClosers' /\ UserHasLockIf'
      BY <3>0, <3>4, <3>5, LocksKept
    <3> QED BY <3>1, <3>2, <3>3, <3>6
  <2>2. CASE available[MgrOf[t]] # <<>>
    BY <1>2, <2>2, ProbeKeepsSafeInv DEF Acquire, SafeInv, TypeOK
  <2> QED BY <2>1, <2>2
<1>3. ASSUME NEW t \in Threads, WaitsOn(t) PROVE SafeInv'
  BY <1>3 DEF WaitsOn, SafeInv, TypeOK, DevicesDiffer, Out, BusyHasDevice,
              LockIsUsers, LockIsClosers, UserHasLockIf, UserHasLock, Unit
<1>4. ASSUME NEW t \in Threads, WaitOver(t) PROVE SafeInv'
  <2>1. CASE IsShut(MgrOf[t]) \/ available[MgrOf[t]] = <<>>
    <3> USE <1>4, <2>1 DEF WaitOver, SafeInv
    <3>0. /\ pc' = [pc EXCEPT ![t] = "idle"]
          /\ UNCHANGED <<available, device, lock, locks, phase>>
      OBVIOUS
    <3>1. TypeOK'
      BY DEF TypeOK
    <3>4. \A w \in Threads : w # t => pc'[w] = pc[w]
      BY <3>0 DEF TypeOK
    <3>5. pc[t] \in {"idle", "wait"} /\ pc'[t] \in {"idle", "wait"}
      BY <3>0 DEF TypeOK
    <3>2. DevicesDiffer'
      BY <3>0, <3>4, <3>5, DevicesKept
    <3>3. BusyHasDevice'
      BY <3>0, <3>4, <3>5 DEF BusyHasDevice
    <3>6. LockIsUsers' /\ LockIsClosers' /\ UserHasLockIf'
      BY <3>0, <3>4, <3>5, LocksKept
    <3> QED BY <3>1, <3>2, <3>3, <3>6
  <2>2. CASE ~(IsShut(MgrOf[t]) \/ available[MgrOf[t]] = <<>>)
    BY <1>4, <2>2, ProbeKeepsSafeInv DEF WaitOver, SafeInv, TypeOK
  <2> QED BY <2>1, <2>2
<1>5. ASSUME NEW t \in Threads, Lock(t) PROVE SafeInv'
  <2> USE <1>5 DEF Lock, SafeInv, TypeOK
  <2>1. TypeOK'
    OBVIOUS
  <2>2. DevicesDiffer'
    BY DevicesKept
  <2>3. BusyHasDevice'
    BY DEF BusyHasDevice
  <2>7. /\ pc' = [pc EXCEPT ![t] = "register"] /\ UNCHANGED <<device, phase, locks>>
        /\ Unit(t) \in Units /\ Unit(t)' = Unit(t)
    BY DEF BusyHasDevice, Unit, Units
  <2>8. CASE lock[Unit(t)] = NoOne /\ lock' = [lock EXCEPT ![Unit(t)] = t]
    <3>1. LockIsUsers'
      BY <2>7, <2>8 DEF LockIsUsers, Unit
    <3>2. LockIsClosers'
      BY <2>7, <2>8 DEF LockIsClosers
    <3>3. UserHasLockIf'
      BY <2>7, <2>8 DEF UserHasLockIf, UserHasLock, Unit
    <3> QED BY <2>1, <2>2, <2>3, <3>1, <3>2, <3>3
  <2>9. CASE /\ lock[Unit(t)] \in Mine(MgrOf[t]) \cup {MgrOf[t]}
             /\ UNCHANGED lock
    <3>1. LockIsUsers'
      BY <2>7, <2>9 DEF LockIsUsers, Unit
    <3>2. LockIsClosers'
      BY <2>7, <2>9 DEF LockIsClosers
    <3>3. ASSUME OneNamePerUnit PROVE phase[MgrOf[t]] # "no"
      <4>1. CASE lock[Unit(t)] = MgrOf[t]
        BY <4>1, <2>7 DEF LockIsClosers
      <4>2. ASSUME NEW w \in Mine(MgrOf[t]), lock[Unit(t)] = w PROVE FALSE
        <5>1. pc[w] \in Using \cup {"gone"} /\ Unit(w) = Unit(t)
          BY <4>2, <2>7 DEF LockIsUsers
        <5>2. device[w] \in Devices /\ device[t] \in Devices
          BY <5>1 DEF BusyHasDevice
        <5>3. device[w] = device[t]
          BY <3>3, <5>1, <5>2 DEF OneNamePerUnit, Unit
        <5>4. w \in Out(MgrOf[t]) /\ t \in Out(MgrOf[t]) /\ w # t
          BY <5>1 DEF Out
        <5> QED BY <5>3, <5>4 DEF DevicesDiffer
      <4> QED BY <2>9, <4>1, <4>2
    <3>4. UserHasLockIf'
      BY <2>7, <2>9, <3>3 DEF UserHasLockIf, UserHasLock, Unit
    <3> QED BY <2>1, <2>2, <2>3, <3>1, <3>2, <3>4
  <2> QED BY <2>8, <2>9
<1>6. ASSUME NEW t \in Threads, LockFails(t) PROVE SafeInv'
  <2> USE <1>6 DEF LockFails, SafeInv, TypeOK
  <2>1. TypeOK'
    OBVIOUS
  <2>2. DevicesDiffer'
    BY DEF DevicesDiffer, Out
  <2>3. BusyHasDevice'
    BY DEF BusyHasDevice
  <2>4. LockIsUsers'
    BY DEF LockIsUsers, Unit
  <2>5. LockIsClosers'
    BY DEF LockIsClosers
  <2>6. UserHasLockIf'
    BY DEF UserHasLockIf, UserHasLock, LockIsUsers, Unit
  <2> QED BY <2>1, <2>2, <2>3, <2>4, <2>5, <2>6
<1>7. ASSUME NEW t \in Threads, Register(t) PROVE SafeInv'
  <2> USE <1>7 DEF Register, SafeInv, TypeOK
  <2>1. TypeOK'
    OBVIOUS
  <2>2. DevicesDiffer'
    BY DEF DevicesDiffer, Out
  <2>3. BusyHasDevice'
    BY DEF BusyHasDevice
  <2>4. LockIsUsers'
    BY DEF LockIsUsers, Unit
  <2>5. LockIsClosers'
    BY DEF LockIsClosers
  <2>6. UserHasLockIf'
    BY DEF UserHasLockIf, UserHasLock, LockIsUsers, Unit
  <2> QED BY <2>1, <2>2, <2>3, <2>4, <2>5, <2>6
<1>8. ASSUME NEW t \in Threads, Baseline(t) PROVE SafeInv'
  <2> USE <1>8 DEF Baseline, SafeInv, TypeOK
  <2>1. TypeOK'
    OBVIOUS
  <2>2. DevicesDiffer'
    BY DEF DevicesDiffer, Out
  <2>3. BusyHasDevice'
    BY DEF BusyHasDevice
  <2>4. LockIsUsers'
    BY DEF LockIsUsers, Unit
  <2>5. LockIsClosers'
    BY DEF LockIsClosers
  <2>6. UserHasLockIf'
    BY DEF UserHasLockIf, UserHasLock, LockIsUsers, Unit
  <2> QED BY <2>1, <2>2, <2>3, <2>4, <2>5, <2>6
<1>9. ASSUME NEW t \in Threads, BaselineFails(t) PROVE SafeInv'
  <2> USE <1>9 DEF BaselineFails, SafeInv, TypeOK, Unlocked
  <2>1. TypeOK'
    OBVIOUS
  <2>2. DevicesDiffer'
    BY DEF DevicesDiffer, Out
  <2>3. BusyHasDevice'
    BY DEF BusyHasDevice
  <2>4. LockIsUsers'
    BY DEF LockIsUsers, Unit
  <2>5. LockIsClosers'
    BY DEF LockIsClosers
  <2>6. UserHasLockIf'
    BY DEF UserHasLockIf, UserHasLock, LockIsUsers, Unit
  <2> QED BY <2>1, <2>2, <2>3, <2>4, <2>5, <2>6
<1>10. ASSUME NEW t \in Threads, Interrupt(t) PROVE SafeInv'
  <2> USE <1>10 DEF Interrupt, SafeInv, TypeOK
  <2>1. TypeOK'
    OBVIOUS
  <2>2. DevicesDiffer'
    BY DEF DevicesDiffer, Out
  <2>3. BusyHasDevice'
    BY DEF BusyHasDevice
  <2>4. LockIsUsers'
    BY DEF LockIsUsers, Unit
  <2>5. LockIsClosers'
    BY DEF LockIsClosers
  <2>6. UserHasLockIf'
    BY DEF UserHasLockIf, UserHasLock, LockIsUsers, Unit
  <2> QED BY <2>1, <2>2, <2>3, <2>4, <2>5, <2>6
<1>11. ASSUME NEW t \in Threads, ReleaseLock(t) PROVE SafeInv'
  <2> USE DEF SafeInv, TypeOK
  <2>1. /\ pc[t] = "have" /\ pc' = [pc EXCEPT ![t] = "giveback"]
        /\ UNCHANGED <<poolVars, waiting, device, open, endVars>>
    BY <1>11 DEF ReleaseLock
  <2>2. DevicesDiffer'
    BY <2>1, DevicesKept
  <2>3. Unit(t) \in Units /\ \A w \in Threads : Unit(w)' = Unit(w)
    BY <2>1 DEF BusyHasDevice, Unit, Units
  <2>4. CASE /\ t \in locks[MgrOf[t]]
             /\ locks' = [locks EXCEPT ![MgrOf[t]] = @ \ {t}]
             /\ lock' = Unlocked(t)
    <3>1. \/ lock[Unit(t)] = t /\ lock' = [lock EXCEPT ![Unit(t)] = NoOne]
          \/ lock[Unit(t)] # t /\ UNCHANGED lock
      BY <2>4 DEF Unlocked
    <3>2. TypeOK'
      BY <2>1, <2>3, <2>4, <3>1
    <3>3. BusyHasDevice'
      BY <2>1, <2>4 DEF BusyHasDevice
    <3>7. /\ \A w \in Threads \ {t} : pc'[w] = pc[w]
          /\ \A w \in Threads \ {t} :
                w \in locks[MgrOf[w]] => w \in locks'[MgrOf[w]]
          /\ pc'[t] = "giveback"
      BY <2>1, <2>4
    <3>8. \A u \in Units :
            /\ lock'[u] # NoOne => lock'[u] = lock[u] /\ lock'[u] # t
            /\ lock[u] # t => lock'[u] = lock[u]
      <4>1. \A u \in Units : lock[u] = t => u = Unit(t)
        BY DEF LockIsUsers
      <4>2. CASE lock[Unit(t)] = t /\ lock' = [lock EXCEPT ![Unit(t)] = NoOne]
        BY <4>1, <4>2, <2>3
      <4>3. CASE lock[Unit(t)] # t /\ UNCHANGED lock
        BY <4>1, <4>3
      <4> QED BY <3>1, <4>2, <4>3
    <3>4. LockIsUsers'
      <4> SUFFICES ASSUME NEW u \in Units, NEW w \in Threads, lock'[u] = w
                   PROVE  /\ pc'[w] \in Using \cup {"gone"}
                          /\ Unit(w)' = u
                          /\ pc'[w] \in {"baseline", "have"}
                                => w \in locks'[MgrOf[w]]
        BY DEF LockIsUsers
      <4>0. w # NoOne
        OBVIOUS
      <4>1. w # t /\ lock[u] = w
        BY <3>8, <4>0, Zenon
      <4> QED BY <4>1, <2>3, <3>7 DEF LockIsUsers
    <3>5. LockIsClosers'
      <4> SUFFICES ASSUME NEW u \in Units, NEW m \in Managers, lock'[u] = m
                   PROVE  phase'[m] = "unlock"
        BY DEF LockIsClosers
      <4>1. m # NoOne
        OBVIOUS
      <4>2. lock[u] = m
        BY <3>8, <4>1, Zenon
      <4> QED BY <2>1, <4>2 DEF LockIsClosers
    <3>6. UserHasLockIf'
      <4> SUFFICES ASSUME OneNamePerUnit,
                        NEW w \in Threads, pc'[w] \in Using,
                          phase'[MgrOf[w]] = "no"
                   PROVE  lock'[Unit(w)'] = w
        BY DEF UserHasLockIf, UserHasLock
      <4>1. w # t /\ lock[Unit(w)] = w
        BY <2>1, <3>7 DEF UserHasLockIf, UserHasLock
      <4>2. Unit(w) \in Units
        BY <4>1, <3>7 DEF BusyHasDevice, Unit, Units
      <4>3. lock'[Unit(w)] = w
        BY <4>1, <4>2, <3>8, Zenon
      <4> QED BY <4>3, <2>3
    <3> QED BY <2>2, <3>2, <3>3, <3>4, <3>5, <3>6
  <2>5. CASE t \notin locks[MgrOf[t]] /\ UNCHANGED lockVars
    <3>1. TypeOK'
      BY <2>1, <2>5
    <3>2. BusyHasDevice'
      BY <2>1, <2>5 DEF BusyHasDevice
    <3>3. LockIsUsers'
      BY <2>1, <2>3, <2>5 DEF LockIsUsers
    <3>4. LockIsClosers'
      BY <2>1, <2>5 DEF LockIsClosers
    <3>5. UserHasLockIf'
      BY <2>1, <2>3, <2>5 DEF UserHasLockIf, UserHasLock
    <3> QED BY <2>2, <3>1, <3>2, <3>3, <3>4, <3>5
  <2> QED BY <1>11, <2>4, <2>5 DEF ReleaseLock
<1>12. ASSUME NEW t \in Threads, GiveBack(t) PROVE SafeInv'
  <2> USE DEF SafeInv, TypeOK
  <2> DEFINE m == MgrOf[t]
  <2>1. /\ m \in Managers /\ pc[t] = "giveback"
        /\ UNCHANGED <<waiting, lockVars, open, endVars, probeFailed>>
    BY <1>12 DEF GiveBack
  <2>2. CASE /\ t \in inFlight[m]
             /\ inFlight' = [inFlight EXCEPT ![m] = @ \ {t}]
             /\ available' = [available EXCEPT ![m] = Append(@, device[t])]
             /\ Notify(m)
             /\ Goto(t, "stop") /\ UNCHANGED device
    <3>1. device[t] \in Devices /\ t \in Out(m)
      BY <2>1 DEF BusyHasDevice, Out
    <3>2. /\ pc' = [pc EXCEPT ![t] = "stop"] /\ UNCHANGED device
          /\ notified' \subseteq waiting
      BY <2>2 DEF Notify
    <3>3. available' \in [Managers -> Seq(Devices)]
      BY <2>1, <2>2, <3>1
    <3>4. inFlight' \in [Managers -> SUBSET Threads]
      BY <2>1, <2>2
    <3>5. TypeOK'
      BY <2>1, <3>2, <3>3, <3>4
    <3>6. BusyHasDevice'
      BY <2>1, <3>2 DEF BusyHasDevice
    <3>7. LockIsUsers' /\ LockIsClosers' /\ UserHasLockIf'
      BY <2>1, <3>2, LocksKept
    <3>8. /\ Out(m)' = Out(m) \ {t}
          /\ \A n \in Managers \ {m} : Out(n)' = Out(n)
      BY <2>1, <3>2 DEF Out
    <3>9. DevicesDiffer'
      <4> SUFFICES ASSUME NEW n \in Managers
                   PROVE  /\ \A i, j \in DOMAIN available'[n] :
                                i # j => available'[n][i] # available'[n][j]
                          /\ \A w, x \in Out(n)' : w # x => device'[w] # device'[x]
                          /\ \A w \in Out(n)', i \in DOMAIN available'[n] :
                                available'[n][i] # device'[w]
        BY DEF DevicesDiffer
      <4>1. CASE n = m
        <5> DEFINE Q == available[m]
                   R == available'[m]
        <5>1. Q \in Seq(Devices) /\ R = Append(Q, device[t])
          BY <2>1, <2>2
        <5>2. /\ \A i, j \in DOMAIN Q : i # j => Q[i] # Q[j]
              /\ \A w, x \in Out(m) : w # x => device[w] # device[x]
              /\ \A w \in Out(m), i \in DOMAIN Q : Q[i] # device[w]
          BY <2>1 DEF DevicesDiffer
        <5> HIDE DEF Q, R
        <5>3. /\ Len(Q) \in Nat /\ DOMAIN Q = 1 .. Len(Q)
              /\ DOMAIN R = 1 .. Len(Q) + 1
              /\ R[Len(Q) + 1] = device[t]
              /\ \A i \in 1 .. Len(Q) : R[i] = Q[i]
          BY <5>1, <3>1
        <5>4. \A i \in DOMAIN R : i \in DOMAIN Q \/ i = Len(Q) + 1
          BY <5>3
        <5>5. \A i, j \in DOMAIN R : i # j => R[i] # R[j]
          BY <5>2, <5>3, <5>4, <3>1
        <5>6. \A w \in Out(m)', i \in DOMAIN R : R[i] # device[w]
          BY <5>2, <5>3, <5>4, <3>1, <3>8
        <5> QED BY <4>1, <5>2, <5>5, <5>6, <3>2, <3>8 DEF R
      <4>2. CASE n # m
        BY <4>2, <2>1, <2>2, <3>2, <3>8 DEF DevicesDiffer
      <4> QED BY <4>1, <4>2
    <3> QED BY <3>5, <3>6, <3>7, <3>9
  <2>3. CASE /\ t \notin inFlight[m]
             /\ Goto(t, "idle") /\ device' = [device EXCEPT ![t] = NoDevice]
             /\ UNCHANGED <<inFlight, available, notified>>
    <3>1. /\ pc' = [pc EXCEPT ![t] = "idle"]
          /\ device' = [device EXCEPT ![t] = NoDevice]
          /\ UNCHANGED <<inFlight, available, notified>>
      BY <2>3
    <3>2. TypeOK'
      BY <2>1, <3>1
    <3>3. DevicesDiffer'
      BY <2>1, <3>1, DevicesKept
    <3>4. BusyHasDevice'
      BY <2>1, <3>1 DEF BusyHasDevice
    <3>5. LockIsUsers' /\ LockIsClosers' /\ UserHasLockIf'
      BY <2>1, <3>1, LocksKept
    <3> QED BY <3>2, <3>3, <3>4, <3>5
  <2> QED BY <1>12, <2>2, <2>3 DEF GiveBack
<1>13. ASSUME NEW t \in Threads, Stop(t) PROVE SafeInv'
  <2> USE <1>13 DEF Stop, SafeInv, TypeOK
  <2>1. TypeOK'
    OBVIOUS
  <2>2. DevicesDiffer'
    BY DEF DevicesDiffer, Out
  <2>3. BusyHasDevice'
    BY DEF BusyHasDevice
  <2>4. LockIsUsers'
    BY DEF LockIsUsers, Unit
  <2>5. LockIsClosers'
    BY DEF LockIsClosers
  <2>6. UserHasLockIf'
    BY DEF UserHasLockIf, UserHasLock, LockIsUsers, Unit
  <2> QED BY <2>1, <2>2, <2>3, <2>4, <2>5, <2>6
<1>14. ASSUME NEW m \in Managers, Shutdown(m) PROVE SafeInv'
  <2> USE <1>14 DEF Shutdown, SafeInv, TypeOK
  <2>1. TypeOK'
    OBVIOUS
  <2>2. DevicesDiffer'
    BY DEF DevicesDiffer, Out
  <2>3. BusyHasDevice'
    BY DEF BusyHasDevice
  <2>4. LockIsUsers'
    BY DEF LockIsUsers, Unit
  <2>5. LockIsClosers'
    BY DEF LockIsClosers
  <2>6. UserHasLockIf'
    <3> SUFFICES ASSUME OneNamePerUnit,
                        NEW w \in Threads, pc'[w] \in Using,
                        phase'[MgrOf[w]] = "no"
                 PROVE  lock'[Unit(w)'] = w
      BY DEF UserHasLockIf, UserHasLock
    <3>1. MgrOf[w] # m /\ phase[MgrOf[w]] = "no" /\ pc[w] \in Using
      OBVIOUS
    <3>2. Unit(w)' = Unit(w) /\ Unit(w) \in Units
      BY <3>1 DEF BusyHasDevice, Unit, Units
    <3>3. lock[Unit(w)] = w
      BY <3>1 DEF UserHasLockIf, UserHasLock
    <3>4. w \notin locks[m]
      BY <3>1 DEF BusyHasDevice
    <3> QED BY <3>2, <3>3, <3>4
  <2> QED BY <2>1, <2>2, <2>3, <2>4, <2>5, <2>6
<1>15. ASSUME NEW m \in Managers, ShutdownUnlock(m) PROVE SafeInv'
  <2> USE <1>15 DEF ShutdownUnlock, SafeInv, TypeOK
  <2>1. TypeOK'
    OBVIOUS
  <2>2. DevicesDiffer'
    BY DEF DevicesDiffer, Out
  <2>3. BusyHasDevice'
    BY DEF BusyHasDevice
  <2>4. LockIsUsers'
    BY DEF LockIsUsers, Unit
  <2>5. LockIsClosers'
    BY DEF LockIsClosers
  <2>6. UserHasLockIf'
    BY DEF UserHasLockIf, UserHasLock, LockIsUsers, Unit
  <2> QED BY <2>1, <2>2, <2>3, <2>4, <2>5, <2>6
<1>16. ASSUME NEW m \in Managers, ShutdownPool(m) PROVE SafeInv'
  <2> USE <1>16 DEF ShutdownPool, SafeInv, TypeOK
  <2>1. TypeOK'
    OBVIOUS
  <2>2. DevicesDiffer'
    BY DEF DevicesDiffer, Out
  <2>3. BusyHasDevice'
    BY DEF BusyHasDevice
  <2>4. LockIsUsers'
    BY DEF LockIsUsers, Unit
  <2>5. LockIsClosers'
    BY DEF LockIsClosers
  <2>6. UserHasLockIf'
    BY DEF UserHasLockIf, UserHasLock, LockIsUsers, Unit
  <2> QED BY <2>1, <2>2, <2>3, <2>4, <2>5, <2>6
<1>17. ASSUME NEW m \in Managers, ShutdownStop(m) PROVE SafeInv'
  <2> USE <1>17 DEF ShutdownStop, SafeInv, TypeOK
  <2>1. TypeOK'
    <3>1. ASSUME NEW t \in stopping[m],
                 stopping' = [stopping EXCEPT ![m] = @ \ {t}],
                 open' = open \ {t}, UNCHANGED phase
          PROVE  TypeOK'
      BY <3>1
    <3>2. CASE phase' = [phase EXCEPT ![m] = "done"] /\ UNCHANGED <<stopping, open>>
      BY <3>2
    <3> QED BY <3>1, <3>2
  <2>2. DevicesDiffer'
    BY DEF DevicesDiffer, Out
  <2>3. BusyHasDevice'
    BY DEF BusyHasDevice
  <2>4. LockIsUsers'
    BY DEF LockIsUsers, Unit
  <2>5. LockIsClosers'
    BY DEF LockIsClosers
  <2>6. UserHasLockIf'
    BY DEF UserHasLockIf, UserHasLock, LockIsUsers, Unit
  <2> QED BY <2>1, <2>2, <2>3, <2>4, <2>5, <2>6
<1> QED
  BY <1>1, <1>2, <1>3, <1>4, <1>5, <1>6, <1>7, <1>8, <1>9, <1>10, <1>11,
     <1>12, <1>13, <1>14, <1>15, <1>16, <1>17 DEF Next

THEOREM Safe == ASSUME PoolAssumption PROVE Spec => []SafeInv
  BY InitSafeInv, StepSafeInv, PTL DEF Spec

THEOREM Invariant ==
    ASSUME PoolAssumption, OneNamePerUnit PROVE Spec => []IInv
<1>1. SafeInv => IInv
  BY DEF SafeInv, IInv, UserHasLockIf
<1> QED BY <1>1, Safe, PTL

(* A thread that uses a device has its lock, and has it as its own and not  *)
(* as a guest of another thread's, until its manager begins to shut down    *)
(* (_LockedU64Manager on Ultimate64InstanceManager).                        *)
THEOREM UsersAreLocked ==
    ASSUME PoolAssumption, OneNamePerUnit PROVE Spec => []UserHasLock
<1>1. SafeInv => UserHasLock
  BY DEF SafeInv, UserHasLockIf
<1> QED BY <1>1, Safe, PTL

(* A device is never two threads' at once, nor a thread's and available:    *)
(* what the queue of a pool promises, locks or no locks.                    *)
THEOREM DevicesAreOnce == ASSUME PoolAssumption PROVE Spec => []DevicesDiffer
<1>1. SafeInv => DevicesDiffer
  BY DEF SafeInv
<1> QED BY <1>1, Safe, PTL

-----------------------------------------------------------------------------
(* The books of a pool.  Until it is shut, whoever is out is in flight or   *)
(* lost, and a device that is not in the queue is out; whoever is           *)
(* registered, or has a transport open, is at a step from which it will     *)
(* give it back, or its manager's shutdown() has it to stop.                *)
FlightIsOut ==
    \A m \in Managers :
        /\ inFlight[m] \subseteq Out(m)
        /\ IsShut(m) => available[m] = <<>> /\ inFlight[m] = {}
        /\ ~IsShut(m) =>
              \A t \in Out(m) : t \in inFlight[m] \/ pc[t] = "gone"

NoneIsMissing ==
    \A m \in Managers : ~IsShut(m) =>
        \A d \in Devices : \/ \E i \in DOMAIN available[m] : available[m][i] = d
                           \/ \E t \in Out(m) : device[t] = d

RegisteredWillRelease ==
    \A m \in Managers : \A t \in locks[m] : pc[t] \in {"baseline", "have", "gone"}

OpenWillClose ==
    /\ \A t \in open : \/ pc[t] = "stop"
                        \/ t \in inFlight[MgrOf[t]] \cup stopping[MgrOf[t]]
    /\ \A m \in Managers : phase[m] # "stop" => stopping[m] = {}

Books == /\ FlightIsOut /\ NoneIsMissing
         /\ RegisteredWillRelease /\ OpenWillClose

WokenAreFew ==
    \A m \in Managers : ~IsShut(m) => IsFiniteSet(notified \cap Mine(m))

WakeInv == WokenAreFew /\ WakeupsMatchDevices

LEMMA InitBooks == ASSUME PoolAssumption PROVE Init => Books /\ WakeInv
<1> SUFFICES ASSUME Init PROVE Books /\ WakeInv
  OBVIOUS
<1> USE DEF PoolAssumption
<1>1. \A m \in Managers : Out(m) = {} /\ ~IsShut(m)
  BY DEF Init, Out, Mine, Busy, Using, IsShut
<1>2. FlightIsOut /\ RegisteredWillRelease /\ OpenWillClose
  BY <1>1 DEF Init, FlightIsOut, RegisteredWillRelease, OpenWillClose
<1>3. NoneIsMissing
  <2> SUFFICES ASSUME NEW m \in Managers, NEW d \in Devices
               PROVE  \E i \in DOMAIN available[m] : available[m][i] = d
    BY DEF NoneIsMissing
  <2> DEFINE n == Cardinality(Devices)
             Q == available[m]
  <2>1. n \in Nat /\ IsFiniteSet(1 .. n) /\ Cardinality(1 .. n) = n
    BY FS_CardinalityType, FS_Interval
  <2>2. Q \in [1 .. n -> Devices] /\ \A i, j \in 1 .. n : i # j => Q[i] # Q[j]
    BY DEF Init, Listing
  <2> HIDE DEF n, Q
  <2>3. Q \in Injection(1 .. n, Devices)
    BY <2>2 DEF Injection, IsInjective
  <2>4. Q \in Surjection(1 .. n, Devices)
    BY <2>1, <2>3, FS_Injection DEF n
  <2> QED BY <2>2, <2>4 DEF Surjection, Q
<1>4. WakeInv
  BY FS_EmptySet DEF Init, WakeInv, WokenAreFew, WakeupsMatchDevices
<1> QED BY <1>2, <1>3, <1>4 DEF Books

(* Steps in which nobody leaves the pool or comes back to it.               *)
LEMMA FlightKept ==
    ASSUME FlightIsOut, NoneIsMissing, UNCHANGED <<available, inFlight>>,
           \A m \in Managers : IsShut(m)' <=> IsShut(m),
           \A w \in Threads : /\ pc'[w] \in Busy <=> pc[w] \in Busy
                              /\ pc[w] \in Busy => device'[w] = device[w]
                              /\ pc[w] = "gone" => pc'[w] = pc[w]
    PROVE  FlightIsOut' /\ NoneIsMissing'
<1>1. \A m \in Managers : Out(m)' = Out(m) /\ Out(m) \subseteq Threads
  BY DEF Out, Mine
<1>2. \A m \in Managers : \A w \in Out(m) :
        device'[w] = device[w] /\ (pc[w] = "gone" => pc'[w] = "gone")
  BY DEF Out, Mine
<1> HIDE DEF Out, IsShut
<1>3. FlightIsOut'
  BY <1>1, <1>2 DEF FlightIsOut
<1>4. NoneIsMissing'
  <2> SUFFICES ASSUME NEW m \in Managers, ~IsShut(m)', NEW d \in Devices
               PROVE  \/ \E i \in DOMAIN available'[m] : available'[m][i] = d
                      \/ \E t \in Out(m)' : device'[t] = d
    BY DEF NoneIsMissing
  <2>1. \/ \E i \in DOMAIN available[m] : available[m][i] = d
        \/ \E t \in Out(m) : device[t] = d
    BY DEF NoneIsMissing
  <2> QED BY <2>1, <1>1, <1>2
<1> QED BY <1>3, <1>4

LEMMA ProbeKeepsBooks ==
    ASSUME PoolAssumption, SafeInv, Books, NEW t \in Threads,
           pc[t] \in {"idle", "wait"}, ~IsShut(MgrOf[t]),
           Probe(t, MgrOf[t]),
           UNCHANGED <<lockVars, endVars>>
    PROVE  Books'
<1> USE DEF PoolAssumption, Busy, Using, Mine, lockVars, endVars, Books
<1> DEFINE m == MgrOf[t]
           Q == available[m]
<1>1. /\ m \in Managers /\ Q \in Seq(Devices) /\ open \subseteq Threads
      /\ pc \in [Threads -> {"idle", "wait", "locking", "register",
                             "baseline", "have", "giveback", "stop", "gone"}]
      /\ device \in [Threads -> Devices \cup {NoDevice}]
      /\ inFlight \in [Managers -> SUBSET Threads]
      /\ available \in [Managers -> Seq(Devices)]
      /\ Len(Q) \in Nat
  BY DEF SafeInv, TypeOK
<1>2. PICK k \in 0 .. Len(Q) :
        \/ /\ k = Len(Q)
           /\ Goto(t, "idle")
           /\ UNCHANGED <<available, inFlight, device, open>>
        \/ k < Len(Q) /\ TakeDevice(t, m, k)
  BY DEF Probe
<1>3. \A n \in Managers : \A w \in locks[n] : w \in Threads /\ w # t
  BY DEF SafeInv, BusyHasDevice, RegisteredWillRelease
<1>4. ASSUME Goto(t, "idle"), UNCHANGED <<available, inFlight, device, open>>
      PROVE  Books'
  <2>1. pc' = [pc EXCEPT ![t] = "idle"]
    BY <1>4 DEF Goto
  <2>2. FlightIsOut' /\ NoneIsMissing'
    BY <1>1, <1>4, <2>1, FlightKept DEF IsShut
  <2>3. RegisteredWillRelease'
    BY <1>1, <1>3, <2>1 DEF RegisteredWillRelease
  <2>4. OpenWillClose'
    BY <1>1, <1>4, <2>1 DEF OpenWillClose
  <2> QED BY <2>2, <2>3, <2>4
<1>5. ASSUME k < Len(Q), TakeDevice(t, m, k) PROVE Books'
  <2> DEFINE R == WithoutNext(Q, k)
             d == Q[k + 1]
  <2>1. \A j \in DOMAIN Q : j = k + 1 \/ \E i \in DOMAIN R : R[i] = Q[j]
    <3> HIDE DEF Q
    <3> QED BY <1>1, <1>5, WithoutNextKeepsRest
  <2>2. k + 1 \in DOMAIN Q /\ d \in Devices
    BY <1>1, <1>5
  <2>3. /\ available' = [available EXCEPT ![m] = R]
        /\ device' = [device EXCEPT ![t] = d]
        /\ \/ /\ inFlight' = [inFlight EXCEPT ![m] = @ \cup {t}]
              /\ open' = open \cup {t}
              /\ pc' = [pc EXCEPT ![t] = "locking"]
           \/ /\ pc' = [pc EXCEPT ![t] = "gone"]
              /\ UNCHANGED <<inFlight, open>>
    BY <1>5 DEF TakeDevice, Goto
  <2> HIDE DEF R, d, Q
  <2>4. /\ Out(m)' = Out(m) \cup {t}
        /\ \A n \in Managers \ {m} : Out(n)' = Out(n)
        /\ \A n \in Managers : t \notin Out(n) /\ Out(n) \subseteq Threads
    BY <1>1, <2>3 DEF Out
  <2>5. /\ available'[m] = R /\ device'[t] = d
        /\ \A n \in Managers \ {m} : available'[n] = available[n]
        /\ \A w \in Threads \ {t} : device'[w] = device[w] /\ pc'[w] = pc[w]
        /\ \A n \in Managers : IsShut(n)' <=> IsShut(n)
    BY <1>1, <2>2, <2>3 DEF IsShut
  <2>6. /\ \A n \in Managers \ {m} : inFlight'[n] = inFlight[n]
        /\ \/ inFlight'[m] = inFlight[m] \cup {t} /\ open' = open \cup {t}
           \/ inFlight'[m] = inFlight[m] /\ open' = open /\ pc'[t] = "gone"
    BY <1>1, <2>3
  <2>7. FlightIsOut'
    BY <2>4, <2>5, <2>6 DEF FlightIsOut
  <2>8. NoneIsMissing'
    <3> SUFFICES ASSUME NEW n \in Managers, ~IsShut(n)', NEW e \in Devices
                 PROVE  \/ \E i \in DOMAIN available'[n] : available'[n][i] = e
                        \/ \E w \in Out(n)' : device'[w] = e
      BY DEF NoneIsMissing
    <3>1. \/ \E i \in DOMAIN available[n] : available[n][i] = e
          \/ \E w \in Out(n) : device[w] = e
      BY <2>5 DEF NoneIsMissing
    <3>2. CASE \E w \in Out(n) : device[w] = e
      BY <3>2, <2>4, <2>5
    <3>3. CASE n # m
      BY <3>1, <3>3, <2>4, <2>5
    <3>4. CASE n = m /\ \E i \in DOMAIN Q : Q[i] = e
      BY <3>4, <2>1, <2>4, <2>5 DEF d
    <3> QED BY <3>1, <3>2, <3>3, <3>4 DEF Q
  <2>9. OpenWillClose'
    <3> SUFFICES ASSUME NEW w \in open'
                 PROVE  \/ pc'[w] = "stop"
                        \/ w \in inFlight'[MgrOf[w]] \cup stopping[MgrOf[w]]
      BY DEF OpenWillClose
    <3>1. CASE w \in open
      <4>1. w \in Threads /\ MgrOf[w] \in Managers
        BY <3>1, <1>1
      <4>2. pc[w] = "stop" \/ w \in inFlight[MgrOf[w]] \cup stopping[MgrOf[w]]
        BY <3>1 DEF OpenWillClose
      <4>3. inFlight[MgrOf[w]] \subseteq inFlight'[MgrOf[w]]
        BY <4>1, <2>6
      <4>4. pc[w] = "stop" => pc'[w] = "stop"
        BY <4>1, <2>5
      <4> QED BY <4>2, <4>3, <4>4
    <3>2. CASE w \notin open
      BY <3>2, <2>6
    <3> QED BY <3>1, <3>2
  <2>10. RegisteredWillRelease'
    BY <1>3, <2>5 DEF RegisteredWillRelease
  <2> QED BY <2>7, <2>8, <2>9, <2>10
<1> QED BY <1>2, <1>4, <1>5

LEMMA StepBooks ==
    ASSUME PoolAssumption, SafeInv, Books, [Next]_vars
    PROVE  Books'
<1> USE DEF PoolAssumption, Busy, Using, Mine, Goto, poolVars, lockVars, endVars
<1>0. /\ pc \in [Threads -> {"idle", "wait", "locking", "register",
                             "baseline", "have", "giveback", "stop", "gone"}]
      /\ device \in [Threads -> Devices \cup {NoDevice}]
      /\ inFlight \in [Managers -> SUBSET Threads]
      /\ available \in [Managers -> Seq(Devices)]
      /\ locks \in [Managers -> SUBSET Threads]
      /\ phase \in [Managers -> {"no", "unlock", "stop", "done"}]
      /\ stopping \in [Managers -> SUBSET Threads]
      /\ open \subseteq Threads
      /\ \A n \in Managers : \A w \in locks[n] : w \in Threads /\ MgrOf[w] = n
  BY DEF SafeInv, TypeOK, BusyHasDevice
<1>B. FlightIsOut /\ NoneIsMissing /\ RegisteredWillRelease /\ OpenWillClose
  BY DEF Books
(* Steps from which nobody is out who was not, or the other way round.      *)
<1>C. ASSUME \A w \in Threads :
                /\ pc'[w] \in Busy <=> pc[w] \in Busy
                /\ pc[w] \in {"gone", "stop"} => pc'[w] = pc[w],
             UNCHANGED <<available, inFlight, device, open, phase, stopping>>,
             RegisteredWillRelease'
      PROVE  Books'
  <2>1. FlightIsOut' /\ NoneIsMissing'
    <3>1. \A m \in Managers : IsShut(m)' <=> IsShut(m)
      BY <1>C DEF IsShut
    <3> QED BY <1>B, <1>C, <3>1, FlightKept
  <2>2. OpenWillClose'
    BY <1>0, <1>B, <1>C DEF OpenWillClose
  <2> QED BY <1>C, <2>1, <2>2 DEF Books
<1>1. CASE UNCHANGED vars
  <2>1. RegisteredWillRelease'
    BY <1>1, <1>B DEF vars, RegisteredWillRelease
  <2> QED BY <1>1, <1>C, <2>1 DEF vars
<1>2. ASSUME NEW t \in Threads, Acquire(t) PROVE Books'
  <2>1. CASE available[MgrOf[t]] = <<>>
    <3>1. /\ \A w \in Threads : /\ pc'[w] \in Busy <=> pc[w] \in Busy
                                /\ pc[w] \in {"gone", "stop"} => pc'[w] = pc[w]
          /\ UNCHANGED <<available, inFlight, device, open, phase, stopping>>
      BY <1>0, <1>2, <2>1 DEF Acquire
    <3>2. RegisteredWillRelease'
      <4>1. /\ \A w \in Threads \ {t} : pc'[w] = pc[w]
            /\ pc[t] \in {"idle", "wait"} /\ UNCHANGED locks
        BY <1>0, <1>2, <2>1 DEF Acquire
      <4> QED BY <1>0, <1>B, <4>1 DEF RegisteredWillRelease
    <3> QED BY <3>1, <3>2, <1>C
  <2>2. CASE available[MgrOf[t]] # <<>>
    BY <1>2, <2>2, ProbeKeepsBooks DEF Acquire
  <2> QED BY <2>1, <2>2
<1>3. ASSUME NEW t \in Threads, WaitsOn(t) PROVE Books'
  <2>1. /\ \A w \in Threads : /\ pc'[w] \in Busy <=> pc[w] \in Busy
                              /\ pc[w] \in {"gone", "stop"} => pc'[w] = pc[w]
        /\ UNCHANGED <<available, inFlight, device, open, phase, stopping>>
    BY <1>0, <1>3 DEF WaitsOn
  <2>2. RegisteredWillRelease'
    BY <1>0, <1>3, <1>B DEF WaitsOn, RegisteredWillRelease
  <2> QED BY <2>1, <2>2, <1>C
<1>4. ASSUME NEW t \in Threads, WaitOver(t) PROVE Books'
  <2>1. CASE IsShut(MgrOf[t]) \/ available[MgrOf[t]] = <<>>
    <3>1. /\ \A w \in Threads : /\ pc'[w] \in Busy <=> pc[w] \in Busy
                                /\ pc[w] \in {"gone", "stop"} => pc'[w] = pc[w]
          /\ UNCHANGED <<available, inFlight, device, open, phase, stopping>>
      BY <1>0, <1>4, <2>1 DEF WaitOver
    <3>2. RegisteredWillRelease'
      <4>1. /\ \A w \in Threads \ {t} : pc'[w] = pc[w]
            /\ pc[t] \in {"idle", "wait"} /\ UNCHANGED locks
        BY <1>0, <1>4, <2>1 DEF WaitOver
      <4> QED BY <1>0, <1>B, <4>1 DEF RegisteredWillRelease
    <3> QED BY <3>1, <3>2, <1>C
  <2>2. CASE ~(IsShut(MgrOf[t]) \/ available[MgrOf[t]] = <<>>)
    BY <1>4, <2>2, ProbeKeepsBooks DEF WaitOver
  <2> QED BY <2>1, <2>2
<1>5. ASSUME NEW t \in Threads, Lock(t) PROVE Books'
  <2>1. /\ \A w \in Threads : /\ pc'[w] \in Busy <=> pc[w] \in Busy
                              /\ pc[w] \in {"gone", "stop"} => pc'[w] = pc[w]
        /\ UNCHANGED <<available, inFlight, device, open, phase, stopping>>
    BY <1>0, <1>5 DEF Lock
  <2>2. RegisteredWillRelease'
    BY <1>0, <1>5, <1>B DEF Lock, RegisteredWillRelease
  <2> QED BY <2>1, <2>2, <1>C
<1>6. ASSUME NEW t \in Threads, LockFails(t) PROVE Books'
  <2>1. /\ \A w \in Threads : /\ pc'[w] \in Busy <=> pc[w] \in Busy
                              /\ pc[w] \in {"gone", "stop"} => pc'[w] = pc[w]
        /\ UNCHANGED <<available, inFlight, device, open, phase, stopping>>
    BY <1>0, <1>6 DEF LockFails
  <2>2. RegisteredWillRelease'
    BY <1>0, <1>6, <1>B DEF LockFails, RegisteredWillRelease
  <2> QED BY <2>1, <2>2, <1>C
<1>7. ASSUME NEW t \in Threads, Register(t) PROVE Books'
  <2>1. /\ \A w \in Threads : /\ pc'[w] \in Busy <=> pc[w] \in Busy
                              /\ pc[w] \in {"gone", "stop"} => pc'[w] = pc[w]
        /\ UNCHANGED <<available, inFlight, device, open, phase, stopping>>
    BY <1>0, <1>7 DEF Register
  <2>2. RegisteredWillRelease'
    BY <1>0, <1>7, <1>B DEF Register, RegisteredWillRelease
  <2> QED BY <2>1, <2>2, <1>C
<1>8. ASSUME NEW t \in Threads, Baseline(t) PROVE Books'
  <2>1. /\ \A w \in Threads : /\ pc'[w] \in Busy <=> pc[w] \in Busy
                              /\ pc[w] \in {"gone", "stop"} => pc'[w] = pc[w]
        /\ UNCHANGED <<available, inFlight, device, open, phase, stopping>>
    BY <1>0, <1>8 DEF Baseline
  <2>2. RegisteredWillRelease'
    BY <1>0, <1>8, <1>B DEF Baseline, RegisteredWillRelease
  <2> QED BY <2>1, <2>2, <1>C
<1>9. ASSUME NEW t \in Threads, BaselineFails(t) PROVE Books'
  <2>1. /\ \A w \in Threads : /\ pc'[w] \in Busy <=> pc[w] \in Busy
                              /\ pc[w] \in {"gone", "stop"} => pc'[w] = pc[w]
        /\ UNCHANGED <<available, inFlight, device, open, phase, stopping>>
    BY <1>0, <1>9 DEF BaselineFails
  <2>2. RegisteredWillRelease'
    BY <1>0, <1>9, <1>B DEF BaselineFails, RegisteredWillRelease
  <2> QED BY <2>1, <2>2, <1>C
<1>10. ASSUME NEW t \in Threads, Interrupt(t) PROVE Books'
  <2>1. /\ \A w \in Threads : /\ pc'[w] \in Busy <=> pc[w] \in Busy
                              /\ pc[w] \in {"gone", "stop"} => pc'[w] = pc[w]
        /\ UNCHANGED <<available, inFlight, device, open, phase, stopping>>
    BY <1>0, <1>10 DEF Interrupt
  <2>2. RegisteredWillRelease'
    BY <1>0, <1>10, <1>B DEF Interrupt, RegisteredWillRelease
  <2> QED BY <2>1, <2>2, <1>C
<1>11. ASSUME NEW t \in Threads, ReleaseLock(t) PROVE Books'
  <2>1. /\ \A w \in Threads : /\ pc'[w] \in Busy <=> pc[w] \in Busy
                              /\ pc[w] \in {"gone", "stop"} => pc'[w] = pc[w]
        /\ UNCHANGED <<available, inFlight, device, open, phase, stopping>>
    BY <1>0, <1>11 DEF ReleaseLock
  <2>2. RegisteredWillRelease'
    BY <1>0, <1>11, <1>B DEF ReleaseLock, RegisteredWillRelease
  <2> QED BY <2>1, <2>2, <1>C
<1>12. ASSUME NEW t \in Threads, GiveBack(t) PROVE Books'
  <2> DEFINE m == MgrOf[t]
  <2>0. /\ m \in Managers /\ pc[t] = "giveback" /\ t \in Out(m)
        /\ UNCHANGED <<waiting, lockVars, open, endVars, probeFailed>>
    BY <1>0, <1>12 DEF GiveBack, Out
  <2>1. \A w \in locks[m] : w # t
    BY <1>B, <2>0 DEF RegisteredWillRelease
  <2>2. CASE /\ t \in inFlight[m]
             /\ inFlight' = [inFlight EXCEPT ![m] = @ \ {t}]
             /\ available' = [available EXCEPT ![m] = Append(@, device[t])]
             /\ Goto(t, "stop") /\ UNCHANGED device
    <3> DEFINE Q == available[m]
               R == available'[m]
    <3>1. /\ Out(m)' = Out(m) \ {t}
          /\ \A n \in Managers \ {m} : Out(n)' = Out(n) /\ t \notin Out(n)
          /\ \A n \in Managers : Out(n) \subseteq Threads
      BY <1>0, <2>0, <2>2 DEF Out
    <3>2. /\ inFlight'[m] = inFlight[m] \ {t}
          /\ \A n \in Managers \ {m} : /\ inFlight'[n] = inFlight[n]
                                        /\ available'[n] = available[n]
          /\ \A w \in Threads \ {t} : pc'[w] = pc[w]
          /\ pc'[t] = "stop"
          /\ \A n \in Managers : IsShut(n)' <=> IsShut(n)
          /\ ~IsShut(m)
      BY <1>0, <1>B, <2>0, <2>2 DEF IsShut, FlightIsOut
    <3>3. /\ device[t] \in Devices /\ Q \in Seq(Devices)
          /\ R = Append(Q, device[t])
      BY <1>0, <2>0, <2>2 DEF SafeInv, BusyHasDevice
    <3>4. /\ R[Len(Q) + 1] = device[t] /\ Len(Q) + 1 \in DOMAIN R
          /\ \A i \in DOMAIN Q : i \in DOMAIN R /\ R[i] = Q[i]
      <4> HIDE DEF Q, R
      <4> QED BY <3>3
    <3> HIDE DEF Q, R, m
    <3>5. FlightIsOut'
      BY <1>B, <2>0, <2>2, <3>1, <3>2 DEF FlightIsOut
    <3>6. NoneIsMissing'
      <4> SUFFICES ASSUME NEW n \in Managers, ~IsShut(n)', NEW e \in Devices
                   PROVE  \/ \E i \in DOMAIN available'[n] : available'[n][i] = e
                          \/ \E w \in Out(n)' : device[w] = e
        BY <2>2 DEF NoneIsMissing
      <4>1. \/ \E i \in DOMAIN available[n] : available[n][i] = e
            \/ \E w \in Out(n) : device[w] = e
        BY <1>B, <3>2 DEF NoneIsMissing
      <4>2. CASE n # m
        BY <4>1, <4>2, <3>1, <3>2
      <4>3. CASE n = m /\ \E i \in DOMAIN Q : Q[i] = e
        BY <4>3, <3>4 DEF R
      <4>4. CASE n = m /\ \E w \in Out(m) : device[w] = e
        BY <4>4, <3>1, <3>4 DEF R
      <4> QED BY <4>1, <4>2, <4>3, <4>4 DEF Q
    <3>7. OpenWillClose'
      BY <1>0, <1>B, <2>0, <2>2, <3>2 DEF OpenWillClose, m
    <3>8. RegisteredWillRelease'
      BY <1>0, <1>B, <2>0, <2>1, <3>2, ZenonT(30) DEF RegisteredWillRelease, m
    <3> QED BY <3>5, <3>6, <3>7, <3>8 DEF Books
  <2>3. CASE /\ t \notin inFlight[m]
             /\ Goto(t, "idle") /\ device' = [device EXCEPT ![t] = NoDevice]
             /\ UNCHANGED <<inFlight, available, notified>>
    <3>1. IsShut(m)
      BY <1>B, <2>0, <2>3 DEF FlightIsOut
    <3>2. /\ Out(m)' = Out(m) \ {t}
          /\ \A n \in Managers \ {m} : Out(n)' = Out(n) /\ t \notin Out(n)
          /\ \A n \in Managers : Out(n) \subseteq Threads
          /\ \A n \in Managers : IsShut(n)' <=> IsShut(n)
          /\ \A w \in Threads \ {t} : pc'[w] = pc[w] /\ device'[w] = device[w]
      BY <1>0, <2>0, <2>3 DEF Out, IsShut
    <3> HIDE DEF m
    <3>3. FlightIsOut'
      BY <1>B, <2>0, <2>3, <3>1, <3>2 DEF FlightIsOut
    <3>4. NoneIsMissing'
      BY <1>B, <2>0, <2>3, <3>1, <3>2 DEF NoneIsMissing
    <3>5. OpenWillClose'
      BY <1>0, <1>B, <2>0, <2>3, <3>2 DEF OpenWillClose, m
    <3>6. RegisteredWillRelease'
      BY <1>0, <1>B, <2>0, <2>1, <3>2 DEF RegisteredWillRelease, m
    <3> QED BY <3>3, <3>4, <3>5, <3>6 DEF Books
  <2> QED BY <1>12, <2>2, <2>3 DEF GiveBack
<1>13. ASSUME NEW t \in Threads, Stop(t) PROVE Books'
  <2>1. /\ pc[t] = "stop" /\ pc' = [pc EXCEPT ![t] = "idle"]
        /\ open' = open \ {t} /\ device' = [device EXCEPT ![t] = NoDevice]
        /\ UNCHANGED <<available, inFlight, locks, phase, stopping>>
    BY <1>13 DEF Stop
  <2>2. FlightIsOut' /\ NoneIsMissing'
    <3>1. \A n \in Managers : IsShut(n)' <=> IsShut(n)
      BY <2>1 DEF IsShut
    <3>2. \A w \in Threads : /\ pc'[w] \in Busy <=> pc[w] \in Busy
                             /\ pc[w] \in Busy => device'[w] = device[w]
                             /\ pc[w] = "gone" => pc'[w] = pc[w]
      BY <1>0, <2>1
    <3> QED BY <1>B, <2>1, <3>1, <3>2, FlightKept
  <2>3. OpenWillClose'
    BY <1>0, <1>B, <2>1 DEF OpenWillClose
  <2>4. RegisteredWillRelease'
    BY <1>0, <1>B, <2>1 DEF RegisteredWillRelease
  <2> QED BY <2>2, <2>3, <2>4 DEF Books
<1>14. ASSUME NEW m \in Managers, Shutdown(m) PROVE Books'
  <2>1. /\ phase[m] = "no" /\ phase' = [phase EXCEPT ![m] = "unlock"]
        /\ locks' = [locks EXCEPT ![m] = {}]
        /\ UNCHANGED <<available, inFlight, pc, device, open, stopping>>
    BY <1>14 DEF Shutdown
  <2>2. FlightIsOut' /\ NoneIsMissing'
    <3>1. \A n \in Managers : IsShut(n)' <=> IsShut(n)
      BY <1>0, <2>1 DEF IsShut
    <3> QED BY <1>B, <2>1, <3>1, FlightKept
  <2>3. OpenWillClose'
    BY <1>0, <1>B, <2>1 DEF OpenWillClose
  <2>4. RegisteredWillRelease'
    BY <1>0, <1>B, <2>1 DEF RegisteredWillRelease
  <2> QED BY <2>2, <2>3, <2>4 DEF Books
<1>15. ASSUME NEW m \in Managers, ShutdownUnlock(m) PROVE Books'
  <2>1. RegisteredWillRelease'
    BY <1>15, <1>B DEF ShutdownUnlock, RegisteredWillRelease
  <2> QED BY <1>15, <1>C, <2>1 DEF ShutdownUnlock
<1>16. ASSUME NEW m \in Managers, ShutdownPool(m) PROVE Books'
  <2>1. /\ phase[m] = "unlock" /\ phase' = [phase EXCEPT ![m] = "stop"]
        /\ stopping' = [stopping EXCEPT ![m] = inFlight[m]]
        /\ inFlight' = [inFlight EXCEPT ![m] = {}]
        /\ available' = [available EXCEPT ![m] = <<>>]
        /\ UNCHANGED <<locks, pc, device, open>>
    BY <1>16 DEF ShutdownPool
  <2>2. /\ \A n \in Managers : Out(n)' = Out(n)
        /\ \A n \in Managers \ {m} : /\ IsShut(n)' <=> IsShut(n)
                                      /\ available'[n] = available[n]
                                      /\ inFlight'[n] = inFlight[n]
        /\ IsShut(m)' /\ inFlight'[m] = {} /\ available'[m] = <<>>
    BY <1>0, <2>1 DEF Out, IsShut
  <2>3. FlightIsOut'
    BY <1>B, <2>1, <2>2 DEF FlightIsOut
  <2>4. NoneIsMissing'
    <3> SUFFICES ASSUME NEW n \in Managers, ~IsShut(n)', NEW d \in Devices
                 PROVE  \/ \E i \in DOMAIN available'[n] : available'[n][i] = d
                        \/ \E t \in Out(n)' : device'[t] = d
      BY DEF NoneIsMissing
    <3>1. n # m
      BY <1>0, <2>1 DEF IsShut
    <3>3. ~IsShut(n)
      BY <1>0, <2>1, <3>1 DEF IsShut
    <3>2. \/ \E i \in DOMAIN available[n] : available[n][i] = d
          \/ \E t \in Out(n) : device[t] = d
      BY <1>B, <3>3 DEF NoneIsMissing
    <3> QED BY <2>1, <2>2, <3>1, <3>2
  <2>5. OpenWillClose'
    BY <1>0, <1>B, <2>1 DEF OpenWillClose
  <2>6. RegisteredWillRelease'
    BY <1>B, <2>1 DEF RegisteredWillRelease
  <2> QED BY <2>3, <2>4, <2>5, <2>6 DEF Books
<1>17. ASSUME NEW m \in Managers, ShutdownStop(m) PROVE Books'
  <2>1. /\ phase[m] = "stop"
        /\ UNCHANGED <<available, inFlight, locks, pc, device>>
        /\ \/ \E t \in stopping[m] :
                 /\ stopping' = [stopping EXCEPT ![m] = @ \ {t}]
                 /\ open' = open \ {t} /\ UNCHANGED phase
           \/ /\ stopping[m] = {} /\ phase' = [phase EXCEPT ![m] = "done"]
              /\ UNCHANGED <<stopping, open>>
    BY <1>17 DEF ShutdownStop
  <2>2. FlightIsOut' /\ NoneIsMissing'
    <3>1. \A n \in Managers : IsShut(n)' <=> IsShut(n)
      BY <1>0, <2>1 DEF IsShut
    <3> QED BY <1>B, <2>1, <3>1, FlightKept
  <2>3. OpenWillClose'
    <3>1. ASSUME NEW t \in stopping[m],
                 stopping' = [stopping EXCEPT ![m] = @ \ {t}],
                 open' = open \ {t}, UNCHANGED phase
          PROVE  OpenWillClose'
      BY <1>0, <1>B, <2>1, <3>1 DEF OpenWillClose
    <3>2. CASE /\ stopping[m] = {} /\ phase' = [phase EXCEPT ![m] = "done"]
               /\ UNCHANGED <<stopping, open>>
      BY <1>0, <1>B, <2>1, <3>2 DEF OpenWillClose
    <3> QED BY <2>1, <3>1, <3>2
  <2>4. RegisteredWillRelease'
    BY <1>B, <2>1 DEF RegisteredWillRelease
  <2> QED BY <2>2, <2>3, <2>4 DEF Books
<1> QED
  BY <1>1, <1>2, <1>3, <1>4, <1>5, <1>6, <1>7, <1>8, <1>9, <1>10, <1>11,
     <1>12, <1>13, <1>14, <1>15, <1>16, <1>17 DEF Next

-----------------------------------------------------------------------------
(* The wake-ups.  A device comes back with a wake-up or finds nobody asleep; *)
(* one device goes with a woken waiter at most, while probes succeed.       *)
LEMMA ProbeKeepsWakes ==
    ASSUME PoolAssumption, SafeInv, WakeInv, NEW t \in Threads,
           ~IsShut(MgrOf[t]), available[MgrOf[t]] # <<>>,
           Probe(t, MgrOf[t]), UNCHANGED phase,
           \/ UNCHANGED <<waiting, notified>>
           \/ waiting' = waiting \ {t} /\ notified' = notified \ {t}
    PROVE  WakeInv'
<1> USE DEF PoolAssumption
<1> DEFINE m == MgrOf[t]
           Q == available[m]
           Woken(n) == notified \cap Mine(n)
<1>1. /\ m \in Managers /\ Q \in Seq(Devices) /\ Q # <<>>
      /\ available \in [Managers -> Seq(Devices)]
      /\ probeFailed \in [Managers -> BOOLEAN]
  BY DEF SafeInv, TypeOK
<1>2. Len(Q) \in Nat /\ Len(Q) > 0
  <2> HIDE DEF Q
  <2> QED BY <1>1
<1>3. \A n \in Managers : IsShut(n)' <=> IsShut(n)
  BY DEF IsShut
<1>4. PICK k \in 0 .. Len(Q) :
        /\ probeFailed' = [probeFailed EXCEPT ![m] = @ \/ k > 0]
        /\ \/ k = Len(Q)
           \/ k < Len(Q) /\ available' = [available EXCEPT ![m] = WithoutNext(Q, k)]
        /\ \/ UNCHANGED available
           \/ available' = [available EXCEPT ![m] = WithoutNext(Q, k)]
  BY DEF Probe, TakeDevice
<1>5. \A n \in Managers \ {m} :
        /\ available'[n] = available[n] /\ probeFailed'[n] = probeFailed[n]
        /\ t \notin Mine(n)
  BY <1>1, <1>4 DEF Mine
<1>6. \A n \in Managers : \/ Woken(n)' = Woken(n)
                          \/ n = m /\ Woken(n)' = Woken(n) \ {t}
  BY <1>5
<1>7. probeFailed'[m] \/ /\ probeFailed[m] = FALSE
                         /\ Len(available'[m]) = Len(Q) - 1
  <2>1. CASE k > 0
    BY <1>1, <1>4, <2>1
  <2>2. CASE k = 0 /\ probeFailed[m]
    BY <1>1, <1>4, <2>2
  <2>3. CASE k = 0 /\ ~probeFailed[m]
    <3>1. available'[m] = WithoutNext(Q, 0)
      BY <1>1, <1>2, <1>4, <2>3
    <3>2. Len(WithoutNext(Q, 0)) = Len(Q) - 1
      <4>1. \A i, j \in DOMAIN Q : i # j => Q[i] # Q[j]
        BY <1>1 DEF SafeInv, DevicesDiffer
      <4>2. 0 \in 0 .. Len(Q) /\ 0 < Len(Q)
        BY <1>2
      <4> HIDE DEF Q
      <4> QED BY <1>1, <4>1, <4>2, WithoutNextProperties
    <3> QED BY <1>1, <2>3, <3>1, <3>2
  <2>4. k \in Nat
    <3> HIDE DEF Q
    <3> QED BY <1>2
  <2>5. k = 0 \/ k > 0
    BY <2>4
  <2> QED BY <2>1, <2>2, <2>3, <2>5, Zenon
<1>8. WokenAreFew'
  <2> SUFFICES ASSUME NEW n \in Managers, ~IsShut(n)'
               PROVE  IsFiniteSet(Woken(n)')
    BY DEF WokenAreFew
  <2>1. IsFiniteSet(Woken(n))
    BY <1>3 DEF WakeInv, WokenAreFew
  <2> HIDE DEF Woken
  <2> QED BY <1>6, <2>1, FS_RemoveElement
<1>9. WakeupsMatchDevices'
  <2> SUFFICES ASSUME NEW n \in Managers, ~probeFailed'[n], ~IsShut(n)',
                      ~(Mine(n) \cap waiting' \subseteq notified')
               PROVE  Len(available'[n]) <= Cardinality(Woken(n)')
    BY DEF WakeupsMatchDevices
  <2>1. ~(Mine(n) \cap waiting \subseteq notified)
    OBVIOUS
  <2>2. ~probeFailed[n] /\ ~IsShut(n)
    BY <1>3, <1>5, <1>7
  <2>3. Len(available[n]) <= Cardinality(Woken(n)) /\ IsFiniteSet(Woken(n))
    BY <2>1, <2>2 DEF WakeInv, WokenAreFew, WakeupsMatchDevices
  <2> HIDE DEF Woken
  <2>4. CASE n # m
    BY <1>5, <1>6, <2>3, <2>4
  <2>5. CASE n = m
    <3>1. Len(available'[m]) = Len(Q) - 1
      BY <1>7, <2>5
    <3>2. Cardinality(Woken(m)) \in Nat
      BY <2>3, <2>5, FS_CardinalityType
    <3> DEFINE W == Woken(m)
               c == Cardinality(W)
    <3>3. /\ t \in W => Cardinality(W \ {t}) = c - 1
          /\ t \notin W => Cardinality(W \ {t}) = c
      <4>1. IsFiniteSet(W)
        BY <2>3, <2>5
      <4> HIDE DEF W
      <4>2. Cardinality(W \ {t}) = IF t \in W THEN c - 1 ELSE c
        BY <4>1, FS_RemoveElement
      <4> QED BY <4>2
    <3>4. Cardinality(Woken(m)') >= c - 1
      <4>1. Woken(m)' = W \/ Woken(m)' = W \ {t}
        BY <1>1, <1>6
      <4>2. c >= c - 1 /\ c - 1 >= c - 1
        BY <3>2
      <4> HIDE DEF W, c
      <4>3. CASE Woken(m)' = W
        BY <4>2, <4>3 DEF c
      <4>4. CASE Woken(m)' = W \ {t}
        BY <3>3, <4>2, <4>4
      <4> QED BY <4>1, <4>3, <4>4
    <3>5. Cardinality(Woken(m)') \in Nat
      BY <1>1, <1>6, <2>3, <2>5, <3>2, FS_RemoveElement, FS_CardinalityType
    <3> QED BY <1>2, <2>3, <2>5, <3>1, <3>2, <3>4, <3>5
  <2> QED BY <2>4, <2>5
<1> QED BY <1>8, <1>9 DEF WakeInv

LEMMA StepWakes ==
    ASSUME PoolAssumption, SafeInv, WakeInv, [Next]_vars
    PROVE  WakeInv'
<1> USE DEF PoolAssumption
<1> DEFINE Woken(n) == notified \cap Mine(n)
<1>0. /\ waiting \subseteq Threads /\ notified \subseteq waiting
      /\ available \in [Managers -> Seq(Devices)]
      /\ probeFailed \in [Managers -> BOOLEAN]
      /\ device \in [Threads -> Devices \cup {NoDevice}]
      /\ phase \in [Managers -> {"no", "unlock", "stop", "done"}]
      /\ \A n \in Managers : Len(available[n]) \in Nat
  BY DEF SafeInv, TypeOK
(* Steps that leave the waiters and the queues alone.                       *)
<1>A. ASSUME UNCHANGED <<available, notified, probeFailed, waiting>>,
             \A n \in Managers : IsShut(n) => IsShut(n)'
      PROVE  WakeInv'
  <2>1. WokenAreFew'
    BY <1>A DEF WakeInv, WokenAreFew, Mine
  <2>2. WakeupsMatchDevices'
    BY <1>A DEF WakeInv, WakeupsMatchDevices, Mine
  <2> QED BY <2>1, <2>2 DEF WakeInv
(* Steps at a queue that is empty.                                          *)
<1>B. ASSUME NEW t \in Threads, available[MgrOf[t]] = <<>> \/ IsShut(MgrOf[t]),
             UNCHANGED <<available, probeFailed, phase>>,
             waiting' \in {waiting, waiting \cup {t}, waiting \ {t}},
             notified' \in {notified, notified \ {t}}
      PROVE  WakeInv'
  <2>0. /\ \A n \in Managers : IsShut(n)' <=> IsShut(n)
        /\ \A n \in Managers \ {MgrOf[t]} : t \notin Mine(n)
    BY <1>B DEF IsShut, Mine
  <2>1. WokenAreFew'
    <3> SUFFICES ASSUME NEW n \in Managers, ~IsShut(n)'
                 PROVE  IsFiniteSet(Woken(n)')
      BY DEF WokenAreFew
    <3>1. IsFiniteSet(Woken(n))
      BY <2>0 DEF WakeInv, WokenAreFew
    <3>2. Woken(n)' = Woken(n) \/ Woken(n)' = Woken(n) \ {t}
      BY <1>B
    <3> HIDE DEF Woken
    <3> QED BY <3>1, <3>2, FS_RemoveElement
  <2>2. WakeupsMatchDevices'
    <3> SUFFICES ASSUME NEW n \in Managers, ~probeFailed'[n], ~IsShut(n)',
                        ~(Mine(n) \cap waiting' \subseteq notified')
                 PROVE  Len(available'[n]) <= Cardinality(Woken(n)')
      BY DEF WakeupsMatchDevices
    <3>1. CASE n = MgrOf[t]
      <4>1. available[n] = <<>>
        BY <1>B, <2>0, <3>1
      <4>2. Len(available'[n]) = 0
        BY <1>B, <4>1
      <4>3. IsFiniteSet(Woken(n)')
        BY <2>1 DEF WokenAreFew
      <4>4. Cardinality(Woken(n)') \in Nat
        BY <4>3, FS_CardinalityType
      <4> HIDE DEF Woken
      <4> QED BY <4>2, <4>4
    <3>2. CASE n # MgrOf[t]
      <4>1. /\ Woken(n)' = Woken(n)
            /\ Mine(n) \cap waiting' = Mine(n) \cap waiting
        BY <1>B, <2>0, <3>2
      <4>2. ~(Mine(n) \cap waiting \subseteq notified)
        BY <4>1
      <4>3. Len(available[n]) <= Cardinality(Woken(n))
        BY <1>B, <2>0, <4>2 DEF WakeInv, WakeupsMatchDevices
      <4> QED BY <1>B, <4>1, <4>3
    <3> QED BY <3>1, <3>2
  <2> QED BY <2>1, <2>2 DEF WakeInv
<1>1. CASE UNCHANGED vars
  BY <1>1, <1>A DEF vars, IsShut
<1>2. ASSUME NEW t \in Threads, Acquire(t) PROVE WakeInv'
  <2>1. CASE available[MgrOf[t]] = <<>>
    BY <1>2, <2>1, <1>B DEF Acquire, endVars
  <2>2. CASE available[MgrOf[t]] # <<>>
    BY <1>2, <2>2, ProbeKeepsWakes DEF Acquire, endVars
  <2> QED BY <2>1, <2>2
<1>3. ASSUME NEW t \in Threads, WaitsOn(t) PROVE WakeInv'
  BY <1>3, <1>B DEF WaitsOn, endVars
<1>4. ASSUME NEW t \in Threads, WaitOver(t) PROVE WakeInv'
  <2>1. CASE IsShut(MgrOf[t]) \/ available[MgrOf[t]] = <<>>
    BY <1>4, <2>1, <1>B DEF WaitOver, endVars
  <2>2. CASE ~(IsShut(MgrOf[t]) \/ available[MgrOf[t]] = <<>>)
    BY <1>4, <2>2, ProbeKeepsWakes DEF WaitOver, endVars
  <2> QED BY <2>1, <2>2
<1>5. ASSUME NEW t \in Threads,
             \/ Lock(t) \/ LockFails(t) \/ Register(t) \/ Baseline(t)
             \/ BaselineFails(t) \/ Interrupt(t) \/ ReleaseLock(t) \/ Stop(t)
      PROVE  WakeInv'
  <2>1. UNCHANGED <<available, notified, probeFailed, waiting, phase>>
    BY <1>5 DEF Lock, LockFails, Register, Baseline, BaselineFails,
                Interrupt, ReleaseLock, Stop, poolVars, endVars
  <2> QED BY <2>1, <1>A DEF IsShut
<1>6. ASSUME NEW t \in Threads, GiveBack(t) PROVE WakeInv'
  <2> DEFINE m == MgrOf[t]
             asleep == (waiting \ notified) \cap Mine(m)
  <2>0. m \in Managers /\ UNCHANGED <<waiting, phase, probeFailed>>
    BY <1>6 DEF GiveBack, endVars
  <2>1. \A n \in Managers : IsShut(n)' <=> IsShut(n)
    BY <2>0 DEF IsShut
  <2>2. CASE UNCHANGED <<available, notified>>
    BY <1>A, <2>0, <2>1, <2>2
  <2>3. CASE /\ available' = [available EXCEPT ![m] = Append(@, device[t])]
             /\ Notify(m)
    <3>1. /\ \A n \in Managers \ {m} : available'[n] = available[n]
          /\ available'[m] = Append(available[m], device[t])
      BY <1>0, <2>0, <2>3
    <3>2. Len(available'[m]) = Len(available[m]) + 1
      <4>1. available[m] \in Seq(Devices \cup {NoDevice})
        BY <1>0, <2>0
      <4>2. device[t] \in Devices \cup {NoDevice}
        BY <1>0
      <4> QED BY <3>1, <4>1, <4>2, AppendProperties
    <3>3. \/ asleep = {} /\ notified' = notified
          \/ \E w \in asleep : notified' = notified \cup {w}
      BY <2>3 DEF Notify
    <3>4. \A n \in Managers \ {m} : Woken(n)' = Woken(n)
      BY <2>0, <3>3 DEF Mine
    <3>5. CASE asleep = {} /\ notified' = notified
      <4>1. WokenAreFew'
        BY <2>1, <3>5 DEF WakeInv, WokenAreFew, Mine
      <4>2. Mine(m) \cap waiting' \subseteq notified'
        BY <2>0, <3>5
      <4>3. WakeupsMatchDevices'
        <5> SUFFICES ASSUME NEW n \in Managers, ~probeFailed'[n], ~IsShut(n)',
                            ~(Mine(n) \cap waiting' \subseteq notified')
                     PROVE  Len(available'[n]) <= Cardinality(Woken(n)')
          BY DEF WakeupsMatchDevices
        <5>1. n # m
          BY <4>2
        <5>2. Len(available[n]) <= Cardinality(Woken(n))
          BY <2>0, <2>1, <3>5 DEF WakeInv, WakeupsMatchDevices
        <5> QED BY <3>1, <3>4, <5>1, <5>2
      <4> QED BY <4>1, <4>3 DEF WakeInv
    <3>6. ASSUME NEW w \in asleep, notified' = notified \cup {w}
          PROVE  WakeInv'
      <4>1. Woken(m)' = Woken(m) \cup {w} /\ w \notin Woken(m)
        BY <3>6
      <4>2. WokenAreFew'
        <5> SUFFICES ASSUME NEW n \in Managers, ~IsShut(n)'
                     PROVE  IsFiniteSet(Woken(n)')
          BY DEF WokenAreFew
        <5>1. IsFiniteSet(Woken(n))
          BY <2>1 DEF WakeInv, WokenAreFew
        <5> HIDE DEF Woken
        <5> QED BY <3>4, <4>1, <5>1, FS_AddElement
      <4>3. WakeupsMatchDevices'
        <5> SUFFICES ASSUME NEW n \in Managers, ~probeFailed'[n], ~IsShut(n)',
                            ~(Mine(n) \cap waiting' \subseteq notified')
                     PROVE  Len(available'[n]) <= Cardinality(Woken(n)')
          BY DEF WakeupsMatchDevices
        <5>1. ~(Mine(n) \cap waiting \subseteq notified)
          BY <2>0, <3>6
        <5>2. /\ Len(available[n]) <= Cardinality(Woken(n))
              /\ IsFiniteSet(Woken(n))
          BY <2>0, <2>1, <5>1 DEF WakeInv, WokenAreFew, WakeupsMatchDevices
        <5> HIDE DEF Woken
        <5>3. CASE n # m
          BY <3>1, <3>4, <5>2, <5>3
        <5>4. CASE n = m
          <6>1. Cardinality(Woken(m) \cup {w}) = Cardinality(Woken(m)) + 1
            BY <4>1, <5>2, <5>4, FS_AddElement
          <6>2. Cardinality(Woken(m)) \in Nat /\ Len(available[m]) \in Nat
            BY <1>0, <5>2, <5>4, FS_CardinalityType
          <6>3. Len(available[m]) <= Cardinality(Woken(m))
            BY <5>2, <5>4
          <6>4. Cardinality(Woken(m)') = Cardinality(Woken(m)) + 1
            BY <4>1, <6>1
          <6>5. Len(available'[m]) <= Cardinality(Woken(m)')
            BY <3>2, <6>2, <6>3, <6>4
          <6> QED BY <5>4, <6>5
        <5> QED BY <5>3, <5>4
      <4> QED BY <4>2, <4>3 DEF WakeInv
    <3> QED BY <3>3, <3>5, <3>6
  <2> QED BY <1>6, <2>2, <2>3 DEF GiveBack
<1>7. ASSUME NEW m \in Managers,
             Shutdown(m) \/ ShutdownUnlock(m) \/ ShutdownStop(m)
      PROVE  WakeInv'
  <2>1. UNCHANGED <<available, notified, probeFailed, waiting>>
    BY <1>7 DEF Shutdown, ShutdownUnlock, ShutdownStop, poolVars
  <2>2. \A n \in Managers : IsShut(n) => IsShut(n)'
    BY <1>0, <1>7 DEF Shutdown, ShutdownUnlock, ShutdownStop, endVars, IsShut
  <2> QED BY <2>1, <2>2, <1>A
<1>8. ASSUME NEW m \in Managers, ShutdownPool(m) PROVE WakeInv'
  <2>1. /\ phase' = [phase EXCEPT ![m] = "stop"]
        /\ available' = [available EXCEPT ![m] = <<>>]
        /\ notified' = notified \cup (waiting \cap Mine(m))
        /\ UNCHANGED <<waiting, probeFailed>>
    BY <1>8 DEF ShutdownPool
  <2>2. ASSUME NEW n \in Managers, ~IsShut(n)'
        PROVE  /\ n # m /\ ~IsShut(n) /\ Woken(n)' = Woken(n)
               /\ available'[n] = available[n]
    <3>1. n # m
      BY <1>0, <2>1, <2>2 DEF IsShut
    <3>2. ~IsShut(n) /\ available'[n] = available[n]
      BY <1>0, <2>1, <2>2, <3>1 DEF IsShut
    <3>3. Woken(n)' = Woken(n)
      BY <2>1, <3>1 DEF Mine
    <3> QED BY <3>1, <3>2, <3>3
  <2>3. WokenAreFew'
    BY <2>2 DEF WakeInv, WokenAreFew
  <2>4. WakeupsMatchDevices'
    <3> SUFFICES ASSUME NEW n \in Managers, ~probeFailed'[n], ~IsShut(n)',
                        ~(Mine(n) \cap waiting' \subseteq notified')
                 PROVE  Len(available'[n]) <= Cardinality(Woken(n)')
      BY DEF WakeupsMatchDevices
    <3>1. /\ ~IsShut(n) /\ Woken(n)' = Woken(n)
          /\ available'[n] = available[n]
      BY <2>2
    <3>2. ~(Mine(n) \cap waiting \subseteq notified)
      BY <2>1
    <3>3. Len(available[n]) <= Cardinality(Woken(n))
      BY <2>1, <3>1, <3>2 DEF WakeInv, WakeupsMatchDevices
    <3> QED BY <3>1, <3>3
  <2> QED BY <2>3, <2>4 DEF WakeInv
<1> QED
  BY <1>1, <1>2, <1>3, <1>4, <1>5, <1>6, <1>7, <1>8 DEF Next

THEOREM BooksInvariant ==
    ASSUME PoolAssumption PROVE Spec => [](SafeInv /\ Books /\ WakeInv)
<1>1. Init => SafeInv /\ Books /\ WakeInv
  BY InitSafeInv, InitBooks
<1>2. SafeInv /\ Books /\ WakeInv /\ [Next]_vars => (SafeInv /\ Books /\ WakeInv)'
  BY StepSafeInv, StepBooks, StepWakes
<1> QED BY <1>1, <1>2, PTL DEF Spec

(* No failure of acquire(), no release() and no shutdown() leaves a lock, a *)
(* registration or an open transport behind, once nobody is at work: the    *)
(* tails of _LockedU64Manager.acquire(), release() and shutdown().          *)
THEOREM NothingStaysBehind == ASSUME PoolAssumption PROVE Spec => []NothingLeaks
<1>1. SafeInv /\ Books => NothingLeaks
  <2> SUFFICES ASSUME SafeInv, Books, NEW m \in Managers,
                      phase[m] \in {"no", "done"},
                      \A t \in Mine(m) : pc[t] \in {"idle", "wait"}
               PROVE  /\ \A u \in Units : lock[u] \notin Mine(m) \cup {m}
                      /\ locks[m] = {}
                      /\ open \cap Mine(m) = {}
    BY DEF NothingLeaks
  <2>1. ASSUME NEW u \in Units PROVE lock[u] \notin Mine(m) \cup {m}
    BY DEF SafeInv, LockIsUsers, LockIsClosers, Mine, Using
  <2>2. locks[m] = {}
    BY DEF SafeInv, BusyHasDevice, Books, RegisteredWillRelease
  <2>3. ASSUME NEW t \in open, t \in Mine(m) PROVE FALSE
    <3>1. MgrOf[t] = m /\ pc[t] # "stop" /\ stopping[m] = {}
      BY <2>3 DEF Books, OpenWillClose, Mine
    <3>2. t \notin inFlight[m]
      BY <2>3 DEF Books, FlightIsOut, Out, Busy, Using
    <3> QED BY <3>1, <3>2 DEF Books, OpenWillClose
  <2> QED BY <2>1, <2>2, <2>3
<1> QED BY <1>1, BooksInvariant, PTL

(* While probes succeed nobody sleeps beside a free device: the one         *)
(* notify() of a release() is enough (Ultimate64InstanceManager._cond).     *)
THEOREM NoWakeupIsLost == ASSUME PoolAssumption PROVE Spec => []WakeupsMatchDevices
<1>1. WakeInv => WakeupsMatchDevices
  BY DEF WakeInv
<1> QED BY <1>1, BooksInvariant, PTL

(* A pool that is not shut has every device once, in its queue or away with  *)
(* a thread; one that is shut has none (Ultimate64InstanceManager's         *)
(* _available and _in_flight).                                              *)
THEOREM DevicesAreKept == ASSUME PoolAssumption PROVE Spec => []PoolIsExact
<1>1. ASSUME PoolAssumption, SafeInv, Books PROVE PoolIsExact
  <2> USE <1>1 DEF PoolAssumption
  <2> SUFFICES ASSUME NEW m \in Managers
               PROVE  LET Q == available[m]
                          away == inFlight[m] \cup {t \in Mine(m) : pc[t] = "gone"}
                      IN  /\ \A i, j \in DOMAIN Q : i # j => Q[i] # Q[j]
                          /\ \A t, u \in away : t # u => device[t] # device[u]
                          /\ \A t \in away : \A i \in DOMAIN Q : Q[i] # device[t]
                          /\ IF IsShut(m) THEN Q = <<>> /\ inFlight[m] = {}
                             ELSE Len(Q) + Cardinality(away) = Cardinality(Devices)
    BY DEF PoolIsExact
  <2> DEFINE Q == available[m]
             away == inFlight[m] \cup {t \in Mine(m) : pc[t] = "gone"}
  <2>1. away \subseteq Out(m)
    BY DEF Books, FlightIsOut, Out, Busy
  <2>2. /\ \A i, j \in DOMAIN Q : i # j => Q[i] # Q[j]
        /\ \A t, u \in away : t # u => device[t] # device[u]
        /\ \A t \in away : \A i \in DOMAIN Q : Q[i] # device[t]
    <3> HIDE DEF away
    <3> QED BY <2>1 DEF SafeInv, DevicesDiffer
  <2>3. IsShut(m) => Q = <<>> /\ inFlight[m] = {}
    BY DEF Books, FlightIsOut
  <2>4. ASSUME ~IsShut(m)
        PROVE  Len(Q) + Cardinality(away) = Cardinality(Devices)
    <3>1. away = Out(m)
      BY <2>1, <2>4 DEF Books, FlightIsOut, Out
    <3>2. \A d \in Devices : \/ \E i \in DOMAIN Q : Q[i] = d
                             \/ \E t \in away : device[t] = d
      BY <2>4, <3>1 DEF Books, NoneIsMissing
    <3>3. Q \in Seq(Devices) /\ \A t \in away : device[t] \in Devices
      <4>1. \A t \in Out(m) : device[t] \in Devices
        BY DEF SafeInv, BusyHasDevice, Out, Mine
      <4>2. Q \in Seq(Devices)
        BY DEF SafeInv, TypeOK
      <4> QED BY <3>1, <4>1, <4>2
    <3> HIDE DEF Q, away
    <3> DEFINE InQueue == {Q[i] : i \in DOMAIN Q}
               OutNow == {device[t] : t \in away}
    <3>4. /\ InQueue \cup OutNow = Devices /\ InQueue \cap OutNow = {}
          /\ InQueue \subseteq Devices /\ OutNow \subseteq Devices
      BY <2>2, <3>2, <3>3
    <3>5. /\ IsFiniteSet(InQueue) /\ IsFiniteSet(OutNow)
          /\ Cardinality(InQueue) \in Nat /\ Cardinality(OutNow) \in Nat
      BY <3>4, FS_Subset, FS_CardinalityType
    <3>6. Cardinality(InQueue) = Len(Q)
      <4>1. /\ Len(Q) \in Nat /\ DOMAIN Q = 1 .. Len(Q)
            /\ Q \in [1 .. Len(Q) -> InQueue]
        BY <3>3
      <4>2. IsFiniteSet(1 .. Len(Q)) /\ Cardinality(1 .. Len(Q)) = Len(Q)
        BY <4>1, FS_Interval
      <4>3. Q \in Bijection(1 .. Len(Q), InQueue)
        BY <2>2, <4>1 DEF Bijection, Injection, Surjection, IsInjective
      <4>4. ExistsBijection(1 .. Len(Q), InQueue)
        BY <4>3 DEF ExistsBijection
      <4> QED BY <4>2, <4>4, FS_Bijection
    <3>7. Cardinality(OutNow) = Cardinality(away)
      <4> DEFINE f == [t \in away |-> device[t]]
      <4>1. f \in Bijection(away, OutNow)
        BY <2>2 DEF Bijection, Injection, Surjection, IsInjective
      <4>2. IsFiniteSet(away)
        BY <3>5, <4>1, FS_Injection DEF Bijection
      <4>3. ExistsBijection(away, OutNow)
        BY <4>1 DEF ExistsBijection
      <4> QED BY <4>2, <4>3, FS_Bijection
    <3>8. Cardinality(Devices) = Cardinality(InQueue) + Cardinality(OutNow)
      <4> HIDE DEF InQueue, OutNow
      <4>1. Cardinality(InQueue \cup OutNow) =
                Cardinality(InQueue) + Cardinality(OutNow)
                    - Cardinality(InQueue \cap OutNow)
        BY <3>5, FS_Union
      <4>2. Cardinality(InQueue \cap OutNow) = 0
        BY <3>4, FS_EmptySet
      <4>3. Cardinality(Devices) =
                Cardinality(InQueue) + Cardinality(OutNow) - 0
        BY <3>4, <4>1, <4>2
      <4> QED BY <3>5, <4>3
    <3> QED BY <3>6, <3>7, <3>8
  <2> QED BY <2>2, <2>3, <2>4
<1> QED BY <1>1, BooksInvariant, PTL

(* No device is lost by the pool and none is in it twice, and no failure    *)
(* leaves a lock, a transport or a device behind: the books of              *)
(* Ultimate64InstanceManager and _LockedU64Manager.                         *)
THEOREM BooksAreKept ==
    ASSUME PoolAssumption, OneNamePerUnit PROVE Spec => []KeepsBooks
BY Invariant, DevicesAreKept, NothingStaysBehind, PTL DEF KeepsBooks

-----------------------------------------------------------------------------
(* A run is a behaviour of the pool, and what is proved of every such        *)
(* behaviour holds in it.                                                    *)

LEMMA RunIsPool == RunSpec => Spec
<1>1. RunInit => Init
  BY DEF RunInit
<1>2. [RunNext]_allvars => [Next]_vars
  BY DEF RunNext, allvars
<1> QED BY <1>1, <1>2, PTL DEF RunSpec, Spec

(* Whoever uses a device through the pool has its lock as its own, until its *)
(* manager begins to shut down (_LockedU64Manager).                          *)
THEOREM PoolUsersAreLocked == ASSUME OneNamePerUnit PROVE RunSpec => []UserHasLock
BY RunIsPool, UsersAreLocked, UnitsAssumption, PTL

(* The pool neither loses nor doubles a device, and a failure leaves nothing *)
(* behind (Ultimate64InstanceManager, _LockedU64Manager).                    *)
THEOREM PoolBooksAreKept == ASSUME OneNamePerUnit PROVE RunSpec => []PoolKeepsBooks
BY RunIsPool, BooksAreKept, UnitsAssumption, PTL DEF PoolKeepsBooks

(* While probes succeed, nobody sleeps beside a free device                  *)
(* (Ultimate64InstanceManager._cond).                                        *)
THEOREM PoolWakesAWaiter == RunSpec => []WakeupsMatchDevices
BY RunIsPool, NoWakeupIsLost, UnitsAssumption, PTL

-----------------------------------------------------------------------------
(* The registry of holds (HoldRegistry), for any number of instances and     *)
(* threads.  The entry is written after the flock is taken and purged before *)
(* it is let go, so nothing is counted outside a hold; the nested holds that *)
(* outlive it find the entry gone and cannot bring it back.                  *)

LEMMA HoldsInit == Holds!Init => Holds!IInv
<1> SUFFICES ASSUME Holds!Init PROVE Holds!IInv
  OBVIOUS
<1> USE HoldsAssumption DEF Holds!RegistryAssumption
<1>1. Holds!TypeOK
  <2>1. /\ step \in [Insts -> Holds!Steps] /\ nested \in [Insts -> BOOLEAN]
        /\ caller \in [Insts -> HoldThreads \cup {NoThread}]
        /\ ownerThread \in [Insts -> HoldThreads \cup {NoThread}]
    BY DEF Holds!Init, Holds!Steps
  <2>2. foreignEpoch \in 0 .. Holds!NoEpoch /\ epoch \in 0 .. MaxEpoch
    BY DEF Holds!Init, Holds!NoEpoch
  <2>3. flock \in Insts \cup {Free, Foreign} /\ count \in Nat
        /\ threads \in SUBSET HoldThreads
    BY DEF Holds!Init
  <2> QED BY <2>1, <2>2, <2>3 DEF Holds!TypeOK
<1>2. Holds!OwnerIsOne /\ Holds!CountedHold /\ Holds!ListedHold /\ Holds!EpochOfHold
  BY DEF Holds!Init, Holds!OwnerIsOne, Holds!CountedHold, Holds!ListedHold, Holds!EpochOfHold,
         Holds!RegisteredSteps, Holds!Owning
<1> QED BY <1>1, <1>2 DEF Holds!IInv

LEMMA HoldsStep == Holds!IInv /\ [Holds!Next]_(Holds!vars) => Holds!IInv'
<1> SUFFICES ASSUME Holds!IInv, [Holds!Next]_(Holds!vars) PROVE Holds!IInv'
  OBVIOUS
<1> USE HoldsAssumption DEF Holds!RegistryAssumption
<1> USE DEF Holds!IInv, Holds!TypeOK, Holds!OwnerIsOne, Holds!CountedHold, Holds!ListedHold, Holds!EpochOfHold,
            Holds!RegisteredSteps, Holds!Owning, Holds!Steps, Holds!NoEpoch
<1>1. CASE UNCHANGED Holds!vars
  BY <1>1 DEF Holds!vars
<1>2. ASSUME NEW i \in Insts, Holds!Join(i) PROVE Holds!IInv'
  BY <1>2 DEF Holds!Join, Holds!Idle
<1>3. ASSUME NEW i \in Insts, NEW t \in HoldThreads, Holds!Wait(i, t) PROVE Holds!IInv'
  BY <1>3 DEF Holds!Wait, Holds!Idle
<1>4. ASSUME NEW i \in Insts, Holds!Take(i) PROVE Holds!IInv'
  BY <1>4 DEF Holds!Take
<1>5. ASSUME NEW i \in Insts, Holds!GiveUp(i) PROVE Holds!IInv'
  BY <1>5 DEF Holds!GiveUp
<1>6. ASSUME NEW i \in Insts, Holds!Register(i) PROVE Holds!IInv'
  BY <1>6 DEF Holds!Register
<1>7. ASSUME NEW i \in Insts, Holds!ReleaseNested(i) PROVE Holds!IInv'
  BY <1>7 DEF Holds!ReleaseNested, Holds!DropReference
<1>8. ASSUME NEW i \in Insts, Holds!BeginRelease(i) PROVE Holds!IInv'
  BY <1>8 DEF Holds!BeginRelease
<1>9. ASSUME NEW i \in Insts, Holds!Purge(i) PROVE Holds!IInv'
  BY <1>9 DEF Holds!Purge
<1>10. ASSUME NEW i \in Insts, Holds!Unlock(i) PROVE Holds!IInv'
  BY <1>10 DEF Holds!Unlock
<1>11. ASSUME Holds!ForeignTake PROVE Holds!IInv'
  BY <1>11 DEF Holds!ForeignTake
<1>12. ASSUME Holds!ForeignDrop PROVE Holds!IInv'
  BY <1>12 DEF Holds!ForeignDrop
<1> QED
  BY <1>1, <1>2, <1>3, <1>4, <1>5, <1>6, <1>7, <1>8, <1>9, <1>10, <1>11, <1>12
     DEF Holds!Next

(* The inductive invariant of the registry, in every run of which it is the  *)
(* subject (DeviceLock's process-wide books).                                *)
THEOREM HoldsInvariant == RunSpec => [](subject = "holds" => Holds!IInv)
<1> DEFINE I == subject = "holds" => Holds!IInv
<1>1. RunInit => I
  BY SubjectBegins, HoldsInit
<1>2. I /\ [RunNext]_allvars => I'
  BY SubjectMoves, HoldsStep
<1> QED BY <1>1, <1>2, PTL DEF RunSpec

(* held_by_this_process() never answers TRUE for a device this process has   *)
(* not got, nor _held_by_this_thread() to a thread other than the one that   *)
(* took the flock.                                                           *)
THEOREM RegistryIsSafe == RunSpec => []RegistryMatchesFlock
<1>1. Holds!IInv => Holds!RegisteredHasFlock
  BY DEF Holds!IInv, Holds!CountedHold, Holds!RegisteredHasFlock
<1>2. Holds!IInv => Holds!ListedThreadTookFlock
  BY DEF Holds!IInv, Holds!ListedHold, Holds!ListedThreadTookFlock
<1>3. (subject = "holds" => Holds!IInv) => RegistryMatchesFlock
  BY <1>1, <1>2 DEF RegistryMatchesFlock
<1> QED BY <1>3, HoldsInvariant, PTL

(* Two holds of this process with another process's hold between them have   *)
(* different epochs.                                                         *)
THEOREM EpochsSeparateLanes == RunSpec => []EpochSeparatesLanes
<1>1. (subject = "holds" => Holds!IInv) => EpochSeparatesLanes
  BY HoldsAssumption DEF Holds!RegistryAssumption, Holds!IInv, Holds!TypeOK, Holds!CountedHold,
     Holds!EpochOfHold, Holds!NoEpoch, Holds!EpochSeparatesLanes, EpochSeparatesLanes
<1> QED BY <1>1, HoldsInvariant, PTL

-----------------------------------------------------------------------------
(* The extract of the expansion memory (ReuExtract), for any number of banks *)
(* and of faults.                                                            *)

LEMMA ReuInit == Reu!ExtractInit => Reu!ExtractInv
<1> SUFFICES ASSUME Reu!ExtractInit PROVE Reu!ExtractInv
  OBVIOUS
<1> USE ExtractAssumption DEF Reu!BanksAssumption, Reu!ExtractInit, Reu!Own
<1>1. Reu!TypeOK
  BY DEF Reu!TypeOK
<1>2. Reu!CopyIsOwn
  BY DEF Reu!CopyIsOwn, Reu!Steps
<1>3. Reu!InOrder
  <2>1. out = [i \in 1 .. (bank - 1) |-> i]
    OBVIOUS
  <2> QED BY <2>1 DEF Reu!InOrder, Reu!CleaningUp, Reu!Moving
<1>4. Reu!ParkedThroughout /\ Reu!Undone
  BY DEF Reu!ParkedThroughout, Reu!Undone, Reu!CleaningUp, Reu!Moving
<1> QED BY <1>1, <1>2, <1>3, <1>4 DEF Reu!ExtractInv

(* One more bank.                                                            *)
LEMMA InOrderGrows ==
    ASSUME NEW n \in Nat \ {0}, NEW q, q = [i \in 1 .. (n - 1) |-> i]
    PROVE  Append(q, n) = [i \in 1 .. n |-> i]
<1>1. q \in Seq(Nat) /\ Len(q) = n - 1
  OBVIOUS
<1>2. Len(Append(q, n)) = n /\ \A i \in 1 .. n : Append(q, n)[i] = i
  BY <1>1
<1>3. Append(q, n) \in Seq(Nat)
  BY <1>1
<1> QED BY <1>2, <1>3

LEMMA ReuStep == Reu!ExtractInv /\ [Reu!ExtractNext]_(Reu!xvars) => Reu!ExtractInv'
<1> SUFFICES ASSUME Reu!ExtractInv, [Reu!ExtractNext]_(Reu!xvars) PROVE Reu!ExtractInv'
  OBVIOUS
<1> USE ExtractAssumption DEF Reu!BanksAssumption, Reu!Own
<1>0. Reu!TypeOK /\ Reu!CopyIsOwn /\ Reu!InOrder /\ Reu!ParkedThroughout /\ Reu!Undone
  BY DEF Reu!ExtractInv
<1>1. CASE UNCHANGED Reu!xvars
  <2>1. Reu!TypeOK'
    BY <1>1, <1>0 DEF Reu!xvars, Reu!TypeOK, Reu!CopyIsOwn, Reu!InOrder
  <2>2. Reu!CopyIsOwn'
    BY <1>1, <1>0 DEF Reu!xvars, Reu!TypeOK, Reu!CopyIsOwn, Reu!Steps
  <2>3. Reu!InOrder'
    BY <1>1, <1>0 DEF Reu!xvars, Reu!TypeOK, Reu!CopyIsOwn, Reu!InOrder,
        Reu!ParkedThroughout, Reu!Moving, Reu!CleaningUp
  <2>4. Reu!ParkedThroughout'
    BY <1>1, <1>0 DEF Reu!xvars, Reu!TypeOK, Reu!InOrder, Reu!ParkedThroughout, Reu!Moving,
        Reu!CleaningUp
  <2>5. Reu!Undone'
    BY <1>1, <1>0 DEF Reu!xvars, Reu!CopyIsOwn, Reu!ParkedThroughout, Reu!Undone, Reu!Moving
  <2> QED BY <2>1, <2>2, <2>3, <2>4, <2>5 DEF Reu!ExtractInv
<1>2. CASE Reu!Save
  <2>1. Reu!TypeOK'
    BY <1>2, <1>0 DEF Reu!Save, Reu!Fault, Reu!TypeOK, Reu!CopyIsOwn, Reu!InOrder
  <2>2. Reu!CopyIsOwn'
    BY <1>2, <1>0 DEF Reu!Save, Reu!Fault, Reu!TypeOK, Reu!CopyIsOwn, Reu!Steps
  <2>3. Reu!InOrder'
    BY <1>2, <1>0 DEF Reu!Save, Reu!Fault, Reu!TypeOK, Reu!CopyIsOwn, Reu!InOrder,
        Reu!ParkedThroughout, Reu!Moving, Reu!CleaningUp
  <2>4. Reu!ParkedThroughout'
    BY <1>2, <1>0 DEF Reu!Save, Reu!Fault, Reu!TypeOK, Reu!InOrder, Reu!ParkedThroughout,
        Reu!Moving, Reu!CleaningUp
  <2>5. Reu!Undone'
    BY <1>2, <1>0 DEF Reu!Save, Reu!Fault, Reu!CopyIsOwn, Reu!ParkedThroughout, Reu!Undone,
        Reu!Moving
  <2> QED BY <2>1, <2>2, <2>3, <2>4, <2>5 DEF Reu!ExtractInv
<1>3. CASE Reu!WriteJump
  <2>1. Reu!TypeOK'
    BY <1>3, <1>0 DEF Reu!WriteJump, Reu!Fault, Reu!TypeOK, Reu!CopyIsOwn, Reu!InOrder
  <2>2. Reu!CopyIsOwn'
    BY <1>3, <1>0 DEF Reu!WriteJump, Reu!Fault, Reu!TypeOK, Reu!CopyIsOwn, Reu!Steps
  <2>3. Reu!InOrder'
    BY <1>3, <1>0 DEF Reu!WriteJump, Reu!Fault, Reu!TypeOK, Reu!CopyIsOwn, Reu!InOrder,
        Reu!ParkedThroughout, Reu!Moving, Reu!CleaningUp
  <2>4. Reu!ParkedThroughout'
    <3>1. CASE jump' = TRUE /\ step' = "park" /\ UNCHANGED <<result, faults>>
      BY <1>3, <1>0, <3>1 DEF Reu!WriteJump, Reu!TypeOK, Reu!InOrder, Reu!ParkedThroughout,
          Reu!Moving, Reu!CleaningUp
    <3>2. CASE Reu!Fault("done") /\ UNCHANGED jump
      BY <1>3, <1>0, <3>2 DEF Reu!WriteJump, Reu!Fault, Reu!TypeOK, Reu!InOrder,
          Reu!ParkedThroughout, Reu!Moving, Reu!CleaningUp
    <3> QED BY <1>3, <3>1, <3>2 DEF Reu!WriteJump
  <2>5. Reu!Undone'
    <3>1. CASE jump' = TRUE /\ step' = "park" /\ UNCHANGED <<result, faults>>
      BY <1>3, <1>0, <3>1 DEF Reu!WriteJump, Reu!CopyIsOwn, Reu!ParkedThroughout,
          Reu!Undone, Reu!Moving
    <3>2. CASE Reu!Fault("done") /\ UNCHANGED jump
      BY <1>3, <1>0, <3>2 DEF Reu!WriteJump, Reu!Fault, Reu!CopyIsOwn, Reu!ParkedThroughout,
          Reu!Undone, Reu!Moving
    <3> QED BY <1>3, <3>1, <3>2 DEF Reu!WriteJump
  <2> QED BY <2>1, <2>2, <2>3, <2>4, <2>5 DEF Reu!ExtractInv
<1>4. CASE Reu!Park
  <2>1. Reu!TypeOK'
    BY <1>4, <1>0 DEF Reu!Park, Reu!Fault, Reu!TypeOK, Reu!CopyIsOwn, Reu!InOrder
  <2>2. Reu!CopyIsOwn'
    BY <1>4, <1>0 DEF Reu!Park, Reu!Fault, Reu!TypeOK, Reu!CopyIsOwn, Reu!Steps
  <2>3. Reu!InOrder'
    BY <1>4, <1>0 DEF Reu!Park, Reu!Fault, Reu!TypeOK, Reu!CopyIsOwn, Reu!InOrder,
        Reu!ParkedThroughout, Reu!Moving, Reu!CleaningUp
  <2>4. Reu!ParkedThroughout'
    <3>1. CASE counter' = "park" /\ parked' = TRUE /\ step' = "arm" /\ UNCHANGED <<result, faults>>
      BY <1>4, <1>0, <3>1 DEF Reu!Park, Reu!TypeOK, Reu!InOrder, Reu!ParkedThroughout,
          Reu!Moving, Reu!CleaningUp
    <3>2. CASE Reu!Fault("unjump") /\ UNCHANGED <<counter, parked>>
      BY <1>4, <1>0, <3>2 DEF Reu!Park, Reu!Fault, Reu!TypeOK, Reu!InOrder,
          Reu!ParkedThroughout, Reu!Moving, Reu!CleaningUp
    <3> QED BY <1>4, <3>1, <3>2 DEF Reu!Park
  <2>5. Reu!Undone'
    BY <1>4, <1>0 DEF Reu!Park, Reu!Fault, Reu!CopyIsOwn, Reu!ParkedThroughout, Reu!Undone,
        Reu!Moving
  <2> QED BY <2>1, <2>2, <2>3, <2>4, <2>5 DEF Reu!ExtractInv
<1>5. CASE Reu!Unjump
  <2>1. Reu!TypeOK'
    BY <1>5, <1>0 DEF Reu!Unjump, Reu!Fails, Reu!TypeOK, Reu!CopyIsOwn, Reu!InOrder
  <2>2. Reu!CopyIsOwn'
    BY <1>5, <1>0 DEF Reu!Unjump, Reu!Fails, Reu!TypeOK, Reu!CopyIsOwn, Reu!Steps
  <2>3. Reu!InOrder'
    <3>1. CASE jump' = FALSE /\ UNCHANGED <<cleanup, faults>>
      BY <1>5, <1>0, <3>1 DEF Reu!Unjump, Reu!TypeOK, Reu!CopyIsOwn, Reu!InOrder,
          Reu!ParkedThroughout, Reu!Moving, Reu!CleaningUp
    <3>2. CASE Reu!Fails /\ UNCHANGED jump
      BY <1>5, <1>0, <3>2 DEF Reu!Unjump, Reu!Fails, Reu!TypeOK, Reu!CopyIsOwn, Reu!InOrder,
          Reu!ParkedThroughout, Reu!Moving, Reu!CleaningUp
    <3> QED BY <1>5, <3>1, <3>2 DEF Reu!Unjump
  <2>4. Reu!ParkedThroughout'
    <3>1. CASE jump' = FALSE /\ UNCHANGED <<cleanup, faults>>
      BY <1>5, <1>0, <3>1 DEF Reu!Unjump, Reu!TypeOK, Reu!InOrder, Reu!ParkedThroughout,
          Reu!Moving, Reu!CleaningUp
    <3>2. CASE Reu!Fails /\ UNCHANGED jump
      BY <1>5, <1>0, <3>2 DEF Reu!Unjump, Reu!Fails, Reu!TypeOK, Reu!InOrder,
          Reu!ParkedThroughout, Reu!Moving, Reu!CleaningUp
    <3> QED BY <1>5, <3>1, <3>2 DEF Reu!Unjump
  <2>5. Reu!Undone'
    BY <1>5, <1>0 DEF Reu!Unjump, Reu!Fails, Reu!CopyIsOwn, Reu!ParkedThroughout,
        Reu!Undone, Reu!Moving
  <2> QED BY <2>1, <2>2, <2>3, <2>4, <2>5 DEF Reu!ExtractInv
<1>6. CASE Reu!Arm
  <2>0. /\ step = "arm" /\ result = "none" /\ armed = 0 /\ bank \in 1 .. Banks
        /\ saved = Reu!Own /\ out = [i \in 1 .. (bank - 1) |-> i]
        /\ host = "vice" => parked /\ counter = "park" /\ ~strayed
        /\ ~parked => counter = "program" /\ (cleanup => ~jump)
        /\ parked => host = "vice"
    BY <1>6, <1>0 DEF Reu!Arm, Reu!InOrder, Reu!CopyIsOwn, Reu!TypeOK, Reu!Moving,
        Reu!ParkedThroughout
  <2>1. /\ UNCHANGED <<host, bank, saved, counter, jump, parked, spares, strayed, out, told,
                       cleanup>>
        /\ window' \in {window, bank} /\ armed' \in {armed, bank}
        /\ \/ step' = "resume" /\ armed' = bank /\ UNCHANGED result
           \/ step' = "read" /\ armed' = armed /\ window' = bank /\ UNCHANGED result
           \/ step' = "restore" /\ result' = "raised"
    <3>1. Reu!Command => \/ Reu!Halting /\ armed' = bank /\ UNCHANGED window
                         \/ ~Reu!Halting /\ window' = bank /\ UNCHANGED armed
      BY DEF Reu!Command
    <3> QED BY <1>6, <3>1 DEF Reu!Arm, Reu!Fault
  <2>2. Reu!TypeOK'
    BY <1>0, <2>0, <2>1 DEF Reu!TypeOK
  <2>3. Reu!CopyIsOwn'
    BY <2>0, <2>1 DEF Reu!CopyIsOwn, Reu!Steps
  <2>4. Reu!InOrder'
    BY <2>0, <2>1 DEF Reu!InOrder, Reu!Moving, Reu!CleaningUp
  <2>5. Reu!ParkedThroughout'
    BY <2>0, <2>1 DEF Reu!ParkedThroughout, Reu!Moving, Reu!CleaningUp
  <2>6. Reu!Undone'
    BY <2>1 DEF Reu!Undone
  <2> QED BY <2>2, <2>3, <2>4, <2>5, <2>6 DEF Reu!ExtractInv
<1>7. CASE Reu!RunTransfer
  <2>0. /\ step = "resume" /\ result = "none" /\ armed = bank /\ bank \in 1 .. Banks
        /\ saved = Reu!Own /\ out = [i \in 1 .. (bank - 1) |-> i]
        /\ host = "vice" => parked /\ counter = "park" /\ ~strayed
        /\ ~parked => counter = "program" /\ (cleanup => ~jump)
        /\ parked => host = "vice"
    BY <1>7, <1>0 DEF Reu!RunTransfer, Reu!InOrder, Reu!CopyIsOwn, Reu!TypeOK, Reu!Moving,
        Reu!ParkedThroughout
  <2>1. Reu!TypeOK'
    BY <1>7, <1>0 DEF Reu!RunTransfer, Reu!Fault, Reu!ResumeOnce, Reu!Runs, Reu!TypeOK
  <2>2. Reu!CopyIsOwn'
    BY <1>7, <2>0 DEF Reu!RunTransfer, Reu!Fault, Reu!CopyIsOwn, Reu!Steps
  <2>3. CASE Reu!ResumeOnce /\ UNCHANGED <<result, faults>>
    <3>1. \/ step' = "read" /\ armed' = 0 /\ window' = bank
          \/ step' = "resume" /\ armed' = bank
      BY <1>7, <2>0, <2>3 DEF Reu!RunTransfer, Reu!Fault, Reu!ResumeOnce, Reu!Runs
    <3>2. UNCHANGED <<host, bank, saved, counter, jump, parked, out, cleanup>>
      BY <1>7 DEF Reu!RunTransfer
    <3>3. host = "vice" => ~strayed'
      BY <2>0, <2>3, Zenon DEF Reu!ResumeOnce, Reu!Runs
    <3>4. Reu!InOrder'
      BY <2>0, <2>3, <3>1, <3>2 DEF Reu!InOrder, Reu!Moving, Reu!CleaningUp
    <3>5. Reu!ParkedThroughout'
      BY <2>0, <3>1, <3>2, <3>3 DEF Reu!ParkedThroughout, Reu!Moving, Reu!CleaningUp
    <3>6. Reu!Undone'
      BY <3>1 DEF Reu!Undone
    <3> QED BY <2>1, <2>2, <3>4, <3>5, <3>6 DEF Reu!ExtractInv
  <2>4. CASE Reu!Fault("restore") /\ UNCHANGED <<window, armed, spares, strayed, resumes>>
    <3>1. /\ step' = "restore" /\ result' = "raised"
          /\ UNCHANGED <<host, bank, saved, counter, jump, parked, out, cleanup, strayed, armed>>
      BY <1>7, <2>4 DEF Reu!RunTransfer, Reu!Fault
    <3>2. Reu!InOrder'
      BY <2>0, <3>1 DEF Reu!InOrder, Reu!Moving, Reu!CleaningUp
    <3>3. Reu!ParkedThroughout'
      BY <2>0, <3>1 DEF Reu!ParkedThroughout, Reu!Moving, Reu!CleaningUp
    <3>4. Reu!Undone'
      BY <3>1 DEF Reu!Undone
    <3> QED BY <2>1, <2>2, <3>2, <3>3, <3>4 DEF Reu!ExtractInv
  <2> QED BY <1>7, <2>3, <2>4 DEF Reu!RunTransfer
<1>8. CASE Reu!ReadBank
  <2>0. /\ step = "read" /\ result = "none" /\ armed = 0 /\ window = bank /\ bank \in 1 .. Banks
        /\ saved = Reu!Own /\ out = [i \in 1 .. (bank - 1) |-> i]
        /\ host = "vice" => parked /\ counter = "park" /\ ~strayed
        /\ ~parked => counter = "program" /\ (cleanup => ~jump)
        /\ parked => host = "vice"
    BY <1>8, <1>0 DEF Reu!ReadBank, Reu!InOrder, Reu!CopyIsOwn, Reu!TypeOK, Reu!Moving,
        Reu!ParkedThroughout
  <2>1. Reu!TypeOK'
    BY <1>8, <1>0 DEF Reu!ReadBank, Reu!Fault, Reu!TypeOK
  <2>2. Reu!CopyIsOwn'
    BY <1>8, <2>0 DEF Reu!ReadBank, Reu!Fault, Reu!CopyIsOwn, Reu!Steps
  <2>3. Reu!InOrder'
    <3>1. CASE out' = Append(out, window) /\ UNCHANGED <<result, faults>>
      <4>1. out' = [i \in 1 .. bank |-> i]
        BY <2>0, <3>1, InOrderGrows
      <4>2. \/ bank < Banks /\ bank' = bank + 1 /\ step' = "arm"
            \/ bank = Banks /\ step' \in {"drain", "restore"}
        BY <1>8, <2>0, <3>1 DEF Reu!ReadBank, Reu!Fault
      <4>3. UNCHANGED armed
        BY <1>8 DEF Reu!ReadBank
      <4>4. CASE bank' = bank + 1 /\ step' = "arm"
        <5>1. out' = [i \in 1 .. (bank' - 1) |-> i]
          BY <2>0, <4>1, <4>4
        <5> QED BY <2>0, <3>1, <4>3, <4>4, <5>1 DEF Reu!InOrder, Reu!Moving, Reu!CleaningUp
      <4>5. CASE bank = Banks /\ step' \in {"drain", "restore"}
        BY <2>0, <3>1, <4>1, <4>3, <4>5 DEF Reu!InOrder, Reu!Moving, Reu!CleaningUp
      <4> QED BY <4>2, <4>4, <4>5
    <3>2. CASE Reu!Fault("restore") /\ UNCHANGED <<out, bank>>
      BY <1>8, <2>0, <3>2 DEF Reu!ReadBank, Reu!Fault, Reu!InOrder, Reu!Moving, Reu!CleaningUp
    <3> QED BY <1>8, <3>1, <3>2 DEF Reu!ReadBank
  <2>4. Reu!ParkedThroughout'
    BY <1>8, <2>0 DEF Reu!ReadBank, Reu!Fault, Reu!ParkedThroughout, Reu!Moving,
        Reu!CleaningUp
  <2>5. Reu!Undone'
    BY <1>8, <2>0 DEF Reu!ReadBank, Reu!Fault, Reu!Undone
  <2> QED BY <2>1, <2>2, <2>3, <2>4, <2>5 DEF Reu!ExtractInv
<1>9. CASE Reu!Drain
  <2>0. /\ step = "drain" /\ step' = "restore" /\ spares' \in Nat
        /\ UNCHANGED <<host, bank, window, saved, counter, jump, parked, armed, strayed, out,
                       cleanup>>
        /\ \/ UNCHANGED result /\ (spares' = 0 \/ told')
           \/ result' = "raised"
    <3>1. /\ step = "drain" /\ step' = "restore"
          /\ UNCHANGED <<host, bank, window, saved, counter, jump, parked, armed, strayed, out,
                         cleanup>>
      BY <1>9 DEF Reu!Drain
    <3>2. spares \in Nat
      BY <1>0 DEF Reu!TypeOK
    <3>3. \/ /\ spares' = IF spares < Attempts THEN 0 ELSE spares - Attempts
             /\ told' = (spares >= Attempts) /\ UNCHANGED result
          \/ result' = "raised" /\ spares' \in 0 .. spares
      BY <1>9 DEF Reu!Drain, Reu!Fault
    <3>4. CASE spares < Attempts
      BY <3>1, <3>2, <3>3, <3>4
    <3>5. CASE spares >= Attempts
      <4>1. ~(spares < Attempts)
        BY <3>2, <3>5
      <4>2. /\ spares - Attempts \in Nat
            /\ \A n \in 0 .. spares : n \in Nat
        BY <3>2, <3>5
      <4>3. \/ spares' = spares - Attempts /\ told' /\ UNCHANGED result
            \/ result' = "raised" /\ spares' \in 0 .. spares
        BY ONLY <3>3, <3>5, <4>1, Zenon
      <4> QED BY ONLY <3>1, <4>2, <4>3, Zenon
    <3> QED BY <3>2, <3>4, <3>5
  <2>1. Reu!TypeOK'
    BY <1>0, <2>0 DEF Reu!TypeOK
  <2>2. Reu!CopyIsOwn'
    BY <1>0, <2>0 DEF Reu!CopyIsOwn, Reu!Steps
  <2>3. Reu!InOrder'
    BY <1>0, <2>0 DEF Reu!InOrder, Reu!Moving, Reu!CleaningUp
  <2>4. Reu!ParkedThroughout'
    BY <1>0, <2>0 DEF Reu!ParkedThroughout, Reu!Moving, Reu!CleaningUp
  <2>5. Reu!Undone'
    BY <2>0 DEF Reu!Undone
  <2> QED BY <2>1, <2>2, <2>3, <2>4, <2>5 DEF Reu!ExtractInv
<1>10. CASE Reu!Restore
  <2>1. Reu!TypeOK'
    BY <1>10, <1>0 DEF Reu!Restore, Reu!CleanUp, Reu!Fails, Reu!TypeOK, Reu!CopyIsOwn,
        Reu!InOrder
  <2>2. Reu!CopyIsOwn'
    BY <1>10, <1>0 DEF Reu!Restore, Reu!CleanUp, Reu!Fails, Reu!TypeOK, Reu!CopyIsOwn,
        Reu!Steps
  <2>3. Reu!InOrder'
    BY <1>10, <1>0 DEF Reu!Restore, Reu!CleanUp, Reu!Fails, Reu!TypeOK, Reu!CopyIsOwn,
        Reu!InOrder, Reu!ParkedThroughout, Reu!Moving, Reu!CleaningUp
  <2>4. Reu!ParkedThroughout'
    BY <1>10, <1>0 DEF Reu!Restore, Reu!CleanUp, Reu!Fails, Reu!TypeOK, Reu!InOrder,
        Reu!ParkedThroughout, Reu!Moving, Reu!CleaningUp
  <2>5. Reu!Undone'
    BY <1>10, <1>0 DEF Reu!Restore, Reu!CleanUp, Reu!Fails, Reu!CopyIsOwn,
        Reu!ParkedThroughout, Reu!Undone, Reu!Moving
  <2> QED BY <2>1, <2>2, <2>3, <2>4, <2>5 DEF Reu!ExtractInv
<1>11. CASE Reu!UnparkBytes
  <2>1. Reu!TypeOK'
    BY <1>11, <1>0 DEF Reu!UnparkBytes, Reu!CleanUp, Reu!Fails, Reu!TypeOK, Reu!CopyIsOwn,
        Reu!InOrder
  <2>2. Reu!CopyIsOwn'
    BY <1>11, <1>0 DEF Reu!UnparkBytes, Reu!CleanUp, Reu!Fails, Reu!TypeOK, Reu!CopyIsOwn,
        Reu!Steps
  <2>3. Reu!InOrder'
    BY <1>11, <1>0 DEF Reu!UnparkBytes, Reu!CleanUp, Reu!Fails, Reu!TypeOK, Reu!CopyIsOwn,
        Reu!InOrder, Reu!ParkedThroughout, Reu!Moving, Reu!CleaningUp
  <2>4. Reu!ParkedThroughout'
    BY <1>11, <1>0 DEF Reu!UnparkBytes, Reu!CleanUp, Reu!Fails, Reu!TypeOK, Reu!InOrder,
        Reu!ParkedThroughout, Reu!Moving, Reu!CleaningUp
  <2>5. Reu!Undone'
    <3>1. CASE jump' = FALSE /\ UNCHANGED <<cleanup, faults>>
      BY <1>11, <1>0, <3>1 DEF Reu!UnparkBytes, Reu!CleanUp, Reu!CopyIsOwn,
          Reu!ParkedThroughout, Reu!Undone, Reu!Moving
    <3>2. CASE Reu!Fails /\ UNCHANGED jump
      BY <1>11, <1>0, <3>2 DEF Reu!UnparkBytes, Reu!CleanUp, Reu!Fails, Reu!CopyIsOwn,
          Reu!ParkedThroughout, Reu!Undone, Reu!Moving
    <3> QED BY <1>11, <3>1, <3>2 DEF Reu!UnparkBytes
  <2> QED BY <2>1, <2>2, <2>3, <2>4, <2>5 DEF Reu!ExtractInv
<1>12. CASE Reu!UnparkPc
  <2>1. Reu!TypeOK'
    BY <1>12, <1>0 DEF Reu!UnparkPc, Reu!CleanUp, Reu!Fails, Reu!TypeOK, Reu!CopyIsOwn,
        Reu!InOrder
  <2>2. Reu!CopyIsOwn'
    BY <1>12, <1>0 DEF Reu!UnparkPc, Reu!CleanUp, Reu!Fails, Reu!TypeOK, Reu!CopyIsOwn,
        Reu!Steps
  <2>3. Reu!InOrder'
    BY <1>12, <1>0 DEF Reu!UnparkPc, Reu!CleanUp, Reu!Fails, Reu!TypeOK, Reu!CopyIsOwn,
        Reu!InOrder, Reu!ParkedThroughout, Reu!Moving, Reu!CleaningUp
  <2>4. Reu!ParkedThroughout'
    BY <1>12, <1>0 DEF Reu!UnparkPc, Reu!CleanUp, Reu!Fails, Reu!TypeOK, Reu!InOrder,
        Reu!ParkedThroughout, Reu!Moving, Reu!CleaningUp
  <2>5. Reu!Undone'
    <3>1. CASE counter' = "program" /\ UNCHANGED <<cleanup, faults>>
      BY <1>12, <1>0, <3>1 DEF Reu!UnparkPc, Reu!CleanUp, Reu!CopyIsOwn,
          Reu!ParkedThroughout, Reu!Undone, Reu!Moving
    <3>2. CASE Reu!Fails /\ UNCHANGED counter
      BY <1>12, <1>0, <3>2 DEF Reu!UnparkPc, Reu!CleanUp, Reu!Fails, Reu!CopyIsOwn,
          Reu!ParkedThroughout, Reu!Undone, Reu!Moving
    <3> QED BY <1>12, <3>1, <3>2 DEF Reu!UnparkPc
  <2> QED BY <2>1, <2>2, <2>3, <2>4, <2>5 DEF Reu!ExtractInv
<1>13. CASE Reu!Return
  <2>1. Reu!TypeOK'
    BY <1>13, <1>0 DEF Reu!Return, Reu!TypeOK, Reu!CopyIsOwn, Reu!InOrder
  <2>2. Reu!CopyIsOwn'
    BY <1>13, <1>0 DEF Reu!Return, Reu!TypeOK, Reu!CopyIsOwn, Reu!Steps
  <2>3. Reu!InOrder'
    BY <1>13, <1>0 DEF Reu!Return, Reu!TypeOK, Reu!CopyIsOwn, Reu!InOrder,
        Reu!ParkedThroughout, Reu!Moving, Reu!CleaningUp
  <2>4. Reu!ParkedThroughout'
    BY <1>13, <1>0 DEF Reu!Return, Reu!TypeOK, Reu!InOrder, Reu!ParkedThroughout,
        Reu!Moving, Reu!CleaningUp
  <2>5. Reu!Undone'
    BY <1>13, <1>0 DEF Reu!Return, Reu!CopyIsOwn, Reu!ParkedThroughout, Reu!Undone,
        Reu!Moving
  <2> QED BY <2>1, <2>2, <2>3, <2>4, <2>5 DEF Reu!ExtractInv
<1> QED
  BY <1>1, <1>2, <1>3, <1>4, <1>5, <1>6, <1>7, <1>8, <1>9, <1>10, <1>11, <1>12, <1>13
     DEF Reu!ExtractNext

(* extract_reu_contents returns every bank in order, and however it ends the *)
(* program has its window, its PC and the park bytes back, unless an access  *)
(* of the clean-up itself failed; a parked program never runs on a bank's    *)
(* bytes; and when it returns, no transfer is left over, and no trap that it  *)
(* does not warn of.                                                         *)
THEOREM ExtractLeavesNoTrace == RunSpec => []ExtractIsClean
<1> DEFINE I == subject = "reu" => Reu!ExtractInv
<1>1. RunInit => I
  BY SubjectBegins, ReuInit
<1>2. I /\ [RunNext]_allvars => I'
  BY SubjectMoves, ReuStep
<1>3. I => ExtractIsClean
  BY DEF Reu!ExtractInv, Reu!TypeOK, Reu!InOrder, Reu!ParkedThroughout, Reu!Undone,
         Reu!CleaningUp, Reu!ExtractIsClean, ExtractIsClean
<1> QED BY <1>1, <1>2, <1>3, PTL DEF RunSpec

-----------------------------------------------------------------------------
(* The deadline on the Time-of-Day clock (TodPoll), for any deadline below a *)
(* minute.                                                                   *)

LEMMA TodInit == Tod!TodInit => Tod!TodInv
BY TimingAssumption
   DEF Tod!DeadlinesAssumption, Tod!TodInit, Tod!TodInv, Tod!TimesOutOnTime, Tod!Open

(* The digits of a time below a minute, as the routine adds them up.         *)
LowSum(t) == Tod!Low(Tod!Tens(t) * 100) + Tod!Ones(t) * 10
LowByte(t) == Tod!Low(LowSum(t))
HighByte(t) == Tod!High(Tod!Tens(t) * 100) + (IF LowSum(t) > 255 THEN 1 ELSE 0)

LEMMA SumOfSeconds ==
    ASSUME NEW t \in 0 .. 599
    PROVE  /\ LowByte(t) \in 0 .. 255 /\ HighByte(t) \in 0 .. 255
           /\ 256 * HighByte(t) + LowByte(t) = t - (t % 10)
<1> DEFINE l == LowByte(t)
           g == HighByte(t)
<1> SUFFICES l \in 0 .. 255 /\ g \in 0 .. 255 /\ 256 * g + l = t - (t % 10)
  OBVIOUS
<1>1. PICK a \in 0 .. 5, b \in 0 .. 99 : t = 100 * a + b
  <2>1. t = 100 * (t \div 100) + (t % 100)
    OBVIOUS
  <2>2. t \div 100 \in 0 .. 5
    OBVIOUS
  <2>3. t % 100 \in 0 .. 99
    OBVIOUS
  <2> QED BY <2>1, <2>2, <2>3
<1>2. PICK c \in 0 .. 9, d \in 0 .. 9 : b = 10 * c + d
  <2>1. b = 10 * (b \div 10) + (b % 10)
    OBVIOUS
  <2>2. b \div 10 \in 0 .. 9
    OBVIOUS
  <2>3. b % 10 \in 0 .. 9
    OBVIOUS
  <2> QED BY <2>1, <2>2, <2>3
<1>3. Tod!Tens(t) = a
  <2>1. t % 600 = t
    OBVIOUS
  <2> QED BY <1>1, <2>1 DEF Tod!Tens
<1>4. Tod!Ones(t) = c
  <2>1. t % 100 = b
    BY <1>1
  <2> QED BY <1>2, <2>1 DEF Tod!Ones
<1>5. t % 10 = d
  <2>1. t = 10 * (10 * a + c) + d
    BY <1>1, <1>2
  <2> QED BY <2>1
<1> DEFINE h == a * 100
           low == Tod!Low(h)
           high == Tod!High(h)
<1>6. h = 256 * high + low /\ low \in 0 .. 255 /\ high \in 0 .. 1
  <2>1. h \in 0 .. 500
    OBVIOUS
  <2>2. h = 256 * (h \div 256) + (h % 256) /\ h % 256 \in 0 .. 255
    BY <2>1
  <2>3. h \div 256 \in 0 .. 1
    BY <2>1
  <2>4. (h \div 256) % 256 = h \div 256
    BY <2>3
  <2> QED BY <2>2, <2>3, <2>4 DEF Tod!Low, Tod!High
<1> HIDE DEF h, low, high
<1> DEFINE sum == low + c * 10
<1>7. l = Tod!Low(sum) /\ g = high + (IF sum > 255 THEN 1 ELSE 0)
  BY <1>3, <1>4 DEF h, low, high, LowByte, HighByte, LowSum
<1> HIDE DEF l, g
<1>8. t - (t % 10) = 256 * high + sum
  BY <1>1, <1>2, <1>5, <1>6 DEF h
<1>9. sum \in 0 .. 345
  BY <1>6
<1>10. CASE sum > 255
  <2>1. sum % 256 = sum - 256
    BY <1>9, <1>10
  <2>2. l = sum - 256 /\ g = high + 1
    BY <1>7, <1>10, <2>1 DEF Tod!Low
  <2> HIDE DEF sum
  <2>3. l \in 0 .. 255 /\ g \in 0 .. 255 /\ 256 * g + l = 256 * high + sum
    BY <1>6, <1>9, <1>10, <2>2
  <2> QED BY <1>8, <2>3
<1>11. CASE sum <= 255
  <2>1. sum % 256 = sum
    BY <1>9, <1>11
  <2>2. l = sum /\ g = high
    BY <1>6, <1>7, <1>9, <1>11, <2>1 DEF Tod!Low
  <2> HIDE DEF sum
  <2>3. l \in 0 .. 255 /\ g \in 0 .. 255 /\ 256 * g + l = 256 * high + sum
    BY <1>6, <1>9, <1>11, <2>2
  <2> QED BY <1>8, <2>3
<1>12. sum > 255 \/ sum <= 255
  BY <1>9
<1> QED BY <1>10, <1>11, <1>12, Zenon

LEMMA TodStep == Tod!TodInv /\ [Tod!TodNext]_(Tod!tvars) => Tod!TodInv'
<1> SUFFICES ASSUME Tod!TodInv, [Tod!TodNext]_(Tod!tvars) PROVE Tod!TodInv'
  OBVIOUS
<1> USE TimingAssumption DEF Tod!DeadlinesAssumption, Tod!Open
<1>1. CASE UNCHANGED Tod!tvars
  BY <1>1 DEF Tod!tvars, Tod!TodInv, Tod!Reading, Tod!Sum, Tod!TimesOutOnTime
<1>2. CASE Tod!Tick
  BY <1>2 DEF Tod!Tick, Tod!TodInv, Tod!Reading, Tod!Sum, Tod!TimesOutOnTime
<1>3. CASE Tod!Ready
  BY <1>3 DEF Tod!Ready, Tod!TodInv, Tod!TimesOutOnTime
<1>4. CASE Tod!NotReady
  <2>1. /\ at = "peek" /\ at' = "hours" /\ overdue' = (clock >= deadline)
        /\ UNCHANGED <<deadline, clock, latch, lo, hi>>
    BY <1>4 DEF Tod!NotReady
  <2>2. deadline \in Deadlines /\ clock \in 0 .. End /\ latch = Tod!Open
        /\ lo \in 0 .. 255 /\ hi \in 0 .. 255
    BY <2>1 DEF Tod!TodInv
  <2>3. overdue' => clock >= deadline
    BY <2>1, Zenon
  <2>4. Tod!Reading(clock)'
    BY <2>1, <2>2, <2>3 DEF Tod!Reading
  <2> QED BY <2>1, <2>2, <2>4 DEF Tod!TodInv, Tod!TimesOutOnTime
<1>5. CASE Tod!ReadHours
  BY <1>5 DEF Tod!ReadHours, Tod!Latched, Tod!TodInv, Tod!Reading, Tod!TimesOutOnTime
<1>6. CASE Tod!ReadMinutes
  <2>1. latch \in 0 .. clock /\ clock \in 0 .. End /\ Tod!Reading(latch) /\ Tod!Shown = latch
    BY <1>6 DEF Tod!ReadMinutes, Tod!TodInv, Tod!Reading, Tod!Shown
  <2>2. CASE Tod!Minutes(Tod!Shown) > 0
    <3>1. latch >= 600
      BY <2>1, <2>2 DEF Tod!Minutes
    <3>2. /\ lo' = 255 /\ hi' = 255 /\ latch' = Tod!Open /\ at' = "compare"
          /\ UNCHANGED <<deadline, clock, drifted, overdue>>
      BY <1>6, <2>2 DEF Tod!ReadMinutes
    <3>3. Tod!Sum' = 65535
      BY <3>2 DEF Tod!Sum
    <3> QED BY <2>1, <3>1, <3>2, <3>3 DEF Tod!TodInv, Tod!Reading, Tod!TimesOutOnTime
  <2>3. CASE ~(Tod!Minutes(Tod!Shown) > 0)
    <3>1. latch < 600
      BY <2>1, <2>3 DEF Tod!Minutes
    <3>2. at' = "seconds" /\ UNCHANGED <<lo, hi, latch, deadline, clock, drifted, overdue>>
      BY <1>6, <2>3 DEF Tod!ReadMinutes
    <3> QED BY <2>1, <3>1, <3>2 DEF Tod!TodInv, Tod!Reading, Tod!TimesOutOnTime
  <2> QED BY <2>2, <2>3
<1>7. CASE Tod!ReadSeconds
  <2>1. /\ latch \in 0 .. clock /\ clock \in 0 .. End /\ Tod!Reading(latch) /\ Tod!Shown = latch
        /\ latch \in 0 .. 599
    BY <1>7 DEF Tod!ReadSeconds, Tod!TodInv, Tod!Reading, Tod!Shown
  <2>2. at' = "tenths" /\ UNCHANGED <<deadline, clock, latch, drifted, overdue>>
    BY <1>7 DEF Tod!ReadSeconds
  <2>3. lo' \in 0 .. 255 /\ hi' \in 0 .. 255 /\ 256 * hi' + lo' = latch - (latch % 10)
    <3>1. lo' = LowByte(latch) /\ hi' = HighByte(latch)
      BY <1>7, <2>1 DEF Tod!ReadSeconds, LowByte, HighByte, LowSum
    <3>2. /\ LowByte(latch) \in 0 .. 255 /\ HighByte(latch) \in 0 .. 255
          /\ 256 * HighByte(latch) + LowByte(latch) = latch - (latch % 10)
      BY <2>1, SumOfSeconds, ZenonT(30)
    <3> QED BY <3>1, <3>2, Zenon
  <2>4. deadline \in Deadlines
    BY DEF Tod!TodInv
  <2>5. (Tod!Sum = latch - (latch % 10))'
    BY <2>2, <2>3 DEF Tod!Sum
  <2>6. Tod!Reading(latch)'
    BY <2>1, <2>2 DEF Tod!Reading
  <2> QED BY <2>1, <2>2, <2>3, <2>4, <2>5, <2>6 DEF Tod!TodInv, Tod!TimesOutOnTime
<1>8. CASE Tod!ReadTenths
  <2>1. /\ latch \in 0 .. clock /\ clock \in 0 .. End /\ Tod!Reading(latch) /\ Tod!Shown = latch
        /\ latch \in 0 .. 599 /\ 256 * hi + lo = latch - (latch % 10)
        /\ lo \in 0 .. 255 /\ hi \in 0 .. 255
    BY <1>8 DEF Tod!ReadTenths, Tod!TodInv, Tod!Reading, Tod!Shown, Tod!Sum
  <2>2. at' = "compare" /\ latch' = Tod!Open /\ UNCHANGED <<deadline, clock, drifted, overdue>>
    BY <1>8 DEF Tod!ReadTenths
  <2>3. PICK n \in 0 .. 9 : n = latch % 10
    BY <2>1
  <2>4. Tod!Add(n)
    BY <1>8, <2>1, <2>3 DEF Tod!ReadTenths, Tod!Tenths
  <2>5. 256 * hi' + lo' = latch /\ lo' \in 0 .. 255 /\ hi' \in 0 .. 255
    <3>1. hi <= 2 /\ lo + n \in 0 .. 264
      BY <2>1, <2>3
    <3>2. CASE lo + n > 255
      <4>1. (lo + n) % 256 = lo + n - 256 /\ (hi + 1) % 256 = hi + 1
        BY <2>1, <3>1, <3>2
      <4> QED BY <2>1, <2>3, <2>4, <3>2, <4>1 DEF Tod!Add, Tod!Low
    <3>3. CASE ~(lo + n > 255)
      <4>1. (lo + n) % 256 = lo + n
        BY <2>1, <3>1, <3>3
      <4> QED BY <2>1, <2>3, <2>4, <3>3, <4>1 DEF Tod!Add, Tod!Low
    <3> QED BY <3>2, <3>3
  <2>6. deadline \in Deadlines
    BY DEF Tod!TodInv
  <2>7. Tod!Sum' = latch
    BY <2>5 DEF Tod!Sum
  <2>8. \E t \in 0 .. clock' : Tod!Reading(t)' /\ Tod!Sum' = t
    <3>1. (overdue => latch >= deadline) /\ latch \in 0 .. clock
      BY <2>1 DEF Tod!Reading
    <3>2. PICK v \in 0 .. clock : v = latch
      BY <3>1
    <3>3. Tod!Reading(v)'
      BY <2>2, <3>1, <3>2 DEF Tod!Reading
    <3> QED BY <2>2, <2>7, <3>2, <3>3
  <2>9. latch' \in Nat /\ clock' \in 0 .. End /\ deadline' \in Deadlines
    BY <2>1, <2>2, <2>6
  <2> HIDE DEF Tod!Open
  <2> QED BY <2>2, <2>5, <2>8, <2>9 DEF Tod!TodInv, Tod!TimesOutOnTime
<1>9. CASE Tod!Compare
  BY <1>9 DEF Tod!Compare, Tod!Low, Tod!High, Tod!TodInv, Tod!Reading, Tod!Sum,
              Tod!TimesOutOnTime
<1> QED
  BY <1>1, <1>2, <1>3, <1>4, <1>5, <1>6, <1>7, <1>8, <1>9 DEF Tod!TodNext

-----------------------------------------------------------------------------
(* The poll loops (PollWait), for any time limits and any number of failed   *)
(* reads and resumes.                                                        *)

LEMMA WaitBegins == Polls!WaitInit => Polls!WaitInv
<1> SUFFICES ASSUME Polls!WaitInit PROVE Polls!WaitInv
  OBVIOUS
<1>1. Polls!TypeOK
  BY DEF Polls!WaitInit, Polls!TypeOK, Polls!Waits, Polls!Ranges, Polls!Unread
<1>2. Polls!CpuIsKept
  BY DEF Polls!WaitInit, Polls!CpuIsKept, Polls!Ended, Polls!PlainExit
<1>3. Polls!HistoryIsKept
  BY DEF Polls!WaitInit, Polls!HistoryIsKept
<1> QED BY <1>1, <1>2, <1>3 DEF Polls!WaitInv

(* What an action does to the CPU is one thing, what it does to the history  *)
(* another: each is proved for all actions in turn.                          *)
LEMMA TypeStep ==
    ASSUME Polls!TypeOK, [Polls!WaitNext]_(Polls!wvars)
    PROVE  Polls!TypeOK'
<1> USE DEF Polls!TypeOK, Polls!Ranges
<1>1. CASE UNCHANGED Polls!wvars
  BY <1>1 DEF Polls!wvars
<1>2. CASE Polls!Program
  BY <1>2 DEF Polls!Program
<1>3. CASE Polls!GiveUp
  BY <1>3 DEF Polls!GiveUp
<1>4. ASSUME Polls!Reads
      PROVE  /\ memory' \in [Polls!Ranges -> 0..1] /\ last' \in [Polls!Ranges -> 0..2]
             /\ now' \in Nat /\ wait'.for \in Polls!Waits
             /\ reads' \in Seq([at : Nat, value : [Polls!Ranges -> 0..1]])
             /\ (reads' = <<>> => last' = Polls!Unread')
  BY <1>4, SMTT(30) DEF Polls!Reads
<1>5. CASE Polls!PollText
  BY <1>4, <1>5 DEF Polls!PollText
<1>6. CASE Polls!PollStable
  BY <1>4, <1>6 DEF Polls!PollStable
<1>7. CASE Polls!PollMemory
  <2>1. step' \in {"poll", "resume", "sleep", "leave", "left"}
    BY <1>7 DEF Polls!PollMemory, Polls!Again
  <2> QED BY <1>4, <1>7, <2>1 DEF Polls!PollMemory
<1>8. CASE Polls!PollProgress
  BY <1>4, <1>8 DEF Polls!PollProgress, Polls!LastChange, Polls!Again
<1>9. CASE \E interrupt \in BOOLEAN : Polls!ReadFails(interrupt)
  <2>1. step' \in {"poll", "resume", "sleep", "leave", "left"}
    BY <1>9 DEF Polls!ReadFails, Polls!Again
  <2>2. UNCHANGED <<wait, memory, now, last, count, since, reads>>
    BY <1>9 DEF Polls!ReadFails
  <2> QED BY <2>1, <2>2
<1>10. CASE Polls!Resume
  BY <1>10 DEF Polls!Resume
<1>11. CASE Polls!Leave
  BY <1>11 DEF Polls!Leave
<1>12. CASE Polls!Sleep
  BY <1>12 DEF Polls!Sleep
<1>13. CASE Polls!SleepIsCut
  BY <1>13 DEF Polls!SleepIsCut
<1> QED
  BY <1>1, <1>2, <1>3, <1>5, <1>6, <1>7, <1>8, <1>9, <1>10, <1>11, <1>12, <1>13
     DEF Polls!WaitNext

LEMMA CpuStep ==
    ASSUME Polls!TypeOK, Polls!CpuIsKept, Polls!HistoryIsKept,
           [Polls!WaitNext]_(Polls!wvars)
    PROVE  Polls!CpuIsKept'
<1> USE DEF Polls!CpuIsKept, Polls!Ended, Polls!Again, Polls!TypeOK, Polls!Waits,
           Polls!PlainExit
<1>1. CASE UNCHANGED Polls!wvars
  BY <1>1 DEF Polls!wvars
<1>2. CASE Polls!Program
  BY <1>2 DEF Polls!Program
<1>3. CASE Polls!GiveUp
  BY <1>3 DEF Polls!GiveUp
<1>4. ASSUME Polls!Reads \/ \E interrupt \in BOOLEAN : Polls!ReadFails(interrupt)
      PROVE  /\ step = "poll" /\ UNCHANGED <<wait, stuck>>
             /\ ~wait.traps => spares' = 0
             /\ wait.paused /\ wait.for \in {"memory", "progress"} => cpu' = "paused"
  <2>1. CASE Polls!Reads
    BY <2>1 DEF Polls!Reads, Polls!Halts
  <2>2. CASE \E interrupt \in BOOLEAN : Polls!ReadFails(interrupt)
    BY <2>2 DEF Polls!ReadFails, Polls!Halts
  <2> QED BY <1>4, <2>1, <2>2
<1>5. CASE Polls!PollText
  BY <1>4, <1>5 DEF Polls!PollText
<1>6. CASE Polls!PollStable
  BY <1>4, <1>6 DEF Polls!PollStable
<1>7. CASE Polls!PollMemory
  <2>1. wait.for = "memory" /\ Polls!Reads
    BY <1>7 DEF Polls!PollMemory
  <2>2. step' = "leave" \/ step' = Polls!Again
    BY <1>7 DEF Polls!PollMemory
  <2> QED BY <1>4, <2>1, <2>2
<1>8. CASE Polls!PollProgress
  BY <1>4, <1>8 DEF Polls!PollProgress
<1>9. CASE \E interrupt \in BOOLEAN : Polls!ReadFails(interrupt)
  <2>1. step' = "leave" \/ step' = Polls!Again
    BY <1>9 DEF Polls!ReadFails
  <2> QED BY <1>4, <1>9, <2>1
<1>10. CASE Polls!Resume
  BY <1>10 DEF Polls!Resume, Polls!LastResume, Polls!ConfirmedResume, Polls!PlainResume,
               Polls!ResumeFails
<1>11. CASE Polls!Leave
  BY <1>11 DEF Polls!Leave, Polls!LastResume, Polls!ConfirmedResume, Polls!ResumeFails
<1>12. CASE Polls!Sleep
  BY <1>12 DEF Polls!Sleep
<1>13. CASE Polls!SleepIsCut
  BY <1>13 DEF Polls!SleepIsCut
<1> QED
  BY <1>1, <1>2, <1>3, <1>5, <1>6, <1>7, <1>8, <1>9, <1>10, <1>11, <1>12, <1>13
     DEF Polls!WaitNext

LEMMA ReadIsRecorded ==
    ASSUME Polls!TypeOK, Polls!Reads
    PROVE  /\ step = "poll" /\ UNCHANGED <<wait, memory, now>> /\ last' = memory
           /\ Len(reads') = Len(reads) + 1 /\ reads' # <<>>
           /\ reads'[Len(reads')].at = now /\ reads'[Len(reads')].value = memory
           /\ \A j \in 1 .. Len(reads) : reads'[j] = reads[j]
           /\ reads \in Seq([at : Nat, value : [Polls!Ranges -> 0..1]]) /\ Len(reads) \in Nat
<1> DEFINE new == [at |-> now, value |-> memory]
<1>1. /\ step = "poll" /\ UNCHANGED <<wait, memory, now>> /\ last' = memory
      /\ reads' = Append(reads, new)
  BY DEF Polls!Reads
<1>2. reads \in Seq([at : Nat, value : [Polls!Ranges -> 0..1]]) /\ Len(reads) \in Nat
  BY DEF Polls!TypeOK
<1>3. new.at = now /\ new.value = memory
  OBVIOUS
<1> HIDE DEF new
<1>4. /\ Len(reads') = Len(reads) + 1 /\ reads' # <<>> /\ reads'[Len(reads')] = new
      /\ \A j \in 1 .. Len(reads) : reads'[j] = reads[j]
  BY <1>1, <1>2
<1> QED BY <1>1, <1>2, <1>3, <1>4

LEMMA SameAgain ==
    ASSUME Polls!TypeOK, Polls!Reads, NEW i \in 1 .. Len(reads) + 1,
           i \in 1 .. Len(reads) => memory = last /\ Polls!SameFrom(i)
    PROVE  Polls!SameFrom(i)' /\ i \in 1 .. Len(reads')
<1>1. ASSUME NEW j \in i .. Len(reads') PROVE reads'[j].value = memory
  <2>1. j = Len(reads') \/ j \in 1 .. Len(reads)
    BY ReadIsRecorded
  <2>2. CASE j \in 1 .. Len(reads)
    <3>1. i \in 1 .. Len(reads) /\ j \in i .. Len(reads)
      BY <2>2, ReadIsRecorded
    <3>2. reads[j].value = last /\ memory = last
      BY <3>1 DEF Polls!SameFrom
    <3> QED BY <2>2, <3>2, ReadIsRecorded
  <2> QED BY <2>1, <2>2, ReadIsRecorded
<1> QED BY <1>1, ReadIsRecorded DEF Polls!SameFrom

LEMMA HistoryStep ==
    ASSUME Polls!TypeOK, Polls!CpuIsKept, Polls!HistoryIsKept,
           [Polls!WaitNext]_(Polls!wvars)
    PROVE  Polls!HistoryIsKept'
<1>1. CASE UNCHANGED Polls!wvars
  BY <1>1 DEF Polls!HistoryIsKept, Polls!SameFrom, Polls!wvars
<1>2. CASE Polls!Program
  BY <1>2 DEF Polls!HistoryIsKept, Polls!SameFrom, Polls!Program
<1>3. CASE Polls!GiveUp
  BY <1>3 DEF Polls!HistoryIsKept, Polls!SameFrom, Polls!GiveUp
<1>4. CASE Polls!PollText
  <2>1. /\ wait.for = "text" /\ Polls!Reads
        /\ event' = event \/ (event' = "found" /\ step' = "leave")
    BY <1>4 DEF Polls!PollText
  <2> QED BY <2>1, ReadIsRecorded DEF Polls!HistoryIsKept
<1>5. CASE Polls!PollStable
  <2>1. /\ wait.for = "stable" /\ Polls!Reads
        /\ count' = (IF memory = last THEN count + 1 ELSE 0)
        /\ event' = event \/ (event' = "found" /\ step' = "leave" /\ count' >= StableCount)
    BY <1>5 DEF Polls!PollStable
  <2>2. event' # "stalled" /\ (event' = "found" => step' = "leave" /\ count' >= StableCount)
    BY <2>1, ReadIsRecorded DEF Polls!HistoryIsKept
  <2>3. PICK i \in 1 .. Len(reads) + 1 :
          i = Len(reads') - count' /\ (i \in 1 .. Len(reads) => memory = last /\ Polls!SameFrom(i))
    <3>1. CASE memory = last
      <4>1. reads # <<>>
        BY <3>1 DEF Polls!TypeOK, Polls!Unread, Polls!Ranges
      <4>2. count < Len(reads) /\ Polls!SameFrom(Len(reads) - count) /\ count \in Nat
        BY <2>1, <4>1 DEF Polls!HistoryIsKept, Polls!TypeOK
      <4>3. Len(reads') - count' = Len(reads) - count
        BY <2>1, <3>1, <4>2, ReadIsRecorded
      <4>4. PICK i \in 1 .. Len(reads) : i = Len(reads) - count
        BY <2>1, <4>2, ReadIsRecorded
      <4>5. Polls!SameFrom(i)
        BY <4>2, <4>4
      <4> QED BY <2>1, <3>1, <4>3, <4>4, <4>5, ReadIsRecorded
    <3>2. CASE memory # last
      BY <2>1, <3>2, ReadIsRecorded
    <3> QED BY <3>1, <3>2
  <2>4. Polls!SameFrom(i)' /\ i \in 1 .. Len(reads')
    BY <2>1, <2>3, SameAgain
  <2>5. (Polls!SameFrom(Len(reads) - count))' /\ count' < Len(reads')
    <3>1. count' \in Nat
      BY <2>1 DEF Polls!TypeOK
    <3> QED BY <2>1, <2>3, <2>4, <3>1, ReadIsRecorded
  <2> QED BY <2>1, <2>2, <2>5, ReadIsRecorded DEF Polls!HistoryIsKept
<1>6. CASE Polls!PollMemory
  <2>1. wait.for = "memory" /\ Polls!Reads
    BY <1>6 DEF Polls!PollMemory
  <2>2. event' \in {"timeout", event} \/ (event' = "found" /\ step' = "leave")
    BY <1>6 DEF Polls!PollMemory
  <2> QED BY <2>1, <2>2, ReadIsRecorded DEF Polls!HistoryIsKept
<1>7. CASE Polls!PollProgress
  <2>1. /\ wait.for = "progress" /\ Polls!Reads /\ since' = Polls!LastChange
        /\ view' = [r \in Polls!Ranges |->
                      IF r \in Polls!Changed THEN memory[r] ELSE view[r]]
    BY <1>7 DEF Polls!PollProgress
  <2>2. /\ Polls!Changed # {} => event' = "advanced"
        /\ Polls!Changed = {} => event' = "none" \/ (now - since >= IdleLimit)
        /\ event' \in {"advanced", "stalled", "none"}
    BY <1>7 DEF Polls!PollProgress
  <2>3. view' = last'
    BY <2>1, ReadIsRecorded DEF Polls!Changed, Polls!TypeOK, Polls!HistoryIsKept
  <2>4. PICK i \in 1 .. Len(reads) + 1 :
          /\ reads'[i].at = since'
          /\ i \in 1 .. Len(reads) => memory = last /\ Polls!SameFrom(i)
          /\ event' = "stalled" => since' + IdleLimit <= now
    <3>1. CASE Polls!Changed = {}
      <4>1. memory = last
        BY <3>1 DEF Polls!Changed, Polls!TypeOK
      <4>2. reads # <<>>
        BY <4>1 DEF Polls!TypeOK, Polls!Unread, Polls!Ranges
      <4>3. PICK i \in 1 .. Len(reads) : reads[i].at = since /\ Polls!SameFrom(i)
        BY <2>1, <4>2 DEF Polls!HistoryIsKept
      <4>4. since' = since
        BY <2>1, <3>1 DEF Polls!LastChange
      <4>5. event' = "stalled" => since + IdleLimit <= now
        BY <2>2, <3>1, PollingAssumption DEF Polls!BoundsAssumption, Polls!TypeOK
      <4> QED BY <2>1, <4>1, <4>3, <4>4, <4>5, ReadIsRecorded
    <3>2. CASE Polls!Changed # {}
      <4>1. since' = now /\ event' = "advanced"
        BY <2>1, <2>2, <3>2 DEF Polls!LastChange
      <4>2. PICK i \in 1 .. Len(reads) + 1 : i = Len(reads')
        BY <2>1, ReadIsRecorded
      <4>3. i \notin 1 .. Len(reads) /\ reads'[i].at = since'
        BY <2>1, <4>1, <4>2, ReadIsRecorded
      <4> QED BY <4>1, <4>3
    <3> QED BY <3>1, <3>2
  <2>5. Polls!SameFrom(i)' /\ i \in 1 .. Len(reads')
    BY <2>1, <2>4, SameAgain
  <2>6. event' = "stalled" => reads'[i].at + IdleLimit <= reads'[Len(reads')].at
    BY <2>1, <2>4, ReadIsRecorded
  <2> QED BY <2>1, <2>2, <2>3, <2>4, <2>5, <2>6, ReadIsRecorded DEF Polls!HistoryIsKept
<1>8. CASE \E interrupt \in BOOLEAN : Polls!ReadFails(interrupt)
  <2>1. /\ event' \in {"raised", "error", event} /\ step = "poll"
        /\ UNCHANGED <<wait, last, count, since, view, reads>>
    BY <1>8 DEF Polls!ReadFails
  <2> QED BY <2>1 DEF Polls!HistoryIsKept, Polls!SameFrom
<1>9. CASE Polls!Resume
  BY <1>9 DEF Polls!HistoryIsKept, Polls!SameFrom, Polls!Resume
<1>10. CASE Polls!Leave
  BY <1>10 DEF Polls!HistoryIsKept, Polls!SameFrom, Polls!Leave
<1>11. CASE Polls!Sleep
  BY <1>11 DEF Polls!HistoryIsKept, Polls!SameFrom, Polls!Sleep
<1>12. CASE Polls!SleepIsCut
  BY <1>12 DEF Polls!HistoryIsKept, Polls!SameFrom, Polls!SleepIsCut
<1> QED
  BY <1>1, <1>2, <1>3, <1>4, <1>5, <1>6, <1>7, <1>8, <1>9, <1>10, <1>11, <1>12
     DEF Polls!WaitNext

(* However a wait of a VICE ends, an interrupt included, the CPU runs, unless *)
(* a resume failed, or the program makes REU transfers and the wait ended by *)
(* a screen waiter's time-out or by an interrupt in the sleep between two    *)
(* polls; one of an Ultimate 64 leaves a pause alone where it must;          *)
(* "stalled", "found" and the accumulated view say what the good reads saw;  *)
(* and a deadline on the clock of the CIA ends a wait neither before nor     *)
(* later than the first reading after it.                                    *)
THEOREM WaitsReportWhatTheySaw == RunSpec => []WaitsAreHonest
<1> DEFINE W == subject = "wait" => Polls!WaitInv
           T == subject = "tod" => Tod!TodInv
<1>1. RunInit => W /\ T
  BY SubjectBegins, WaitBegins, TodInit
<1>2. W /\ T /\ [RunNext]_allvars => W' /\ T'
  BY SubjectMoves, TypeStep, CpuStep, HistoryStep, TodStep DEF Polls!WaitInv
<1>3. W /\ T => WaitsAreHonest
  <2>1. Polls!WaitInv => Polls!LeavesMachineRunning
    BY DEF Polls!WaitInv, Polls!CpuIsKept, Polls!LeavesMachineRunning, Polls!Ended,
           Polls!PlainExit
  <2>2. Polls!WaitInv => Polls!VerdictIsHonest
    <3> SUFFICES ASSUME Polls!TypeOK, Polls!HistoryIsKept PROVE Polls!VerdictIsHonest
      BY DEF Polls!WaitInv
    <3>1. event = "found" /\ wait.for = "stable" =>
            /\ Len(reads) > StableCount
            /\ \A j \in (Len(reads) - StableCount) .. Len(reads) : reads[j].value = last
      BY PollingAssumption
         DEF Polls!TypeOK, Polls!HistoryIsKept, Polls!SameFrom, Polls!BoundsAssumption
    <3> QED BY <3>1 DEF Polls!HistoryIsKept, Polls!SameFrom, Polls!VerdictIsHonest
  <2> QED BY <2>1, <2>2 DEF Tod!TodInv, WaitsAreHonest
<1> QED BY <1>1, <1>2, <1>3, PTL DEF RunSpec

-----------------------------------------------------------------------------
(* A ping across the bridge (BridgePing), for any number of tries and any    *)
(* receive buffer.                                                           *)

LEMMA PingBegins == Ping!PingInit => Ping!PingInv
<1> SUFFICES ASSUME Ping!PingInit PROVE Ping!PingInv
  OBVIOUS
<1> USE ReceiveAssumption DEF Ping!BufferAssumption
<1>1. Ping!TypeOK
  BY DEF Ping!PingInit, Ping!TypeOK
<1>2. Ping!RepliesAreAnswered
  BY DEF Ping!PingInit, Ping!RepliesAreAnswered, Ping!Answers, Ping!Asks, Ping!PingIsHonest,
         Ping!Hosts, Ping!Pinger
<1>3. Ping!RoomIsCounted
  BY DEF Ping!PingInit, Ping!RoomIsCounted, Ping!HasRoom
<1> QED BY <1>1, <1>2, <1>3 DEF Ping!PingInv

LEMMA PeerIsHost ==
    ASSUME NEW h \in Ping!Hosts
    PROVE  Ping!Peer(h) \in Ping!Hosts
<1>1. \E o \in Ping!Hosts : o # h
  BY DEF Ping!Hosts, Ping!Pinger, Ping!Responder
<1> QED BY <1>1 DEF Ping!Peer

LEMMA OldestIsFrame ==
    ASSUME Ping!TypeOK, NEW h \in Ping!Hosts
    PROVE  /\ chip[h] # <<>> => /\ Head(chip[h]) \in Ping!Frames
                                /\ Tail(chip[h]) \in Seq(Ping!Frames)
           /\ wire[h] # <<>> => /\ Head(wire[h]) \in Ping!Frames
                                /\ Tail(wire[h]) \in Seq(Ping!Frames)
           /\ sending[h] # <<>> => /\ Head(sending[h]) \in Ping!Frames
                                   /\ Tail(sending[h]) \in Seq(Ping!Frames)
<1> HIDE DEF Ping!Frames
<1> QED BY DEF Ping!TypeOK

(* The responder answers with one frame, or with none.                       *)
LEMMA AnswerIsFrames ==
    ASSUME NEW f \in Ping!Frames
    PROVE  Ping!Answer(f) \in Seq(Ping!Frames) /\ Len(Ping!Answer(f)) <= 1
<1>1. Ping!Frame("arpReply", 0) \in Ping!Frames /\ Ping!EchoReply(f) \in Ping!Frames
  BY DEF Ping!EchoReply, Ping!Frame, Ping!Frames
<1>2. \A g \in Ping!Frames : <<g>> \in Seq(Ping!Frames) /\ Len(<<g>>) = 1
  OBVIOUS
<1> QED BY <1>1, <1>2 DEF Ping!Answer

LEMMA PingTypes ==
    ASSUME Ping!TypeOK, Ping!RoomIsCounted, [Ping!PingNext]_(Ping!pvars)
    PROVE  Ping!TypeOK'
<1> USE DEF Ping!TypeOK
<1>0. "pinger" \in Ping!Hosts /\ "responder" \in Ping!Hosts
  BY DEF Ping!Hosts, Ping!Pinger, Ping!Responder
<1>1. CASE UNCHANGED Ping!pvars
  BY <1>1 DEF Ping!pvars
<1>2. CASE \E arp, drain \in BOOLEAN : Ping!Ping(arp, drain)
  <2>1. PICK arp \in BOOLEAN, drain \in BOOLEAN : Ping!Ping(arp, drain)
    BY <1>2
  <2> DEFINE new == (IF arp THEN <<Ping!Frame("arpRequest", 0)>> ELSE <<>>)
                       \o <<Ping!Frame("echoRequest", ping + 1)>>
  <2>2. new \in Seq(Ping!Frames)
    <3> DEFINE a == Ping!Frame("arpRequest", 0)
               e == Ping!Frame("echoRequest", ping + 1)
    <3>1. a \in Ping!Frames /\ e \in Ping!Frames
      BY DEF Ping!Frame, Ping!Frames
    <3> HIDE DEF a, e
    <3>2. <<a>> \in Seq(Ping!Frames) /\ <<e>> \in Seq(Ping!Frames) /\ <<>> \in Seq(Ping!Frames)
      BY <3>1
    <3>3. <<a>> \o <<e>> \in Seq(Ping!Frames) /\ <<>> \o <<e>> \in Seq(Ping!Frames)
      BY <3>2, ConcatProperties
    <3> QED BY <3>3 DEF a, e
  <2>3. sending' = [sending EXCEPT !["pinger"] = new] /\ ping' = ping + 1
        /\ Ping!BeginTransmit("pinger", IF drain THEN "drain" ELSE "transmit")
        /\ result' = [result EXCEPT !["pinger"] = "none"]
        /\ UNCHANGED <<wire, chip>>
    BY <2>1 DEF Ping!Ping, Ping!Pinger
  <2> HIDE DEF new
  <2> QED BY <1>0, <2>2, <2>3, ReceiveAssumption DEF Ping!BufferAssumption, Ping!BeginTransmit
<1>3. CASE Ping!Serve
  BY <1>0, <1>3 DEF Ping!Serve, Ping!Responder
<1>4. ASSUME NEW h \in Ping!Hosts, Ping!Transmitting(h) PROVE Ping!TypeOK'
  <2>1. CASE Ping!Drain(h)
    <3>1. CASE Ping!Pending(h) /\ tries[h] > 0
      <4>1. Tail(chip[h]) \in Seq(Ping!Frames)
        BY <1>4, <3>1, OldestIsFrame DEF Ping!Pending
      <4>2. tries[h] - 1 \in 0 .. Tries
        BY <1>4, <3>1, ReceiveAssumption DEF Ping!BufferAssumption
      <4> QED BY <1>4, <2>1, <3>1, <4>1, <4>2 DEF Ping!Drain, Ping!Skip
    <3>2. CASE ~(Ping!Pending(h) /\ tries[h] > 0)
      <4>1. /\ at' = [at EXCEPT ![h] = "transmit"] /\ tries' = [tries EXCEPT ![h] = Tries]
            /\ came' = [came EXCEPT ![h] = 0]
            /\ UNCHANGED <<chip, wire, sending, result, ping>>
        BY <2>1, <3>2, Zenon DEF Ping!Drain, Ping!BeginTransmit
      <4> QED BY <1>4, <4>1, ReceiveAssumption DEF Ping!BufferAssumption
    <3> QED BY <3>1, <3>2
  <2>2. CASE Ping!MakeRoom(h)
    <3>1. chip[h] # <<>> => Tail(chip[h]) \in Seq(Ping!Frames)
      BY <1>4, OldestIsFrame
    <3>2. tries[h] - 1 \in 0 .. Tries
      BY <1>4, <2>2, ReceiveAssumption DEF Ping!MakeRoom, Ping!BufferAssumption
    <3>3. /\ tries' = [tries EXCEPT ![h] = @ - 1]
          /\ \/ chip[h] # <<>> /\ chip' = [chip EXCEPT ![h] = Tail(@)] /\ UNCHANGED came
             \/ came' = [came EXCEPT ![h] = @ + 1] /\ UNCHANGED chip
          /\ UNCHANGED <<wire, at, sending, result, ping>>
      BY <2>2, Zenon DEF Ping!MakeRoom, Ping!Skip, Ping!Pending
    <3>4. chip' \in [Ping!Hosts -> Seq(Ping!Frames)] /\ came' \in [Ping!Hosts -> Nat]
      <4>1. /\ chip \in [Ping!Hosts -> Seq(Ping!Frames)] /\ came \in [Ping!Hosts -> Nat]
            /\ h \in Ping!Hosts
        BY <1>4
      <4>2. CASE /\ chip[h] # <<>> /\ chip' = [chip EXCEPT ![h] = Tail(@)]
                 /\ UNCHANGED came
        BY ONLY <3>1, <4>1, <4>2
      <4>3. CASE came' = [came EXCEPT ![h] = @ + 1] /\ UNCHANGED chip
        BY ONLY <4>1, <4>3
      <4> QED BY <3>3, <4>2, <4>3
    <3>5. tries' \in [Ping!Hosts -> 0 .. Tries]
      BY <1>4, <3>2, <3>3
    <3> QED BY <3>3, <3>4, <3>5
  <2>3. CASE Ping!NotReady(h)
    BY <1>4, <2>3 DEF Ping!NotReady
  <2>4. CASE Ping!Transmit(h)
    <3>1. Head(sending[h]) \in Ping!Frames /\ Tail(sending[h]) \in Seq(Ping!Frames)
      BY <1>4, <2>4, OldestIsFrame DEF Ping!Transmit, Ping!RoomIsCounted, Ping!HasRoom
    <3>2. PICK o \in Ping!Hosts : o = Ping!Peer(h)
      BY <1>4, PeerIsHost
    <3>3. Append(wire[o], Head(sending[h])) \in Seq(Ping!Frames)
      BY <3>1
    <3>4. wire' \in [Ping!Hosts -> Seq(Ping!Frames)] /\ UNCHANGED <<chip, ping>>
          /\ sending' \in [Ping!Hosts -> Seq(Ping!Frames)]
      BY <1>4, <2>4, <3>1, <3>2, <3>3 DEF Ping!Transmit
    <3>5. result' \in [Ping!Hosts -> {"none", "done", "timeout", "notReady"}]
      BY <1>4, <2>4 DEF Ping!Transmit
    <3>6. PICK w \in {"transmit", "idle", "poll"} : Ping!BeginTransmit(h, w)
      BY <2>4 DEF Ping!Transmit
    <3>7. /\ at' \in [Ping!Hosts -> {"idle", "drain", "transmit", "poll"}]
          /\ tries' \in [Ping!Hosts -> 0 .. Tries] /\ came' \in [Ping!Hosts -> Nat]
      BY <1>4, <3>6, ReceiveAssumption DEF Ping!BeginTransmit, Ping!BufferAssumption
    <3> QED BY <3>4, <3>5, <3>7
  <2> QED BY <1>4, <2>1, <2>2, <2>3, <2>4 DEF Ping!Transmitting
<1>5. CASE Ping!PingerReads
  <2>1. Tail(chip["pinger"]) \in Seq(Ping!Frames)
    BY <1>0, <1>5, OldestIsFrame DEF Ping!PingerReads, Ping!Pending, Ping!Pinger
  <2> QED BY <1>0, <1>5, <2>1 DEF Ping!PingerReads, Ping!Skip, Ping!Pinger
<1>6. CASE Ping!ResponderReads
  <2>1. PICK f \in Ping!Frames : f = Head(chip["responder"])
    BY <1>0, <1>6, OldestIsFrame DEF Ping!ResponderReads, Ping!Pending, Ping!Responder
  <2>2. Tail(chip["responder"]) \in Seq(Ping!Frames)
    BY <1>0, <1>6, OldestIsFrame DEF Ping!ResponderReads, Ping!Pending, Ping!Responder
  <2>3. PICK r \in Seq(Ping!Frames) : r = Ping!Answer(f)
    BY AnswerIsFrames
  <2>4. /\ chip' = [chip EXCEPT !["responder"] = Tail(@)]
        /\ UNCHANGED <<wire, result, ping>>
        /\ \/ UNCHANGED <<at, tries, came, sending>>
           \/ /\ Ping!BeginTransmit("responder", "transmit")
              /\ sending' = [sending EXCEPT !["responder"] = r]
    BY <1>6, <2>1, <2>3 DEF Ping!ResponderReads, Ping!Skip, Ping!Oldest, Ping!Responder
  <2>5. chip' \in [Ping!Hosts -> Seq(Ping!Frames)]
    BY <1>0, <2>2, <2>4
  <2>6. CASE UNCHANGED <<at, tries, came, sending>>
    BY <2>4, <2>5, <2>6
  <2>7. CASE /\ Ping!BeginTransmit("responder", "transmit")
             /\ sending' = [sending EXCEPT !["responder"] = r]
    BY <1>0, <2>4, <2>5, <2>7, ReceiveAssumption
       DEF Ping!BeginTransmit, Ping!BufferAssumption
  <2> QED BY <2>4, <2>6, <2>7
<1>7. ASSUME NEW h \in Ping!Hosts, Ping!Expire(h) PROVE Ping!TypeOK'
  BY <1>7 DEF Ping!Expire
<1>8. ASSUME NEW h \in Ping!Hosts, Ping!Bridge(h) PROVE Ping!TypeOK'
  <2>1. ASSUME NEW f \in Ping!Frames, Ping!Receive(h, f)
        PROVE  chip' \in [Ping!Hosts -> Seq(Ping!Frames)] /\ came' \in [Ping!Hosts -> Nat]
    <3> DEFINE held == Append(chip[h], f)
    <3>1. held \in Seq(Ping!Frames) /\ held # <<>>
      BY <1>8, <2>1
    <3>2. chip' = [chip EXCEPT ![h] = IF Len(held) > Hold THEN Tail(held) ELSE held]
      BY <2>1 DEF Ping!Receive
    <3> HIDE DEF held
    <3>3. Tail(held) \in Seq(Ping!Frames)
      BY <3>1
    <3>4. chip' \in [Ping!Hosts -> Seq(Ping!Frames)]
      BY <1>8, <3>1, <3>2, <3>3
    <3>5. came' \in [Ping!Hosts -> Nat]
      BY <1>8, <2>1 DEF Ping!Receive
    <3> QED BY <3>4, <3>5
  <2>2. CASE Ping!Arrive(h)
    <3>1. Head(wire[h]) \in Ping!Frames /\ Tail(wire[h]) \in Seq(Ping!Frames)
      BY <1>8, <2>2, OldestIsFrame DEF Ping!Arrive
    <3> QED BY <1>8, <2>1, <2>2, <3>1 DEF Ping!Arrive
  <2>3. CASE Ping!Broadcast(h)
    <3>1. Ping!Noise \in Ping!Frames
      BY DEF Ping!Noise, Ping!Frame, Ping!Frames
    <3> QED BY <1>8, <2>1, <2>3, <3>1 DEF Ping!Broadcast
  <2>4. CASE Ping!Lose(h)
    <3>1. Tail(wire[h]) \in Seq(Ping!Frames)
      BY <1>8, <2>4, OldestIsFrame DEF Ping!Lose
    <3> QED BY <1>8, <2>4, <3>1 DEF Ping!Lose
  <2> QED BY <1>8, <2>2, <2>3, <2>4 DEF Ping!Bridge
<1> QED
  BY <1>0, <1>1, <1>2, <1>3, <1>4, <1>5, <1>6, <1>7, <1>8
     DEF Ping!PingNext, Ping!PingRoutine, Ping!ResponderRoutine, Ping!Pinger, Ping!Responder

(* Frames that all are answers to `pings`, or no replies.                    *)
LEMMA AnswersLater ==
    ASSUME NEW s \in Seq(Ping!Frames), NEW P, Ping!Answers(s, P), s # <<>>
    PROVE  /\ Ping!Answers(Tail(s), P)
           /\ Head(s).kind = "echoReply" => Head(s).ping \in P
<1> HIDE DEF Ping!Frames
<1>1. \A i \in 1 .. Len(Tail(s)) : Tail(s)[i] = s[i + 1] /\ i + 1 \in 1 .. Len(s)
  OBVIOUS
<1>2. Head(s) = s[1] /\ 1 \in 1 .. Len(s)
  OBVIOUS
<1> QED BY <1>1, <1>2 DEF Ping!Answers

LEMMA AnswersOneMore ==
    ASSUME NEW s \in Seq(Ping!Frames), NEW P, Ping!Answers(s, P), NEW Q, P \subseteq Q,
           NEW f \in Ping!Frames, f.kind = "echoReply" => f.ping \in Q
    PROVE  Ping!Answers(Append(s, f), Q)
<1> HIDE DEF Ping!Frames
<1>1. Len(Append(s, f)) = Len(s) + 1 /\ Append(s, f)[Len(s) + 1] = f
      /\ Len(s) \in Nat /\ \A i \in 1 .. Len(s) : Append(s, f)[i] = s[i]
  OBVIOUS
<1> QED BY <1>1 DEF Ping!Answers

LEMMA RepliesStep ==
    ASSUME Ping!TypeOK, Ping!RepliesAreAnswered, Ping!RoomIsCounted,
           [Ping!PingNext]_(Ping!pvars)
    PROVE  Ping!RepliesAreAnswered'
<1> USE DEF Ping!RepliesAreAnswered, Ping!PingIsHonest
<1>0. /\ "pinger" \in Ping!Hosts /\ "responder" \in Ping!Hosts
      /\ "pinger" # "responder"
      /\ wire \in [Ping!Hosts -> Seq(Ping!Frames)] /\ chip \in [Ping!Hosts -> Seq(Ping!Frames)]
      /\ sending \in [Ping!Hosts -> Seq(Ping!Frames)]
  BY DEF Ping!Hosts, Ping!Pinger, Ping!Responder, Ping!TypeOK
<1>1. CASE UNCHANGED Ping!pvars
  BY <1>1 DEF Ping!pvars, Ping!Answers, Ping!Asks
<1>2. CASE \E arp, drain \in BOOLEAN : Ping!Ping(arp, drain)
  <2>1. PICK arp \in BOOLEAN, drain \in BOOLEAN : Ping!Ping(arp, drain)
    BY <1>2
  <2> DEFINE new == (IF arp THEN <<Ping!Frame("arpRequest", 0)>> ELSE <<>>)
                       \o <<Ping!Frame("echoRequest", ping + 1)>>
  <2>2. Ping!Asks(new)
    <3>1. CASE arp
      BY <3>1 DEF Ping!Asks, Ping!Frame
    <3>2. CASE ~arp
      BY <3>2 DEF Ping!Asks, Ping!Frame
    <3> QED BY <3>1, <3>2
  <2>3. /\ sending'["pinger"] = new /\ result'["pinger"] # "done"
        /\ UNCHANGED <<wire, chip, answered>>
    BY <1>0, <2>1 DEF Ping!Ping, Ping!Pinger, Ping!TypeOK
  <2> HIDE DEF new
  <2> QED BY <2>2, <2>3 DEF Ping!Pinger
<1>3. CASE Ping!Serve
  <2>1. result'["pinger"] = result["pinger"] /\ UNCHANGED <<wire, chip, sending, ping, answered>>
    BY <1>0, <1>3 DEF Ping!Serve, Ping!Responder, Ping!TypeOK
  <2> QED BY <2>1 DEF Ping!Pinger
<1>4. ASSUME NEW h \in Ping!Hosts, Ping!Skip(h), chip[h] # <<>>
      PROVE  \A o \in Ping!Hosts : Ping!Answers(chip'[o], answered)
  <2>1. Ping!Answers(Tail(chip[h]), answered)
    BY <1>0, <1>4, AnswersLater
  <2> QED BY <1>0, <1>4, <2>1 DEF Ping!Skip
<1>5. ASSUME NEW h \in Ping!Hosts, Ping!Transmitting(h) PROVE Ping!RepliesAreAnswered'
  <2>1. CASE Ping!Drain(h)
    <3>1. UNCHANGED <<wire, sending, result, ping, answered>>
      BY <2>1 DEF Ping!Drain
    <3>2. \A o \in Ping!Hosts : Ping!Answers(chip'[o], answered)
      BY <1>4, <1>5, <2>1 DEF Ping!Drain, Ping!Pending
    <3> QED BY <3>1, <3>2
  <2>2. CASE Ping!MakeRoom(h)
    <3>1. UNCHANGED <<wire, sending, result, ping, answered>>
      BY <2>2 DEF Ping!MakeRoom
    <3>2. \A o \in Ping!Hosts : Ping!Answers(chip'[o], answered)
      BY <1>4, <1>5, <2>2 DEF Ping!MakeRoom, Ping!Pending
    <3> QED BY <3>1, <3>2
  <2>3. CASE Ping!NotReady(h)
    <3>1. UNCHANGED <<wire, chip, ping, answered>>
          /\ (result'["pinger"] = "done" => result["pinger"] = "done")
          /\ sending'["pinger"] \in {sending["pinger"], <<>>}
      BY <1>0, <1>5, <2>3 DEF Ping!NotReady, Ping!TypeOK
    <3>2. Ping!Asks(<<>>)
      BY DEF Ping!Asks
    <3> QED BY <3>1, <3>2 DEF Ping!Pinger
  <2>4. CASE Ping!Transmit(h)
    <3>1. PICK f \in Ping!Frames : f = Head(sending[h])
      BY <1>5, <2>4, OldestIsFrame DEF Ping!Transmit, Ping!RoomIsCounted, Ping!HasRoom
    <3>2. PICK o \in Ping!Hosts : o = Ping!Peer(h)
      BY <1>5, PeerIsHost
    <3>3. /\ wire' = [wire EXCEPT ![o] = Append(@, f)]
          /\ answered' = (IF f.kind = "echoReply" THEN answered \union {f.ping} ELSE answered)
          /\ sending' = [sending EXCEPT ![h] = Tail(@)]
          /\ result' = (IF f.kind = "echoReply" THEN [result EXCEPT ![h] = "done"] ELSE result)
          /\ UNCHANGED <<chip, ping>>
      BY <2>4, <3>1, <3>2 DEF Ping!Transmit
    <3>4. answered \subseteq answered' /\ (f.kind = "echoReply" => f.ping \in answered')
      BY <3>3
    <3>5. \A p \in Ping!Hosts : Ping!Answers(wire'[p], answered')
      <4>1. Ping!Answers(Append(wire[o], f), answered')
        BY <1>0, <3>2, <3>4, AnswersOneMore
      <4>2. \A p \in Ping!Hosts : Ping!Answers(wire[p], answered')
        BY <3>4 DEF Ping!Answers
      <4> QED BY <1>0, <3>3, <4>1, <4>2
    <3>6. \A p \in Ping!Hosts : Ping!Answers(chip'[p], answered')
      BY <3>3, <3>4 DEF Ping!Answers
    <3>7. CASE h = "pinger"
      <4>1. sending[h] # <<>>
        BY <2>4, <1>5 DEF Ping!Transmit, Ping!RoomIsCounted, Ping!HasRoom
      <4>2. f = sending[h][1] /\ 1 \in 1 .. Len(sending[h])
            /\ \A i \in 1 .. Len(Tail(sending[h])) :
                 Tail(sending[h])[i] = sending[h][i + 1] /\ i + 1 \in 1 .. Len(sending[h])
        <5> HIDE DEF Ping!Frames
        <5> QED BY <1>0, <3>1, <4>1
      <4>3. f.kind # "echoReply" /\ Ping!Asks(Tail(sending[h]))
        BY <3>7, <4>2 DEF Ping!Asks, Ping!Pinger
      <4>4. sending'["pinger"] = Tail(sending[h]) /\ UNCHANGED <<result, answered>>
        BY <1>0, <3>3, <3>7, <4>3
      <4> QED BY <3>3, <3>5, <3>6, <4>3, <4>4 DEF Ping!Pinger
    <3>8. CASE h # "pinger"
      <4>1. sending'["pinger"] = sending["pinger"] /\ result'["pinger"] = result["pinger"]
        BY <1>0, <3>3, <3>8 DEF Ping!TypeOK
      <4> QED BY <3>3, <3>4, <3>5, <3>6, <4>1 DEF Ping!Pinger
    <3> QED BY <3>7, <3>8
  <2> QED BY <1>5, <2>1, <2>2, <2>3, <2>4 DEF Ping!Transmitting
<1>6. CASE Ping!PingerReads
  <2>1. \A o \in Ping!Hosts : Ping!Answers(chip'[o], answered)
    BY <1>0, <1>4, <1>6 DEF Ping!PingerReads, Ping!Pending, Ping!Pinger
  <2>2. Head(chip["pinger"]).kind = "echoReply" => Head(chip["pinger"]).ping \in answered
    BY <1>0, <1>6, AnswersLater DEF Ping!PingerReads, Ping!Pending, Ping!Pinger
  <2>3. UNCHANGED <<wire, sending, ping, answered>>
        /\ (UNCHANGED result \/ Ping!Matches(Ping!Oldest("pinger")))
    BY <1>6 DEF Ping!PingerReads, Ping!Pinger
  <2> QED BY <2>1, <2>2, <2>3 DEF Ping!Matches, Ping!Oldest
<1>7. CASE Ping!ResponderReads
  <2>1. \A o \in Ping!Hosts : Ping!Answers(chip'[o], answered)
    BY <1>0, <1>4, <1>7 DEF Ping!ResponderReads, Ping!Pending, Ping!Responder
  <2>2. UNCHANGED <<wire, result, ping, answered>>
    BY <1>7 DEF Ping!ResponderReads
  <2>3. sending'["pinger"] = sending["pinger"]
    BY <1>0, <1>7 DEF Ping!ResponderReads, Ping!Responder
  <2> QED BY <2>1, <2>2, <2>3 DEF Ping!Pinger
<1>8. ASSUME NEW h \in Ping!Hosts, Ping!Expire(h) PROVE Ping!RepliesAreAnswered'
  <2>1. UNCHANGED <<wire, chip, sending, ping, answered>>
        /\ (result'["pinger"] = "done" => result["pinger"] = "done")
    BY <1>0, <1>8 DEF Ping!Expire, Ping!TypeOK
  <2> QED BY <2>1 DEF Ping!Pinger
<1>9. ASSUME NEW h \in Ping!Hosts, Ping!Bridge(h) PROVE Ping!RepliesAreAnswered'
  <2>1. ASSUME NEW f \in Ping!Frames, Ping!Receive(h, f),
               f.kind = "echoReply" => f.ping \in answered
        PROVE  \A o \in Ping!Hosts : Ping!Answers(chip'[o], answered)
    <3> DEFINE held == Append(chip[h], f)
    <3>1. held \in Seq(Ping!Frames) /\ held # <<>>
      <4>1. PICK q \in Seq(Ping!Frames) : q = chip[h]
        BY <1>0, <1>9
      <4>2. Append(q, f) \in Seq(Ping!Frames) /\ Append(q, f) # <<>>
        BY <2>1, AppendProperties
      <4> QED BY <4>1, <4>2
    <3>2. chip' = [chip EXCEPT ![h] = IF Len(held) > Hold THEN Tail(held) ELSE held]
      BY <2>1 DEF Ping!Receive
    <3>3. Ping!Answers(held, answered)
      BY <1>0, <1>9, <2>1, AnswersOneMore
    <3> HIDE DEF held
    <3>4. Ping!Answers(Tail(held), answered)
      BY <3>1, <3>3, AnswersLater
    <3> QED BY <1>0, <1>9, <3>2, <3>3, <3>4
  <2>2. ASSUME wire[h] # <<>>
        PROVE  /\ Head(wire[h]) \in Ping!Frames
               /\ Head(wire[h]).kind = "echoReply" => Head(wire[h]).ping \in answered
               /\ wire' = [wire EXCEPT ![h] = Tail(@)] =>
                    \A o \in Ping!Hosts : Ping!Answers(wire'[o], answered)
    <3>1. Ping!Answers(Tail(wire[h]), answered)
          /\ (Head(wire[h]).kind = "echoReply" => Head(wire[h]).ping \in answered)
      BY <1>0, <1>9, <2>2, AnswersLater
    <3>2. Head(wire[h]) \in Ping!Frames
      BY <1>9, <2>2, OldestIsFrame
    <3> QED BY <1>0, <1>9, <3>1, <3>2
  <2>3. CASE Ping!Arrive(h)
    <3>1. wire[h] # <<>> /\ Ping!Receive(h, Head(wire[h])) /\ wire' = [wire EXCEPT ![h] = Tail(@)]
          /\ UNCHANGED <<sending, result, ping, answered>>
      BY <2>3 DEF Ping!Arrive
    <3> QED BY <2>1, <2>2, <3>1
  <2>4. CASE Ping!Broadcast(h)
    <3>1. Ping!Noise \in Ping!Frames /\ Ping!Noise.kind # "echoReply"
      BY DEF Ping!Noise, Ping!Frame, Ping!Frames
    <3>2. Ping!Receive(h, Ping!Noise) /\ UNCHANGED <<wire, sending, result, ping, answered>>
      BY <2>4 DEF Ping!Broadcast
    <3> QED BY <2>1, <3>1, <3>2
  <2>5. CASE Ping!Lose(h)
    <3>1. wire[h] # <<>> /\ wire' = [wire EXCEPT ![h] = Tail(@)]
          /\ UNCHANGED <<chip, sending, result, ping, answered>>
      BY <2>5 DEF Ping!Lose
    <3> QED BY <2>2, <3>1
  <2> QED BY <1>9, <2>3, <2>4, <2>5 DEF Ping!Bridge
<1> QED
  BY <1>0, <1>1, <1>2, <1>3, <1>5, <1>6, <1>7, <1>8, <1>9
     DEF Ping!PingNext, Ping!PingRoutine, Ping!ResponderRoutine, Ping!Pinger, Ping!Responder

(* A host whose routine, chip and result stay as they are keeps its room.    *)
AtHost(h) == <<at[h], result[h], sending[h], chip[h], tries[h], came[h]>>

LEMMA RoomElsewhere ==
    ASSUME Ping!RoomIsCounted, NEW h \in Ping!Hosts, Ping!HasRoom(h)',
           \A o \in Ping!Hosts : o # h => AtHost(o)' = AtHost(o)
    PROVE  Ping!RoomIsCounted'
BY DEF Ping!RoomIsCounted, Ping!HasRoom, AtHost

LEMMA RoomStep ==
    ASSUME Ping!TypeOK, Ping!RepliesAreAnswered, Ping!RoomIsCounted,
           [Ping!PingNext]_(Ping!pvars)
    PROVE  Ping!RoomIsCounted'
<1> USE ReceiveAssumption DEF Ping!BufferAssumption, Ping!Responder
<1>0. /\ "pinger" \in Ping!Hosts /\ "responder" \in Ping!Hosts /\ "pinger" # "responder"
      /\ chip \in [Ping!Hosts -> Seq(Ping!Frames)] /\ sending \in [Ping!Hosts -> Seq(Ping!Frames)]
      /\ at \in [Ping!Hosts -> {"idle", "drain", "transmit", "poll"}]
      /\ tries \in [Ping!Hosts -> 0 .. Tries] /\ came \in [Ping!Hosts -> Nat]
      /\ result \in [Ping!Hosts -> {"none", "done", "timeout", "notReady"}]
  BY DEF Ping!Hosts, Ping!Pinger, Ping!Responder, Ping!TypeOK
<1>1. ASSUME NEW h \in Ping!Hosts
      PROVE  /\ Len(chip[h]) \in 0 .. Hold /\ tries[h] \in 0 .. Tries /\ came[h] \in Nat
             /\ chip[h] # <<>> => Len(Tail(chip[h])) = Len(chip[h]) - 1 /\ Len(chip[h]) > 0
  BY <1>0, <1>1 DEF Ping!RoomIsCounted, Ping!HasRoom
<1>2. \A h \in Ping!Hosts : Ping!HasRoom(h)
  BY DEF Ping!RoomIsCounted
<1>3. CASE UNCHANGED Ping!pvars
  BY <1>3 DEF Ping!pvars, Ping!RoomIsCounted, Ping!HasRoom
<1>4. CASE \E arp, drain \in BOOLEAN : Ping!Ping(arp, drain)
  <2>1. PICK arp \in BOOLEAN, drain \in BOOLEAN : Ping!Ping(arp, drain)
    BY <1>4
  <2> DEFINE new == (IF arp THEN <<Ping!Frame("arpRequest", 0)>> ELSE <<>>)
                       \o <<Ping!Frame("echoRequest", ping + 1)>>
  <2>2. new # <<>>
    <3>1. CASE arp
      BY <3>1
    <3>2. CASE ~arp
      BY <3>2
    <3> QED BY <3>1, <3>2
  <2>3. PICK w \in {"drain", "transmit"} : Ping!BeginTransmit("pinger", w)
    BY <2>1 DEF Ping!Ping, Ping!Pinger
  <2>4. sending' = [sending EXCEPT !["pinger"] = new] /\ UNCHANGED chip
        /\ result' = [result EXCEPT !["pinger"] = "none"]
    BY <2>1 DEF Ping!Ping, Ping!Pinger
  <2> HIDE DEF new
  <2>5. Ping!HasRoom("pinger")'
    BY <1>0, <1>1, <2>2, <2>3, <2>4 DEF Ping!BeginTransmit, Ping!HasRoom
  <2>6. \A o \in Ping!Hosts : o # "pinger" => AtHost(o)' = AtHost(o)
    BY <1>0, <2>3, <2>4 DEF Ping!BeginTransmit, AtHost
  <2> QED BY <1>0, <2>5, <2>6, RoomElsewhere
<1>5. CASE Ping!Serve
  <2>1. /\ at' = [at EXCEPT !["responder"] = "poll"]
        /\ result' = [result EXCEPT !["responder"] = "none"]
        /\ UNCHANGED <<chip, sending, tries, came>>
    BY <1>5 DEF Ping!Serve, Ping!Responder
  <2>2. Ping!HasRoom("responder")'
    BY <1>0, <1>1, <1>2, <2>1 DEF Ping!HasRoom
  <2>3. \A o \in Ping!Hosts : o # "responder" => AtHost(o)' = AtHost(o)
    BY <1>0, <2>1 DEF AtHost
  <2> QED BY <1>0, <2>2, <2>3, RoomElsewhere
<1>6. ASSUME NEW h \in Ping!Hosts, Ping!Transmitting(h) PROVE Ping!RoomIsCounted'
  <2>1. CASE Ping!Drain(h) /\ Ping!Pending(h) /\ tries[h] > 0
    <3>1. /\ at[h] = "drain" /\ chip[h] # <<>> /\ chip' = [chip EXCEPT ![h] = Tail(@)]
          /\ tries' = [tries EXCEPT ![h] = @ - 1]
          /\ UNCHANGED <<at, came, sending, result>>
      BY <2>1 DEF Ping!Drain, Ping!Skip, Ping!Pending
    <3>2. Ping!HasRoom(h)'
      BY <1>0, <1>1, <1>2, <1>6, <3>1 DEF Ping!HasRoom
    <3>3. \A o \in Ping!Hosts : o # h => AtHost(o)' = AtHost(o)
      BY <1>0, <3>1 DEF AtHost
    <3> QED BY <1>6, <3>2, <3>3, RoomElsewhere
  <2>2. CASE Ping!Drain(h) /\ ~(Ping!Pending(h) /\ tries[h] > 0)
    <3>1. /\ at[h] = "drain" /\ at' = [at EXCEPT ![h] = "transmit"]
          /\ tries' = [tries EXCEPT ![h] = Tries] /\ came' = [came EXCEPT ![h] = 0]
          /\ UNCHANGED <<chip, sending, result>>
      BY <2>2, Zenon DEF Ping!Drain, Ping!BeginTransmit
    <3>2. Ping!HasRoom(h)'
      BY <1>0, <1>1, <1>2, <1>6, <3>1 DEF Ping!HasRoom
    <3>3. \A o \in Ping!Hosts : o # h => AtHost(o)' = AtHost(o)
      BY <1>0, <3>1 DEF AtHost
    <3> QED BY <1>6, <3>2, <3>3, RoomElsewhere
  <2>3. CASE Ping!MakeRoom(h)
    <3>1. /\ at[h] = "transmit" /\ tries[h] > 0
          /\ tries' = [tries EXCEPT ![h] = @ - 1]
          /\ \/ /\ chip[h] # <<>> /\ chip' = [chip EXCEPT ![h] = Tail(@)]
                /\ UNCHANGED came
             \/ came' = [came EXCEPT ![h] = @ + 1] /\ UNCHANGED chip
          /\ UNCHANGED <<at, sending, result>>
      BY <2>3 DEF Ping!MakeRoom, Ping!Skip, Ping!Pending
    <3>2. /\ at'[h] = at[h] /\ result'[h] = result[h] /\ sending'[h] = sending[h]
          /\ tries'[h] = tries[h] - 1
          /\ \/ Len(chip'[h]) = Len(chip[h]) - 1 /\ came'[h] = came[h]
             \/ Len(chip'[h]) = Len(chip[h]) /\ came'[h] = came[h] + 1
          /\ tries[h] - 1 \in Nat /\ Len(chip[h]) \in Nat
      <4>1. /\ at'[h] = at[h] /\ result'[h] = result[h] /\ sending'[h] = sending[h]
            /\ tries'[h] = tries[h] - 1
            /\ tries[h] - 1 \in Nat /\ Len(chip[h]) \in Nat
        BY <1>0, <1>1, <1>6, <3>1
      <4>2. CASE /\ chip[h] # <<>> /\ chip' = [chip EXCEPT ![h] = Tail(@)]
                 /\ UNCHANGED came
        BY <1>0, <1>1, <1>6, <4>1, <4>2
      <4>3. CASE came' = [came EXCEPT ![h] = @ + 1] /\ UNCHANGED chip
        BY <1>0, <1>6, <4>1, <4>3
      <4> QED BY <3>1, <4>2, <4>3
    <3>3. Ping!HasRoom(h)'
      <4>1. /\ result[h] = "none" /\ sending[h] # <<>> /\ (h = "responder" => Len(sending[h]) <= 1)
            /\ Len(chip[h]) <= Hold /\ Len(chip[h]) + Tries <= Hold + came[h] + tries[h]
        BY <1>2, <1>6, <3>1 DEF Ping!HasRoom
      <4>2. came[h] \in Nat /\ tries[h] \in Nat /\ Len(chip[h]) \in Nat
        BY <1>1, <1>6
      <4>3. Len(chip'[h]) <= Hold /\ Len(chip'[h]) + Tries <= Hold + came'[h] + tries'[h]
        <5>1. PICK l, c, t \in Nat : l = Len(chip[h]) /\ c = came[h] /\ t = tries[h]
          BY ONLY <4>2
        <5>2. /\ \/ Len(chip'[h]) = l - 1 /\ came'[h] = c
                 \/ Len(chip'[h]) = l /\ came'[h] = c + 1
              /\ tries'[h] = t - 1
              /\ l <= Hold /\ l + Tries <= Hold + c + t
          BY ONLY <3>2, <4>1, <5>1, Zenon
        <5>3. Hold \in Nat /\ Tries \in Nat
          BY ReceiveAssumption
        <5>4. /\ l - 1 <= Hold /\ (l - 1) + Tries <= Hold + c + (t - 1)
              /\ l + Tries <= Hold + (c + 1) + (t - 1)
          BY ONLY <5>2, <5>3, l \in Nat, c \in Nat, t \in Nat
        <5>5. CASE Len(chip'[h]) = l - 1 /\ came'[h] = c
          BY ONLY <5>2, <5>4, <5>5, Zenon
        <5>6. CASE Len(chip'[h]) = l /\ came'[h] = c + 1
          BY ONLY <5>2, <5>4, <5>6, Zenon
        <5> QED BY ONLY <5>2, <5>5, <5>6
      <4>4. /\ result'[h] = "none" /\ sending'[h] # <<>>
            /\ h = "responder" => Len(sending'[h]) <= 1
        BY <3>2, <4>1
      <4> QED BY <4>3, <4>4 DEF Ping!HasRoom
    <3>4. \A o \in Ping!Hosts : o # h => AtHost(o)' = AtHost(o)
      BY <1>0, <3>1 DEF AtHost
    <3> QED BY <1>6, <3>3, <3>4, RoomElsewhere
  <2>4. CASE Ping!NotReady(h)
    <3>1. /\ at[h] = "transmit" /\ tries[h] = 0
          /\ at' = [at EXCEPT ![h] = "idle"] /\ sending' = [sending EXCEPT ![h] = <<>>]
          /\ result' = [result EXCEPT ![h] = "notReady"] /\ UNCHANGED <<chip, tries, came>>
      BY <2>4 DEF Ping!NotReady
    <3>2. came[h] + Hold >= Tries
      BY <1>1, <1>2, <1>6, <3>1 DEF Ping!HasRoom
    <3>3. Ping!HasRoom(h)'
      BY <1>0, <1>1, <1>2, <1>6, <3>1, <3>2 DEF Ping!HasRoom
    <3>4. \A o \in Ping!Hosts : o # h => AtHost(o)' = AtHost(o)
      BY <1>0, <3>1 DEF AtHost
    <3> QED BY <1>6, <3>3, <3>4, RoomElsewhere
  <2>5. CASE Ping!Transmit(h)
    <3>1. PICK q \in Seq(Ping!Frames) : q = sending[h]
      BY <1>0, <1>6
    <3>2. at[h] = "transmit" /\ q # <<>>
      BY <1>2, <1>6, <2>5, <3>1 DEF Ping!Transmit, Ping!HasRoom
    <3>3. PICK f : f = Head(q)
      OBVIOUS
    <3>4. PICK more : more = Tail(q)
      OBVIOUS
    <3>5. PICK w \in {"transmit", "idle", "poll"} :
            /\ Ping!BeginTransmit(h, w)
            /\ w = IF more # <<>> THEN "transmit"
                   ELSE IF f.kind = "echoReply" THEN "idle" ELSE "poll"
      BY <2>5, <3>1, <3>3, <3>4 DEF Ping!Transmit
    <3>6. /\ result' = (IF f.kind = "echoReply" THEN [result EXCEPT ![h] = "done"] ELSE result)
          /\ sending' = [sending EXCEPT ![h] = more] /\ UNCHANGED chip
      BY <2>5, <3>1, <3>3, <3>4 DEF Ping!Transmit
    <3>7. h = "responder" => Len(more) <= 1 /\ more = <<>>
      <4>1. Len(q) \in Nat /\ (h = "responder" => Len(q) <= 1)
        BY <1>2, <1>6, <3>1 DEF Ping!HasRoom
      <4>2. Len(more) = Len(q) - 1 /\ more \in Seq(Ping!Frames)
        BY <3>1, <3>2, <3>4
      <4> QED BY <4>1, <4>2
    <3>8. f.kind = "echoReply" => h = "responder"
      <4>1. f = q[1] /\ 1 \in 1 .. Len(q)
        BY <3>1, <3>2, <3>3
      <4>2. h = "pinger" => f.kind # "echoReply"
        BY <3>1, <4>1 DEF Ping!RepliesAreAnswered, Ping!Asks, Ping!Pinger
      <4> QED BY <1>6, <4>2 DEF Ping!Hosts, Ping!Pinger
    <3>9. Ping!HasRoom(h)'
      <4>1. /\ at'[h] = w /\ tries'[h] = Tries /\ came'[h] = 0 /\ chip'[h] = chip[h]
            /\ sending'[h] = more
        BY <1>0, <1>6, <3>5, <3>6 DEF Ping!BeginTransmit
      <4>2. CASE f.kind = "echoReply"
        <5>1. w = "idle" /\ result'[h] = "done"
          BY <1>0, <1>6, <3>5, <3>6, <3>7, <3>8, <4>2
        <5> QED BY <1>1, <1>6, <3>7, <4>1, <5>1 DEF Ping!HasRoom
      <4>3. CASE f.kind # "echoReply"
        <5>1. result'[h] = "none" /\ (w = "transmit" => more # <<>>) /\ w # "drain"
          BY <1>2, <1>6, <3>2, <3>5, <3>6, <4>3 DEF Ping!HasRoom
        <5> QED BY <1>1, <1>6, <3>7, <4>1, <5>1 DEF Ping!HasRoom
      <4> QED BY <4>2, <4>3
    <3>10. \A o \in Ping!Hosts : o # h => AtHost(o)' = AtHost(o)
      BY <1>0, <3>5, <3>6 DEF Ping!BeginTransmit, AtHost
    <3> QED BY <1>6, <3>9, <3>10, RoomElsewhere
  <2> QED BY <1>6, <2>1, <2>2, <2>3, <2>4, <2>5 DEF Ping!Transmitting
<1>7. CASE Ping!PingerReads
  <2>1. /\ at["pinger"] = "poll" /\ chip["pinger"] # <<>>
        /\ chip' = [chip EXCEPT !["pinger"] = Tail(@)]
        /\ UNCHANGED <<sending, tries, came>>
        /\ \/ UNCHANGED <<at, result>>
           \/ /\ at' = [at EXCEPT !["pinger"] = "idle"]
              /\ result' = [result EXCEPT !["pinger"] = "done"]
    BY <1>7 DEF Ping!PingerReads, Ping!Skip, Ping!Pending, Ping!Pinger
  <2>2. Ping!HasRoom("pinger")'
    BY <1>0, <1>1, <1>2, <2>1 DEF Ping!HasRoom
  <2>3. \A o \in Ping!Hosts : o # "pinger" => AtHost(o)' = AtHost(o)
    BY <1>0, <2>1 DEF AtHost
  <2> QED BY <1>0, <2>2, <2>3, RoomElsewhere
<1>8. CASE Ping!ResponderReads
  <2>1. /\ at["responder"] = "poll" /\ chip["responder"] # <<>>
        /\ chip' = [chip EXCEPT !["responder"] = Tail(@)] /\ UNCHANGED result
    BY <1>8 DEF Ping!ResponderReads, Ping!Skip, Ping!Pending, Ping!Responder
  <2>2. PICK reply : /\ Len(reply) <= 1
                     /\ \/ UNCHANGED <<at, tries, came, sending>>
                        \/ /\ reply # <<>> /\ Ping!BeginTransmit("responder", "transmit")
                           /\ sending' = [sending EXCEPT !["responder"] = reply]
    <3>1. Head(chip["responder"]) \in Ping!Frames
      BY <1>0, <2>1, OldestIsFrame
    <3> QED BY <1>8, <3>1, AnswerIsFrames DEF Ping!ResponderReads, Ping!Oldest
  <2>3. Ping!HasRoom("responder")'
    BY <1>0, <1>1, <1>2, <2>1, <2>2 DEF Ping!BeginTransmit, Ping!HasRoom
  <2>4. \A o \in Ping!Hosts : o # "responder" => AtHost(o)' = AtHost(o)
    BY <1>0, <2>1, <2>2 DEF Ping!BeginTransmit, AtHost
  <2> QED BY <1>0, <2>3, <2>4, RoomElsewhere
<1>9. ASSUME NEW h \in Ping!Hosts, Ping!Expire(h) PROVE Ping!RoomIsCounted'
  <2>1. /\ at[h] = "poll" /\ at' = [at EXCEPT ![h] = "idle"]
        /\ result' = [result EXCEPT ![h] = "timeout"]
        /\ UNCHANGED <<chip, sending, tries, came>>
    BY <1>9 DEF Ping!Expire
  <2>2. Ping!HasRoom(h)'
    BY <1>0, <1>1, <1>2, <1>9, <2>1 DEF Ping!HasRoom
  <2>3. \A o \in Ping!Hosts : o # h => AtHost(o)' = AtHost(o)
    BY <1>0, <2>1 DEF AtHost
  <2> QED BY <1>9, <2>2, <2>3, RoomElsewhere
<1>10. ASSUME NEW h \in Ping!Hosts, Ping!Bridge(h) PROVE Ping!RoomIsCounted'
  <2>1. ASSUME NEW f \in Ping!Frames, Ping!Receive(h, f), UNCHANGED <<at, sending, tries, result>>
        PROVE  Ping!RoomIsCounted'
    <3>1. PICK q \in Seq(Ping!Frames) : q = chip[h]
      BY <1>0, <1>10
    <3>2. PICK held \in Seq(Ping!Frames) : held = Append(q, f)
      BY <2>1, AppendProperties
    <3>3. Len(held) = Len(q) + 1 /\ Len(Tail(held)) = Len(q) /\ Len(q) \in Nat
      <4> HIDE DEF Ping!Frames
      <4> QED BY <2>1, <3>2
    <3>4. PICK now1 : /\ now1 = IF Len(held) > Hold THEN Tail(held) ELSE held
      OBVIOUS
    <3>5. Len(now1) <= Hold /\ Len(now1) <= Len(q) + 1 /\ Len(now1) \in Nat
      BY <1>1, <1>10, <3>1, <3>3, <3>4
    <3>6. chip' = [chip EXCEPT ![h] = now1]
          /\ came' = (IF at[h] = "transmit" THEN [came EXCEPT ![h] = @ + 1] ELSE came)
      BY <2>1, <3>1, <3>2, <3>4 DEF Ping!Receive
    <3>7. Ping!HasRoom(h)'
      <4>1. /\ at'[h] = at[h] /\ result'[h] = result[h] /\ sending'[h] = sending[h]
            /\ tries'[h] = tries[h] /\ Len(chip'[h]) <= Hold
            /\ Len(chip'[h]) <= Len(chip[h]) + 1 /\ Len(chip'[h]) \in Nat
            /\ came'[h] = IF at[h] = "transmit" THEN came[h] + 1 ELSE came[h]
        BY <1>0, <1>10, <2>1, <3>1, <3>5, <3>6
      <4>2. at[h] # "idle" => result[h] # "notReady"
        BY <1>2, <1>10 DEF Ping!HasRoom
      <4>3. CASE at[h] = "transmit"
        <5>1. /\ result[h] = "none" /\ sending[h] # <<>>
              /\ h = "responder" => Len(sending[h]) <= 1
              /\ Len(chip[h]) + Tries <= Hold + came[h] + tries[h]
          BY <1>2, <1>10, <4>3 DEF Ping!HasRoom
        <5>2. came[h] \in Nat /\ tries[h] \in Nat /\ Len(chip[h]) \in Nat
          BY <1>1, <1>10
        <5>3. Len(chip'[h]) <= Hold /\ Len(chip'[h]) + Tries <= Hold + came'[h] + tries'[h]
          <6>1. came'[h] = came[h] + 1 /\ tries'[h] = tries[h]
            BY <4>1, <4>3
          <6>2. /\ Len(chip'[h]) \in Nat /\ Len(chip'[h]) <= Hold
                /\ Len(chip'[h]) <= Len(chip[h]) + 1
            BY <4>1
          <6>3. PICK a \in Nat, b \in Nat, c \in Nat, t \in Nat :
                  /\ a = Len(chip[h]) /\ b = Len(chip'[h]) /\ c = came[h] /\ t = tries[h]
            BY <5>2, <6>2
          <6>4. a + Tries <= Hold + c + t /\ b <= a + 1 /\ b <= Hold
            BY <5>1, <6>2, <6>3
          <6>5. b + Tries <= Hold + (c + 1) + t
            BY <6>4
          <6> QED BY <6>1, <6>3, <6>4, <6>5
        <5>4. /\ result'[h] = "none" /\ sending'[h] # <<>>
              /\ h = "responder" => Len(sending'[h]) <= 1
          BY <4>1, <5>1
        <5> QED BY <5>3, <5>4 DEF Ping!HasRoom
      <4>4. CASE at[h] # "transmit"
        BY <1>1, <1>2, <1>10, <4>1, <4>4 DEF Ping!HasRoom
      <4> QED BY <4>3, <4>4
    <3>8. \A o \in Ping!Hosts : o # h => AtHost(o)' = AtHost(o)
      BY <1>0, <2>1, <3>6 DEF AtHost
    <3> QED BY <1>10, <3>7, <3>8, RoomElsewhere
  <2>2. CASE Ping!Arrive(h)
    <3>1. Head(wire[h]) \in Ping!Frames
      BY <1>10, <2>2, OldestIsFrame DEF Ping!Arrive
    <3> QED BY <2>1, <2>2, <3>1 DEF Ping!Arrive
  <2>3. CASE Ping!Broadcast(h)
    <3>1. Ping!Noise \in Ping!Frames
      BY DEF Ping!Noise, Ping!Frame, Ping!Frames
    <3> QED BY <2>1, <2>3, <3>1 DEF Ping!Broadcast
  <2>4. CASE Ping!Lose(h)
    BY <2>4 DEF Ping!Lose, Ping!RoomIsCounted, Ping!HasRoom
  <2> QED BY <1>10, <2>2, <2>3, <2>4 DEF Ping!Bridge
<1> QED
  BY <1>0, <1>3, <1>4, <1>5, <1>6, <1>7, <1>8, <1>9, <1>10
     DEF Ping!PingNext, Ping!PingRoutine, Ping!ResponderRoutine, Ping!Pinger, Ping!Responder

(* A ping succeeds only when the responder has answered this very request,   *)
(* whatever replies to earlier ones are still on the way; and a transmit     *)
(* gives up only when more frames came during it than the skips make room    *)
(* for.                                                                      *)
THEOREM PingsAreSound == RunSpec => []PingIsSound
<1> DEFINE I == subject = "ping" => Ping!PingInv
<1>1. RunInit => I
  BY SubjectBegins, PingBegins
<1>2. I /\ [RunNext]_allvars => I'
  BY SubjectMoves, PingTypes, RepliesStep, RoomStep DEF Ping!PingInv
<1>3. I => PingIsSound
  BY DEF Ping!PingInv, Ping!RepliesAreAnswered, Ping!RoomIsCounted, Ping!HasRoom,
         Ping!NotStarved, PingIsSound
<1> QED BY <1>1, <1>2, <1>3, PTL DEF RunSpec

-----------------------------------------------------------------------------
(* A command (UciCommand), for any number of calls, blocks and time-outs.    *)

LEMMA PartIs ==
    ASSUME NEW n \in Nat, NEW a \in Nat, NEW b \in Nat, a <= b
    PROVE  /\ Uci!Part(n, a, b) \in Seq([call : Nat, byte : Nat])
           /\ Len(Uci!Part(n, a, b)) = b - a
           /\ \A i \in 1 .. b - a : Uci!Part(n, a, b)[i] = Uci!Byte(n, a + i)
<1> DEFINE s == Uci!Part(n, a, b)
           R == [call : Nat, byte : Nat]
<1>1. /\ s \in [1 .. b - a -> R] /\ b - a \in Nat
      /\ \A i \in 1 .. b - a : s[i] = Uci!Byte(n, a + i)
  BY DEF Uci!Part, Uci!Byte
<1>2. s \in Seq(R) /\ Len(s) = b - a
  <2> HIDE DEF R, s
  <2> QED BY <1>1
<1> QED BY <1>1, <1>2

(* The same, to be cited for other numbers.                                  *)
IsPart(s, n, a, b) ==
    /\ s \in Seq([call : Nat, byte : Nat]) /\ Len(s) = b - a
    /\ \A i \in 1 .. b - a : s[i] = Uci!Byte(n, a + i)

LEMMA PartIsPart ==
    ASSUME NEW n \in Nat, NEW a \in Nat, NEW b \in Nat, a <= b
    PROVE  IsPart(Uci!Part(n, a, b), n, a, b)
BY PartIs DEF IsPart

LEMMA PartType ==
    ASSUME NEW n \in Nat, NEW a \in Nat, NEW b \in Nat, a <= b
    PROVE  Uci!Part(n, a, b) \in Uci!SomeBytes /\ Len(Uci!Part(n, a, b)) = b - a
BY PartIs DEF Uci!SomeBytes

LEMMA PartGrows ==
    ASSUME NEW n \in Nat, NEW a \in Nat, NEW b \in Nat, a <= b
    PROVE  Append(Uci!Part(n, a, b), Uci!Byte(n, b + 1)) = Uci!Part(n, a, b + 1)
<1> DEFINE s == Uci!Part(n, a, b)
           R == [call : Nat, byte : Nat]
<1>0. b - a \in Nat /\ a <= b
  OBVIOUS
<1>1. /\ s \in Seq(R) /\ Len(s) = b - a
      /\ \A i \in 1 .. b - a : s[i] = Uci!Byte(n, a + i)
  BY <1>0, PartIs, ZenonT(30)
<1>2. Uci!Byte(n, b + 1) \in R
  BY DEF Uci!Byte
<1> PICK x \in R : x = Uci!Byte(n, b + 1)
  BY <1>2
<1> HIDE DEF R, s
<1>3. Append(s, x) = [i \in 1 .. b - a + 1 |-> IF i = b - a + 1 THEN x ELSE s[i]]
  BY <1>0, <1>1
<1>4. \A i \in 1 .. b - a + 1 :
        (IF i = b - a + 1 THEN x ELSE s[i]) = Uci!Byte(n, a + i)
  BY <1>0, <1>1
<1>5. b + 1 - a = b - a + 1
  OBVIOUS
<1>6. Append(s, x) = Uci!Part(n, a, b + 1)
  BY <1>3, <1>4, <1>5 DEF Uci!Part
<1> QED BY <1>6 DEF s

LEMMA PartNone ==
    ASSUME NEW n \in Nat, NEW a \in Nat
    PROVE  Uci!Part(n, a, a) = <<>>
<1> DEFINE s == Uci!Part(n, a, a)
           R == [call : Nat, byte : Nat]
<1>1. s \in Seq(R) /\ Len(s) = a - a /\ a - a = 0
  BY PartIs
<1> HIDE DEF R, s
<1>2. s = <<>>
  BY <1>1
<1> QED BY <1>2 DEF s

LEMMA PartShrinks ==
    ASSUME NEW n \in Nat, NEW a \in Nat, NEW b \in Nat, a < b
    PROVE  /\ Uci!Part(n, a, b) # <<>>
           /\ Head(Uci!Part(n, a, b)) = Uci!Byte(n, a + 1)
           /\ Tail(Uci!Part(n, a, b)) = Uci!Part(n, a + 1, b)
<1> DEFINE s == Uci!Part(n, a, b)
           t == Uci!Part(n, a + 1, b)
           R == [call : Nat, byte : Nat]
<1>0. b - a \in Nat /\ a <= b
  OBVIOUS
<1>1. /\ s \in Seq(R) /\ Len(s) = b - a
      /\ \A i \in 1 .. b - a : s[i] = Uci!Byte(n, a + i)
  BY <1>0, PartIs, ZenonT(30)
<1>2. PICK c \in Nat : c = a + 1 /\ c <= b
  OBVIOUS
<1>3. /\ t \in Seq(R) /\ Len(t) = b - c
      /\ \A i \in 1 .. b - c : t[i] = Uci!Byte(n, c + i)
  <2>1. IsPart(Uci!Part(n, c, b), n, c, b)
    BY ONLY n \in Nat, b \in Nat, <1>2, PartIsPart
  <2> QED BY <1>2, <2>1 DEF IsPart
<1> HIDE DEF R, s, t
<1>4. s # <<>> /\ Head(s) = Uci!Byte(n, a + 1)
  BY <1>0, <1>1
<1>5. /\ Tail(s) \in Seq(R) /\ Len(Tail(s)) = b - a - 1
      /\ \A i \in 1 .. b - a - 1 : Tail(s)[i] = s[i + 1]
  BY <1>0, <1>1, <1>4, HeadTailProperties
<1>6. /\ b - c = b - a - 1 /\ b - a - 1 \in Nat
      /\ \A i \in 1 .. b - a - 1 : s[i + 1] = Uci!Byte(n, c + i)
  BY <1>0, <1>1, <1>2
<1>7. \A i \in 1 .. b - a - 1 : Tail(s)[i] = t[i]
  BY <1>3, <1>5, <1>6
<1>8. Tail(s) = t
  BY <1>3, <1>5, <1>6, <1>7, SeqEqual
<1> QED BY <1>4, <1>8 DEF s, t

LEMMA BlockOfReply ==
    ASSUME NEW n \in Nat, NEW k \in Nat
    PROVE  /\ Uci!Blocks(n, k) \in Seq(Uci!SomeBytes) /\ Len(Uci!Blocks(n, k)) = k
           /\ \A i \in 1 .. k : Uci!Blocks(n, k)[i] = Uci!Part(n, 2 * (i - 1), 2 * i)
<1>1. ASSUME NEW i \in 1 .. k
      PROVE  /\ <<Uci!Byte(n, 2 * i - 1), Uci!Byte(n, 2 * i)>> = Uci!Part(n, 2 * (i - 1), 2 * i)
             /\ Uci!Part(n, 2 * (i - 1), 2 * i) \in Uci!SomeBytes
  <2>1. /\ 2 * (i - 1) \in Nat /\ 2 * i \in Nat /\ 2 * i - 2 * (i - 1) = 2
        /\ 2 * (i - 1) + 1 = 2 * i - 1 /\ 2 * (i - 1) + 2 = 2 * i
    OBVIOUS
  <2>2. Uci!Part(n, 2 * (i - 1), 2 * i) \in Uci!SomeBytes
    <3> PICK a \in Nat, b \in Nat : a = 2 * (i - 1) /\ b = 2 * i
      BY <2>1
    <3>1. a <= b
      BY <2>1
    <3>2. Uci!Part(n, a, b) \in Uci!SomeBytes
      BY <3>1, PartType
    <3> QED BY <3>2
  <2>3. Uci!Part(n, 2 * (i - 1), 2 * i) = [j \in 1 .. 2 |-> Uci!Byte(n, 2 * (i - 1) + j)]
    BY <2>1 DEF Uci!Part
  <2> QED BY <2>1, <2>2, <2>3
<1> QED BY <1>1 DEF Uci!Blocks

LEMMA UciBegins == Uci!UciInit => Uci!UciInv
<1> SUFFICES ASSUME Uci!UciInit PROVE Uci!UciInv
  OBVIOUS
<1> USE DEF Uci!UciInit
<1>1. Uci!TypeOK
  <2>1. <<>> \in Uci!SomeBytes /\ Uci!Status(0) \in Uci!SomeBytes
    <3> PICK x \in [call : Nat, byte : Nat] : x = Uci!Byte(0, 0)
      BY DEF Uci!Byte
    <3>1. <<>> \in Seq([call : Nat, byte : Nat]) /\ <<x>> \in Seq([call : Nat, byte : Nat])
      OBVIOUS
    <3> QED BY <3>1 DEF Uci!SomeBytes, Uci!Status
  <2>2. Uci!IdleIface \in Uci!Ifaces
    BY <2>1 DEF Uci!IdleIface, Uci!Ifaces
  <2>3. [Uci!IdleIface EXCEPT !.state = "last"] \in Uci!Ifaces
    BY <2>2 DEF Uci!Ifaces
  <2>4. [[Uci!IdleIface EXCEPT !.state = "last"] EXCEPT !.stat = Uci!Status(0)] \in Uci!Ifaces
    BY <2>1, <2>3 DEF Uci!Ifaces
  <2>5. iface \in Uci!Ifaces
    BY <2>2, <2>4
  <2>6. call \in Uci!Calls
    BY DEF Uci!Calls
  <2>7. fw \in Uci!Works /\ fw.call = 0
    BY DEF Uci!Works
  <2> QED BY <2>1, <2>5, <2>6, <2>7 DEF Uci!TypeOK
<1>2. routine = "none" /\ ~sentinel /\ ~typed /\ ~failed /\ host = "ready"
  OBVIOUS
<1>4. Uci!OneRoutine /\ Uci!InStep
  BY <1>2 DEF Uci!OneRoutine, Uci!InStep
<1>3. answer.how = "none"
  BY DEF Uci!NoAnswer
<1> QED BY <1>1, <1>2, <1>3, <1>4 DEF Uci!UciInv, Uci!ReplyIsOwn

LEMMA UciFields ==
    ASSUME Uci!TypeOK
    PROVE  /\ iface.state \in {"idle", "busy", "last", "more"} /\ iface.cmd \in Nat
           /\ iface.err = FALSE /\ iface.data \in Uci!SomeBytes /\ iface.stat \in Uci!SomeBytes
           /\ call.n \in Nat /\ call.sent \in Nat
           /\ fw.call \in Nat /\ fw.left \in Seq(Uci!SomeBytes) /\ Len(fw.left) \in Nat
           /\ resp \in Uci!SomeBytes /\ Len(resp) \in Nat
           /\ \A n \in Nat : Uci!Status(n) \in Uci!SomeBytes /\ Uci!Status(n) # <<>>
           /\ <<>> \in Uci!SomeBytes
<1> USE DEF Uci!TypeOK
<1>1. /\ iface.state \in {"idle", "busy", "last", "more"} /\ iface.cmd \in Nat
      /\ iface.err = FALSE /\ iface.data \in Uci!SomeBytes /\ iface.stat \in Uci!SomeBytes
  BY DEF Uci!Ifaces
<1>2. call.n \in Nat /\ call.sent \in Nat
  BY DEF Uci!Calls
<1>3. fw.call \in Nat /\ fw.left \in Seq(Uci!SomeBytes) /\ Len(fw.left) \in Nat
  BY DEF Uci!Works
<1>4. resp \in Uci!SomeBytes /\ Len(resp) \in Nat
  BY DEF Uci!SomeBytes
<1>5. ASSUME NEW n \in Nat PROVE Uci!Status(n) \in Uci!SomeBytes /\ Uci!Status(n) # <<>>
  <2>1. Uci!Byte(n, 0) \in [call : Nat, byte : Nat]
    BY DEF Uci!Byte
  <2> QED BY <2>1 DEF Uci!Status, Uci!SomeBytes
<1>6. <<>> \in Uci!SomeBytes
  BY DEF Uci!SomeBytes
<1> QED BY <1>1, <1>2, <1>3, <1>4, <1>5, <1>6

LEMMA UciHostStep ==
    ASSUME Uci!UciInv, Uci!Host \/ Uci!Sys \/ UNCHANGED Uci!uvars
    PROVE  Uci!UciInv'
<1> USE DEF Uci!UciInv
<1> USE UciFields
<1>1. CASE Uci!Begin
  <2>1. iface' \in Uci!Ifaces
    BY <1>1 DEF Uci!Begin, Uci!TypeOK, Uci!Ifaces
  <2>2. call' \in Uci!Calls /\ call'.n > 0
    BY <1>1 DEF Uci!Begin, Uci!TypeOK, Uci!Calls, Uci!Request
  <2>3. Uci!TypeOK'
    BY <1>1, <2>1, <2>2 DEF Uci!Begin, Uci!TypeOK
  <2>4. Uci!OneRoutine' /\ Uci!InStep' /\ Uci!ReplyIsOwn' /\ host' # "ready"
    BY <1>1, <2>2 DEF Uci!Begin, Uci!OneRoutine, Uci!InStep, Uci!ReplyIsOwn
  <2> QED BY <2>3, <2>4
<1>2. CASE Uci!Type
  <2>1. Uci!TypeOK'
    BY <1>2 DEF Uci!Type, Uci!TypeOK
  <2>2. Uci!OneRoutine' /\ Uci!InStep' /\ Uci!ReplyIsOwn' /\ host' # "ready"
    BY <1>2 DEF Uci!Type, Uci!OneRoutine, Uci!InStep, Uci!ReplyIsOwn
  <2> QED BY <2>1, <2>2
<1>3. CASE Uci!Return
  <2>1. Uci!TypeOK' /\ Uci!InStep'
    BY <1>3 DEF Uci!Return, Uci!TypeOK, Uci!InStep, Uci!Clean, Uci!Idle, Uci!Whole,
                Uci!Answering, Uci!Taking, Uci!Delivered
  <2>2. /\ answer'.how = "reply" /\ answer'.data = resp /\ answer'.status = stat
        /\ Uci!Clean' /\ Uci!Whole /\ stat = Uci!Status(call.n)
    BY <1>3 DEF Uci!Return, Uci!InStep, Uci!OneRoutine, Uci!Collected, Uci!Clean, Uci!Idle
  <2>3. Uci!OneRoutine' /\ Uci!ReplyIsOwn'
    BY <1>3, <2>2 DEF Uci!Return, Uci!OneRoutine, Uci!ReplyIsOwn, Uci!Whole
  <2> QED BY <2>1, <2>2, <2>3
<1> DEFINE Still == UNCHANGED <<call, sentinel, failed, resp, stat, iface, fw>>
<1>4. ASSUME Still, UNCHANGED routine PROVE Uci!InStep' /\ (Uci!Clean => Uci!Clean')
  BY <1>4 DEF Uci!InStep, Uci!Clean, Uci!Idle, Uci!Whole, Uci!Answering, Uci!Taking,
              Uci!Delivered
<1>5. CASE Uci!TimeOut
  <2>1. Still /\ UNCHANGED routine
    BY <1>5 DEF Uci!TimeOut
  <2>2. Uci!TypeOK' /\ Uci!OneRoutine' /\ Uci!ReplyIsOwn' /\ host' # "ready"
    BY <1>5 DEF Uci!TimeOut, Uci!TypeOK, Uci!OneRoutine, Uci!ReplyIsOwn
  <2> QED BY <1>4, <2>1, <2>2
<1>6. CASE Uci!ResetCpu
  <2>1. Still
    BY <1>6 DEF Uci!ResetCpu
  <2>2. answer'.how = "timeout"
    BY <1>6 DEF Uci!ResetCpu, Uci!NoAnswer
  <2>3. Uci!TypeOK' /\ Uci!OneRoutine'
    BY <1>6 DEF Uci!ResetCpu, Uci!TypeOK, Uci!OneRoutine
  <2>4. Uci!ReplyIsOwn'
    BY <1>6, <2>2, <2>3 DEF Uci!ReplyIsOwn, Uci!ResetCpu
  <2>5. Uci!InStep'
    <3>1. CASE UNCHANGED routine
      BY <1>4, <2>1, <3>1
    <3>2. CASE routine' = "none"
      BY <2>1, <3>2 DEF Uci!InStep, Uci!Clean, Uci!Idle, Uci!Whole
    <3> QED BY <1>6, <3>1, <3>2 DEF Uci!ResetCpu
  <2> QED BY <2>2, <2>3, <2>4, <2>5
<1>7. CASE Uci!Sys
  <2>1. Uci!TypeOK' /\ Uci!OneRoutine'
    BY <1>7 DEF Uci!Sys, Uci!TypeOK, Uci!OneRoutine
  <2>2. Uci!InStep' /\ host' # "ready" /\ Uci!ReplyIsOwn'
    BY <1>7 DEF Uci!Sys, Uci!OneRoutine, Uci!InStep, Uci!ReplyIsOwn
  <2> QED BY <2>1, <2>2
<1>8. CASE UNCHANGED Uci!uvars
  <2>1. Still /\ UNCHANGED routine
    BY <1>8 DEF Uci!uvars
  <2>2. Uci!TypeOK' /\ Uci!OneRoutine' /\ Uci!ReplyIsOwn'
    BY <1>8 DEF Uci!uvars, Uci!TypeOK, Uci!OneRoutine, Uci!ReplyIsOwn
  <2> QED BY <1>4, <1>8, <2>1, <2>2 DEF Uci!uvars
<1> QED BY <1>1, <1>2, <1>3, <1>5, <1>6, <1>7, <1>8 DEF Uci!Host

\* The first half of the routine, up to the push.
LEMMA UciSendStep ==
    ASSUME Uci!UciInv, Uci!Abort \/ Uci!WaitIdle \/ Uci!WriteCommand \/ Uci!Push
    PROVE  Uci!UciInv'
<1> USE UciFields DEF Uci!UciInv
<1>1. /\ Uci!Unmoved /\ routine # "none" /\ routine' # "none"
      /\ UNCHANGED <<sentinel, failed, resp, stat>>
      /\ routine' \in {"aborting", "idle", "write", "push", "pushed"}
  BY DEF Uci!Abort, Uci!WaitIdle, Uci!WriteCommand, Uci!Push
<1>2. Uci!OneRoutine' /\ host' # "ready" /\ ~sentinel'
  BY <1>1 DEF Uci!OneRoutine, Uci!Unmoved
<1>3. Uci!ReplyIsOwn'
  BY <1>1, <1>2 DEF Uci!ReplyIsOwn, Uci!OneRoutine, Uci!Unmoved
<1>4. iface' \in Uci!Ifaces
  <2>1. CASE Uci!Abort
    BY <2>1 DEF Uci!Abort, Uci!TypeOK, Uci!Ifaces
  <2>2. CASE Uci!WaitIdle \/ Uci!WriteCommand
    BY <2>2 DEF Uci!WaitIdle, Uci!WriteCommand, Uci!TypeOK
  <2>3. CASE Uci!Push
    <3>1. Uci!Idle
      BY <2>3 DEF Uci!Push, Uci!InStep, Uci!Clean
    <3>2. iface' = [iface EXCEPT !.state = "busy", !.cmd = call.n]
      BY <2>3, <3>1 DEF Uci!Push
    <3> QED BY <3>2 DEF Uci!TypeOK, Uci!Ifaces
  <2> QED BY <2>1, <2>2, <2>3
<1>5. Uci!TypeOK'
  BY <1>1, <1>4 DEF Uci!TypeOK, Uci!Unmoved
<1>6. CASE Uci!Abort /\ routine = "abort"
  <2>1. iface'.abort /\ routine' = "aborting"
    BY <1>6 DEF Uci!Abort, Uci!TypeOK, Uci!Ifaces
  <2>2. Uci!InStep'
    BY <1>2, <2>1 DEF Uci!InStep
  <2> QED BY <1>2, <1>3, <1>5, <2>2
<1>7. CASE (Uci!Abort /\ routine = "aborting") \/ Uci!WaitIdle \/ Uci!WriteCommand
  <2>1. Uci!Clean /\ UNCHANGED <<iface, fw>> /\ routine' \in {"idle", "write", "push"}
    BY <1>7 DEF Uci!Abort, Uci!WaitIdle, Uci!WriteCommand, Uci!InStep, Uci!Unmoved
  <2>2. Uci!Clean'
    BY <2>1 DEF Uci!Clean, Uci!Idle
  <2>3. Uci!InStep'
    BY <1>2, <2>1, <2>2 DEF Uci!InStep
  <2> QED BY <1>2, <1>3, <1>5, <2>3
<1>8. CASE Uci!Push
  <2>1. Uci!Clean
    BY <1>8 DEF Uci!Push, Uci!InStep
  <2>2. iface' = [iface EXCEPT !.state = "busy", !.cmd = call.n]
    BY <1>8, <2>1 DEF Uci!Push, Uci!Clean
  <2>3. /\ iface'.cmd = call.n /\ iface'.state = "busy" /\ iface'.abort = iface.abort
        /\ iface'.data = iface.data /\ iface'.stat = iface.stat
    BY <2>2 DEF Uci!TypeOK, Uci!Ifaces
  <2>4. routine' = "pushed" /\ UNCHANGED <<call, fw>>
    BY <1>8 DEF Uci!Push, Uci!Unmoved
  <2>5. Uci!InStep'
    BY <1>2, <2>1, <2>3, <2>4 DEF Uci!InStep, Uci!Clean
  <2> QED BY <1>2, <1>3, <1>5, <2>5
<1> QED BY <1>6, <1>7, <1>8 DEF Uci!Abort

\* The second half touches neither the host nor what is still to come.
LEMMA UciTakeFrame ==
    ASSUME Uci!UciInv, Uci!CheckError \/ Uci!TakeReply
    PROVE  /\ UNCHANGED <<host, call, typed, answer, fw>> /\ call.n > 0
           /\ Uci!OneRoutine' /\ Uci!ReplyIsOwn' /\ host' # "ready"
           /\ (iface' \in Uci!Ifaces /\ resp' \in Uci!SomeBytes /\ stat' \in Uci!SomeBytes)
                => Uci!TypeOK'
<1> USE UciFields DEF Uci!UciInv
<1>1. /\ Uci!Unmoved /\ routine # "none"
      /\ failed' = (failed \/ iface.err) \/ UNCHANGED failed
      /\ sentinel' = sentinel \/ routine' = "none"
      /\ routine' \in {"none", "data", "next", "more", "status", "acknowledge", "done"}
  BY DEF Uci!CheckError, Uci!TakeReply, Uci!DrainData, Uci!NextBlock, Uci!DrainStatus,
         Uci!Acknowledge
<1>5. ~failed'
  <2>1. ~failed /\ iface.err = FALSE
    BY DEF Uci!OneRoutine
  <2> QED BY ONLY <1>1, <2>1, Zenon
<1>2. Uci!OneRoutine' /\ host' # "ready" /\ call.n > 0
  BY <1>1, <1>5 DEF Uci!OneRoutine, Uci!Unmoved
<1>3. Uci!ReplyIsOwn'
  BY <1>1, <1>2 DEF Uci!ReplyIsOwn, Uci!OneRoutine, Uci!Unmoved
<1>4. (iface' \in Uci!Ifaces /\ resp' \in Uci!SomeBytes /\ stat' \in Uci!SomeBytes)
        => Uci!TypeOK'
  BY <1>1 DEF Uci!TypeOK, Uci!Unmoved
<1> QED BY <1>1, <1>2, <1>3, <1>4 DEF Uci!Unmoved

\* Answering does not depend on the routine or on what it has read.
LEMMA UciAnswerKeeps ==
    ASSUME Uci!TypeOK, Uci!Answering, UNCHANGED <<call, fw>>,
           iface'.cmd = iface.cmd, iface'.abort = iface.abort, iface'.state = iface.state,
           iface.state # "busy", iface'.stat = iface.stat \/ iface.state = "last"
    PROVE  Uci!Answering'
BY DEF Uci!Answering, Uci!Delivered

LEMMA UciCheckStep ==
    ASSUME Uci!UciInv, Uci!CheckError
    PROVE  Uci!UciInv'
<1>0. /\ Uci!TypeOK /\ Uci!OneRoutine /\ Uci!InStep
      /\ call.n \in Nat /\ call.sent \in Nat /\ Len(fw.left) \in Nat
      /\ <<>> \in Uci!SomeBytes
  BY UciFields DEF Uci!UciInv
<1>f. /\ UNCHANGED <<host, call, typed, answer, fw>> /\ host' # "ready"
      /\ Uci!OneRoutine' /\ Uci!ReplyIsOwn'
      /\ (iface' \in Uci!Ifaces /\ resp' \in Uci!SomeBytes /\ stat' \in Uci!SomeBytes)
           => Uci!TypeOK'
  BY UciTakeFrame DEF Uci!TakeReply
<1>q. Uci!TypeOK' /\ Uci!InStep' => Uci!UciInv'
  BY <1>f DEF Uci!UciInv
<1>1. /\ routine = "pushed" /\ routine' = "data" /\ resp' = <<>> /\ stat' = <<>>
      /\ UNCHANGED sentinel
  BY DEF Uci!CheckError
<1>2. iface' = iface
  <2>1. iface' = [iface EXCEPT !.err = FALSE]
    BY DEF Uci!CheckError
  <2> QED BY <1>0, <2>1 DEF Uci!TypeOK, Uci!Ifaces
<1>3. iface.state \in {"last", "more"}
  BY <1>0, UciFields DEF Uci!CheckError, Uci!Replied
<1>4. /\ Uci!Answering /\ iface.data = Uci!Part(call.n, 0, 2 * Uci!Delivered)
      /\ iface.state = "last" => iface.stat = Uci!Status(call.n)
  BY <1>0, <1>1, <1>3 DEF Uci!InStep
<1>5. Uci!Answering' /\ Uci!Delivered' = Uci!Delivered /\ Uci!Delivered \in Nat
  BY <1>0, <1>2, <1>3, <1>4, <1>f, UciAnswerKeeps DEF Uci!Delivered, Uci!Answering
<1>6. Len(resp') = 0 /\ resp' = Uci!Part(call.n, 0, 0)
  <2>1. Uci!Part(call.n, 0, 0) = <<>>
    BY <1>0, PartNone
  <2> QED BY <1>1, <2>1
<1>7. Uci!Taking'
  BY <1>1, <1>2, <1>4, <1>5, <1>6, <1>f DEF Uci!Taking
<1>8. ~sentinel'
  BY <1>0, <1>1 DEF Uci!OneRoutine
<1>9. Uci!InStep'
  BY <1>1, <1>2, <1>3, <1>7, <1>8 DEF Uci!InStep
<1>10. Uci!TypeOK'
  BY <1>0, <1>1, <1>2, <1>f DEF Uci!TypeOK
<1> QED BY <1>9, <1>10, <1>q

LEMMA UciDrainStep ==
    ASSUME Uci!UciInv, Uci!DrainData
    PROVE  Uci!UciInv'
<1>0. /\ Uci!TypeOK /\ Uci!OneRoutine /\ Uci!InStep
      /\ call.n \in Nat /\ call.sent \in Nat /\ Len(fw.left) \in Nat
      /\ <<>> \in Uci!SomeBytes
  BY UciFields DEF Uci!UciInv
<1>f. /\ UNCHANGED <<host, call, typed, answer, fw>> /\ host' # "ready"
      /\ Uci!OneRoutine' /\ Uci!ReplyIsOwn'
      /\ (iface' \in Uci!Ifaces /\ resp' \in Uci!SomeBytes /\ stat' \in Uci!SomeBytes)
           => Uci!TypeOK'
  BY UciTakeFrame DEF Uci!TakeReply
<1>q. Uci!TypeOK' /\ Uci!InStep' => Uci!UciInv'
  BY <1>f DEF Uci!UciInv
<1>1. /\ routine = "data" /\ UNCHANGED <<sentinel, failed, stat>> /\ Uci!Unmoved
  BY DEF Uci!DrainData
<1>2. Uci!Taking /\ Uci!Answering /\ iface.state \in {"last", "more"} /\ ~iface.abort
  BY <1>0, <1>1, UciFields DEF Uci!InStep, Uci!Taking, Uci!Answering
<1>3. ~sentinel'
  BY <1>0, <1>1 DEF Uci!OneRoutine
<1>4. PICK r \in Nat, e \in Nat : r = Len(resp) /\ e = 2 * Uci!Delivered
  <2>1. Uci!Delivered \in Nat
    BY <1>0, <1>2 DEF Uci!Delivered, Uci!Answering
  <2>2. 2 * Uci!Delivered \in Nat /\ Len(resp) \in Nat
    BY <1>0, <2>1, UciFields
  <2> QED BY <2>2
<1>5. /\ r <= e /\ resp = Uci!Part(call.n, 0, r) /\ iface.data = Uci!Part(call.n, r, e)
      /\ stat = <<>> /\ (iface.state = "last" => iface.stat = Uci!Status(call.n))
  BY <1>2, <1>4 DEF Uci!Taking
<1>6. CASE iface.data # <<>>
  <2>1. /\ resp' = Append(resp, Head(iface.data)) /\ routine' = "data"
        /\ iface' = [iface EXCEPT !.data = Tail(@)]
    BY <1>1, <1>2, <1>6 DEF Uci!DrainData
  <2>2. r < e
    <3>1. r # e
      BY <1>0, <1>5, <1>6, PartNone
    <3> QED BY <1>5, <3>1
  <2>3. /\ Head(iface.data) = Uci!Byte(call.n, r + 1)
        /\ Tail(iface.data) = Uci!Part(call.n, r + 1, e)
        /\ resp' = Uci!Part(call.n, 0, r + 1)
    <3>1. /\ Head(iface.data) = Uci!Byte(call.n, r + 1)
          /\ Tail(iface.data) = Uci!Part(call.n, r + 1, e)
      <4>1. call.n \in Nat /\ iface.data = Uci!Part(call.n, r, e)
        BY <1>0, <1>5
      <4>2. /\ Head(Uci!Part(call.n, r, e)) = Uci!Byte(call.n, r + 1)
            /\ Tail(Uci!Part(call.n, r, e)) = Uci!Part(call.n, r + 1, e)
        BY ONLY <2>2, <4>1, PartShrinks, r \in Nat, e \in Nat, Zenon
      <4> QED BY ONLY <4>1, <4>2
    <3>2. Append(resp, Uci!Byte(call.n, r + 1)) = Uci!Part(call.n, 0, r + 1)
      <4>1. 0 \in Nat /\ 0 <= r
        OBVIOUS
      <4> QED BY <1>0, <1>5, <4>1, PartGrows
    <3> QED BY <2>1, <3>1, <3>2
  <2>4. /\ Uci!Part(call.n, r + 1, e) \in Uci!SomeBytes
        /\ Uci!Part(call.n, 0, r + 1) \in Uci!SomeBytes
        /\ Len(Uci!Part(call.n, 0, r + 1)) = r + 1
    <3>1. r + 1 \in Nat /\ r + 1 <= e /\ 0 <= r + 1 /\ r + 1 - 0 = r + 1
      BY <2>2
    <3>2. Uci!Part(call.n, r + 1, e) \in Uci!SomeBytes
      BY <1>0, <3>1, PartType
    <3>3. PICK z \in Nat, q \in Nat : z = 0 /\ q = r + 1
      BY <3>1
    <3>4. z <= q /\ q - z = q
      BY <3>3
    <3>5. Uci!Part(call.n, z, q) \in Uci!SomeBytes /\ Len(Uci!Part(call.n, z, q)) = q - z
      BY <1>0, <3>4, PartType
    <3> QED BY <3>2, <3>3, <3>4, <3>5
  <2>5. /\ iface' \in Uci!Ifaces /\ iface'.data = Uci!Part(call.n, r + 1, e)
        /\ iface'.state = iface.state /\ iface'.cmd = iface.cmd
        /\ iface'.abort = iface.abort /\ iface'.stat = iface.stat
    BY <1>0, <2>1, <2>3, <2>4 DEF Uci!TypeOK, Uci!Ifaces
  <2>6. Uci!Answering' /\ Uci!Delivered' = Uci!Delivered
    BY <1>0, <1>2, <1>f, <2>5, UciAnswerKeeps DEF Uci!Delivered
  <2>7. Uci!Taking'
    <3>1. Len(resp') = r + 1 /\ r + 1 <= e
      BY <2>2, <2>3, <2>4
    <3>2. stat' = <<>> /\ call' = call
      BY <1>1, <1>5, <1>f
    <3> QED BY <1>4, <1>5, <2>3, <2>5, <2>6, <3>1, <3>2 DEF Uci!Taking
  <2>8. Uci!InStep'
    BY <1>2, <1>3, <2>1, <2>5, <2>7 DEF Uci!InStep
  <2>9. Uci!TypeOK'
    BY <1>0, <1>1, <1>f, <2>3, <2>4, <2>5 DEF Uci!TypeOK
  <2> QED BY <1>q, <2>8, <2>9
<1>7. CASE iface.data = <<>>
  <2>1. /\ UNCHANGED <<resp, iface, stat>>
        /\ routine' = IF call.long /\ iface.state = "more" THEN "next" ELSE "status"
    BY <1>1, <1>7 DEF Uci!DrainData
  <2>2. r = e
    <3>1. ~(r < e)
      <4>1. call.n \in Nat /\ Uci!Part(call.n, r, e) = <<>>
        BY <1>0, <1>5, <1>7
      <4> QED BY ONLY <4>1, PartShrinks, r \in Nat, e \in Nat, Zenon
    <3> QED BY <1>5, <3>1
  <2>3. /\ Uci!Answering' /\ Uci!Delivered' = Uci!Delivered
    BY <1>0, <1>2, <1>f, <2>1, UciAnswerKeeps DEF Uci!Delivered
  <2>4. Uci!TypeOK'
    BY <1>0, <1>1, <1>f, <2>1 DEF Uci!TypeOK
  <2>5. CASE call.long /\ iface.state = "more"
    <3>1. Uci!Taking'
      BY <1>1, <1>2, <1>f, <2>1, <2>3 DEF Uci!Taking
    <3>2. Uci!InStep'
      BY <1>3, <1>7, <2>1, <2>5, <3>1 DEF Uci!InStep
    <3> QED BY <1>q, <2>4, <3>2
  <2>6. CASE ~(call.long /\ iface.state = "more")
    <3>1. iface.state = "last"
      <4>1. ASSUME iface.state = "more" PROVE FALSE
        <5>1. call.sent = 1 /\ fw.left # <<>> /\ call.sent - Len(fw.left) > 0
          BY <1>2, <2>6, <4>1 DEF Uci!Answering, Uci!Delivered
        <5>2. Len(fw.left) > 0
          BY <5>1, UciFields, <1>0
        <5> QED BY <1>0, <5>1, <5>2
      <4> QED BY <1>2, <4>1
    <3>2. Len(fw.left) = 0 /\ e = 2 * call.sent
      BY <1>0, <1>2, <1>4, <3>1 DEF Uci!Answering, Uci!Delivered
    <3>3. Uci!Whole'
      BY <1>1, <1>5, <1>f, <2>1, <2>2, <3>2 DEF Uci!Whole
    <3>4. Uci!InStep'
      BY <1>1, <1>3, <1>5, <1>f, <2>1, <2>3, <2>6, <3>1, <3>3 DEF Uci!InStep
    <3> QED BY <1>q, <2>4, <3>4
  <2> QED BY <2>5, <2>6
<1> QED BY <1>6, <1>7

LEMMA UciNextStep ==
    ASSUME Uci!UciInv, Uci!NextBlock
    PROVE  Uci!UciInv'
<1>0. Uci!TypeOK /\ Uci!OneRoutine /\ Uci!InStep /\ <<>> \in Uci!SomeBytes
  BY UciFields DEF Uci!UciInv
<1>f. /\ UNCHANGED <<host, call, typed, answer, fw>> /\ host' # "ready"
      /\ Uci!OneRoutine' /\ Uci!ReplyIsOwn'
      /\ (iface' \in Uci!Ifaces /\ resp' \in Uci!SomeBytes /\ stat' \in Uci!SomeBytes)
           => Uci!TypeOK'
  BY UciTakeFrame DEF Uci!TakeReply
<1>q. Uci!TypeOK' /\ Uci!InStep' => Uci!UciInv'
  BY <1>f DEF Uci!UciInv
<1>1. UNCHANGED <<sentinel, failed, resp, stat>> /\ routine \in {"next", "more"}
  BY DEF Uci!NextBlock
<1>2. Uci!Taking /\ Uci!Answering
  BY <1>0, <1>1 DEF Uci!InStep, Uci!Taking
<1>3. ~sentinel'
  BY <1>0, <1>1 DEF Uci!OneRoutine
<1>4. CASE routine = "next"
  <2>1. iface.state = "more" /\ iface.data = <<>> /\ routine' = "more"
    BY <1>0, <1>4 DEF Uci!InStep, Uci!NextBlock
  <2>2. iface' = [iface EXCEPT !.data = <<>>, !.stat = <<>>, !.state = "busy"]
    BY <1>4, <2>1 DEF Uci!NextBlock, Uci!Accepted
  <2>3. /\ iface' \in Uci!Ifaces /\ iface'.state = "busy" /\ iface'.data = <<>>
        /\ iface'.stat = <<>> /\ iface'.cmd = iface.cmd /\ iface'.abort = iface.abort
    BY <1>0, <2>2 DEF Uci!TypeOK, Uci!Ifaces
  <2>4. Uci!Answering' /\ Uci!Delivered' = Uci!Delivered
    BY <1>2, <1>f, <2>1, <2>3 DEF Uci!Answering, Uci!Delivered
  <2>5. Uci!Taking'
    BY <1>1, <1>2, <1>f, <2>1, <2>3, <2>4 DEF Uci!Taking
  <2>6. Uci!InStep'
    BY <1>3, <2>1, <2>5 DEF Uci!InStep
  <2>7. Uci!TypeOK'
    BY <1>0, <1>1, <1>f, <2>3 DEF Uci!TypeOK
  <2> QED BY <1>q, <2>6, <2>7
<1>5. CASE routine = "more"
  <2>1. iface.state \in {"last", "more"} /\ routine' = "data" /\ iface' = iface
    BY <1>5 DEF Uci!NextBlock
  <2>2. Uci!Answering' /\ Uci!Delivered' = Uci!Delivered
    BY <1>0, <1>2, <1>f, <2>1, UciAnswerKeeps DEF Uci!Delivered
  <2>3. Uci!Taking'
    BY <1>1, <1>2, <1>f, <2>1, <2>2 DEF Uci!Taking
  <2>4. Uci!InStep'
    BY <1>3, <2>1, <2>3 DEF Uci!InStep
  <2>5. Uci!TypeOK'
    BY <1>0, <1>1, <1>f, <2>1 DEF Uci!TypeOK
  <2> QED BY <1>q, <2>4, <2>5
<1> QED BY <1>1, <1>4, <1>5

LEMMA UciStatusStep ==
    ASSUME Uci!UciInv, Uci!DrainStatus
    PROVE  Uci!UciInv'
<1>0. /\ Uci!TypeOK /\ Uci!OneRoutine /\ Uci!InStep /\ <<>> \in Uci!SomeBytes
      /\ call.n \in Nat /\ Uci!Status(call.n) \in Uci!SomeBytes /\ Uci!Status(call.n) # <<>>
  BY UciFields DEF Uci!UciInv
<1>f. /\ UNCHANGED <<host, call, typed, answer, fw>> /\ host' # "ready"
      /\ Uci!OneRoutine' /\ Uci!ReplyIsOwn'
      /\ (iface' \in Uci!Ifaces /\ resp' \in Uci!SomeBytes /\ stat' \in Uci!SomeBytes)
           => Uci!TypeOK'
  BY UciTakeFrame DEF Uci!TakeReply
<1>q. Uci!TypeOK' /\ Uci!InStep' => Uci!UciInv'
  BY <1>f DEF Uci!UciInv
<1>1. UNCHANGED <<sentinel, failed, resp>> /\ routine = "status"
  BY DEF Uci!DrainStatus
<1>2. /\ Uci!Answering /\ iface.state = "last" /\ Uci!Whole /\ ~iface.abort
      /\ \/ stat = <<>> /\ iface.stat = Uci!Status(call.n)
         \/ stat = Uci!Status(call.n) /\ iface.stat = <<>>
  BY <1>0, <1>1 DEF Uci!InStep, Uci!Answering
<1>3. ~sentinel' /\ Uci!Whole'
  BY <1>0, <1>1, <1>2, <1>f DEF Uci!OneRoutine, Uci!Whole
<1>4. CASE stat = <<>> /\ iface.stat = Uci!Status(call.n)
  <2>1. /\ stat' = Append(stat, Head(iface.stat)) /\ routine' = "status"
        /\ iface' = [iface EXCEPT !.stat = Tail(@)]
    BY <1>0, <1>1, <1>2, <1>4 DEF Uci!DrainStatus
  <2>2. stat' = Uci!Status(call.n) /\ Tail(iface.stat) = <<>>
    BY <1>4, <2>1 DEF Uci!Status
  <2>3. /\ iface' \in Uci!Ifaces /\ iface'.stat = <<>> /\ iface'.state = iface.state
        /\ iface'.cmd = iface.cmd /\ iface'.abort = iface.abort
    BY <1>0, <2>1, <2>2 DEF Uci!TypeOK, Uci!Ifaces
  <2>4. Uci!Answering'
    BY <1>0, <1>2, <1>f, <2>3, UciAnswerKeeps
  <2>5. Uci!InStep'
    BY <1>2, <1>3, <1>f, <2>1, <2>2, <2>3, <2>4 DEF Uci!InStep
  <2>6. Uci!TypeOK'
    BY <1>0, <1>1, <1>f, <2>2, <2>3 DEF Uci!TypeOK
  <2> QED BY <1>q, <2>5, <2>6
<1>5. CASE stat = Uci!Status(call.n) /\ iface.stat = <<>>
  <2>1. routine' = "acknowledge" /\ UNCHANGED <<stat, iface>>
    BY <1>1, <1>5 DEF Uci!DrainStatus
  <2>2. Uci!Answering'
    BY <1>0, <1>2, <1>f, <2>1, UciAnswerKeeps
  <2>3. Uci!InStep'
    BY <1>2, <1>3, <1>5, <1>f, <2>1, <2>2 DEF Uci!InStep
  <2>4. Uci!TypeOK'
    BY <1>0, <1>1, <1>f, <2>1 DEF Uci!TypeOK
  <2> QED BY <1>q, <2>3, <2>4
<1> QED BY <1>2, <1>4, <1>5

LEMMA UciAcknowledgeStep ==
    ASSUME Uci!UciInv, Uci!Acknowledge
    PROVE  Uci!UciInv'
<1>0. Uci!TypeOK /\ Uci!OneRoutine /\ Uci!InStep /\ <<>> \in Uci!SomeBytes
  BY UciFields DEF Uci!UciInv
<1>f. /\ UNCHANGED <<host, call, typed, answer, fw>> /\ host' # "ready"
      /\ Uci!OneRoutine' /\ Uci!ReplyIsOwn'
      /\ (iface' \in Uci!Ifaces /\ resp' \in Uci!SomeBytes /\ stat' \in Uci!SomeBytes)
           => Uci!TypeOK'
  BY UciTakeFrame DEF Uci!TakeReply
<1>q. Uci!TypeOK' /\ Uci!InStep' => Uci!UciInv'
  BY <1>f DEF Uci!UciInv
<1>1. UNCHANGED <<failed, resp, stat>> /\ routine \in {"acknowledge", "done"}
  BY DEF Uci!Acknowledge
<1>2. CASE routine = "acknowledge"
  <2>1. /\ Uci!Answering /\ iface.state = "last" /\ Uci!Whole /\ stat = Uci!Status(call.n)
    BY <1>0, <1>2 DEF Uci!InStep
  <2>2. /\ iface' = [iface EXCEPT !.data = <<>>, !.stat = <<>>, !.state = "idle"]
        /\ routine' = "done" /\ sentinel' = sentinel
    BY <1>2, <2>1 DEF Uci!Acknowledge, Uci!Accepted
  <2>3. /\ iface' \in Uci!Ifaces /\ iface'.state = "idle" /\ iface'.data = <<>>
        /\ iface'.stat = <<>> /\ iface'.cmd = iface.cmd /\ iface'.abort = iface.abort
    BY <1>0, <2>2 DEF Uci!TypeOK, Uci!Ifaces
  <2>4. Uci!Clean' /\ Uci!Whole'
    BY <1>1, <1>f, <2>1, <2>3 DEF Uci!Clean, Uci!Idle, Uci!Answering, Uci!Whole
  <2>5. Uci!InStep'
    BY <1>1, <1>f, <2>1, <2>2, <2>4 DEF Uci!InStep
  <2>6. Uci!TypeOK'
    BY <1>0, <1>1, <1>f, <2>3 DEF Uci!TypeOK
  <2> QED BY <1>q, <2>5, <2>6
<1>3. CASE routine = "done"
  <2>1. routine' = "none" /\ iface' = iface
    BY <1>3 DEF Uci!Acknowledge
  <2>2. Uci!Clean /\ Uci!Whole /\ stat = Uci!Status(call.n)
    BY <1>0, <1>3 DEF Uci!InStep
  <2>3. Uci!Clean' /\ Uci!Whole' /\ stat' = Uci!Status(call'.n)
    BY <1>1, <1>f, <2>1, <2>2 DEF Uci!Clean, Uci!Idle, Uci!Whole
  <2>4. Uci!InStep'
    BY <1>f, <2>1, <2>3 DEF Uci!InStep
  <2>5. Uci!TypeOK'
    BY <1>0, <1>1, <1>f, <2>1 DEF Uci!TypeOK
  <2> QED BY <1>q, <2>4, <2>5
<1> QED BY <1>1, <1>2, <1>3

\* The firmware moves only while the interface is not clean.
LEMMA UciFirmwareFrame ==
    ASSUME Uci!UciInv, Uci!Firmware
    PROVE  /\ UNCHANGED <<host, sentinel, failed, typed, routine, resp, stat, answer>>
           /\ Uci!OneRoutine' /\ Uci!ReplyIsOwn' /\ call'.n = call.n
           /\ ~sentinel /\ ~(host' = "ready" /\ answer'.how = "reply")
           /\ routine \notin {"idle", "write", "push", "done"}
           /\ routine = "aborting" => iface.abort
           /\ (/\ iface' \in Uci!Ifaces /\ call' \in Uci!Calls /\ fw' \in Uci!Works
               /\ fw'.call # 0 => fw'.left # <<>>) => Uci!TypeOK'
<1>1. UNCHANGED <<host, sentinel, failed, typed, routine, resp, stat, answer>>
  BY DEF Uci!Firmware, Uci!Accept, Uci!Reply, Uci!ServeAbort
<1>2. ~Uci!Clean
  BY DEF Uci!Firmware, Uci!Accept, Uci!Reply, Uci!ServeAbort, Uci!Clean, Uci!Idle
<1>3. call'.n = call.n
  <2>1. Uci!TypeOK
    BY DEF Uci!UciInv
  <2>2. CASE Uci!Accept
    <3>1. call' = call \/ \E k \in Nat : call' = [call EXCEPT !.sent = k]
      <4>1. MaxBlocks \in Nat
        BY CommandAssumption DEF Uci!BlocksAssumption
      <4> QED BY <2>2, <4>1 DEF Uci!Accept
    <3> QED BY <2>1, <3>1 DEF Uci!TypeOK, Uci!Calls
  <2>3. CASE Uci!Reply \/ Uci!ServeAbort
    BY <2>3 DEF Uci!Reply, Uci!ServeAbort
  <2> QED BY <2>2, <2>3 DEF Uci!Firmware
<1>4. /\ ~sentinel /\ routine \notin {"idle", "write", "push", "done"}
      /\ routine = "aborting" => iface.abort
      /\ ~(host = "ready" /\ answer.how = "reply")
  BY <1>2 DEF Uci!UciInv, Uci!InStep
<1>5. Uci!OneRoutine'
  BY <1>1, <1>3 DEF Uci!UciInv, Uci!OneRoutine
<1>6. Uci!ReplyIsOwn'
  BY <1>1, <1>4 DEF Uci!UciInv, Uci!ReplyIsOwn
<1>7. (/\ iface' \in Uci!Ifaces /\ call' \in Uci!Calls /\ fw' \in Uci!Works
       /\ fw'.call # 0 => fw'.left # <<>>) => Uci!TypeOK'
  BY <1>1 DEF Uci!UciInv, Uci!TypeOK
<1> QED BY <1>1, <1>3, <1>4, <1>5, <1>6, <1>7

LEMMA UciAcceptStep ==
    ASSUME Uci!UciInv, Uci!Accept
    PROVE  Uci!UciInv'
<1>0. /\ Uci!TypeOK /\ Uci!InStep /\ call.n \in Nat /\ iface.cmd \in Nat
      /\ <<>> \in Uci!SomeBytes
  BY UciFields DEF Uci!UciInv
<1>f. /\ UNCHANGED <<host, sentinel, failed, typed, routine, resp, stat, answer>>
      /\ Uci!OneRoutine' /\ Uci!ReplyIsOwn' /\ call'.n = call.n
      /\ ~sentinel /\ ~(host' = "ready" /\ answer'.how = "reply")
      /\ routine \notin {"idle", "write", "push", "done"}
      /\ routine = "aborting" => iface.abort
      /\ (/\ iface' \in Uci!Ifaces /\ call' \in Uci!Calls /\ fw' \in Uci!Works
          /\ fw'.call # 0 => fw'.left # <<>>) => Uci!TypeOK'
  BY UciFirmwareFrame DEF Uci!Firmware
<1>q. Uci!TypeOK' /\ Uci!InStep' => Uci!UciInv'
  BY <1>f DEF Uci!UciInv
<1>1. /\ fw.call = 0 /\ iface.cmd # 0 /\ iface' = [iface EXCEPT !.cmd = 0]
  BY DEF Uci!Accept
<1>2. PICK k \in Nat :
        /\ k > 0 /\ (call.long \/ k = 1)
        /\ fw' = [call |-> iface.cmd, left |-> Uci!Blocks(iface.cmd, k)]
        /\ call' = IF iface.cmd = call.n THEN [call EXCEPT !.sent = k] ELSE call
  <2>1. MaxBlocks \in Nat
    BY CommandAssumption DEF Uci!BlocksAssumption
  <2>2. PICK k \in 1 .. (IF call.long THEN MaxBlocks ELSE 1) :
          /\ fw' = [call |-> iface.cmd, left |-> Uci!Blocks(iface.cmd, k)]
          /\ call' = IF iface.cmd = call.n THEN [call EXCEPT !.sent = k] ELSE call
    BY DEF Uci!Accept
  <2>3. k \in Nat /\ k > 0 /\ (call.long \/ k = 1)
    BY <2>1, <2>2
  <2> QED BY <2>2, <2>3
<1>3. PICK blocks \in Seq(Uci!SomeBytes) :
        /\ blocks = Uci!Blocks(iface.cmd, k) /\ Len(blocks) = k
        /\ \A i \in 1 .. k : blocks[i] = Uci!Part(iface.cmd, 2 * (i - 1), 2 * i)
  BY <1>0, BlockOfReply
<1>4. fw'.call = iface.cmd /\ fw'.left = blocks /\ fw' \in Uci!Works /\ blocks # <<>>
  BY <1>0, <1>2, <1>3 DEF Uci!Works
<1>5. call' \in Uci!Calls /\ call'.long = call.long
  BY <1>0, <1>2 DEF Uci!TypeOK, Uci!Calls
<1>6. /\ iface' \in Uci!Ifaces /\ iface'.cmd = 0 /\ iface'.state = iface.state
      /\ iface'.abort = iface.abort /\ iface'.data = iface.data /\ iface'.stat = iface.stat
  BY <1>0, <1>1 DEF Uci!TypeOK, Uci!Ifaces
<1>7. Uci!TypeOK'
  BY <1>4, <1>5, <1>6, <1>f
<1>8. ~Uci!Answering
  BY <1>1 DEF Uci!Answering
<1>9. CASE routine = "pushed"
  <2>1. /\ iface.cmd = call.n /\ iface.state = "busy" /\ ~iface.abort
        /\ iface.data = <<>> /\ iface.stat = <<>>
    BY <1>0, <1>8, <1>9 DEF Uci!InStep
  <2>2. call'.sent = k
    BY <1>0, <1>2, <2>1 DEF Uci!TypeOK, Uci!Calls
  <2>3. Uci!Delivered' = 0
    BY <1>2, <1>3, <1>4, <2>2 DEF Uci!Delivered
  <2>4. \A i \in 1 .. Len(blocks) :
          blocks[i] = Uci!Part(call'.n, 2 * (Uci!Delivered' + i - 1), 2 * (Uci!Delivered' + i))
    <3>1. ASSUME NEW i \in 1 .. Len(blocks)
          PROVE  0 + i - 1 = i - 1 /\ 0 + i = i
      BY <1>3
    <3> QED BY <1>3, <1>f, <2>1, <2>3, <3>1
  <2>5. Uci!Answering'
    <3>1. /\ iface'.cmd = 0 /\ ~iface'.abort /\ iface'.state = "busy"
          /\ iface'.data = <<>> /\ iface'.stat = <<>>
          /\ fw'.call = call'.n /\ fw'.left # <<>>
      BY <1>4, <1>6, <1>f, <2>1
    <3>2. call'.sent > 0 /\ (call'.long \/ call'.sent = 1)
      BY <1>2, <1>5, <2>2
    <3>3. Len(fw'.left) <= call'.sent
      BY <1>3, <1>4, <2>2
    <3>4. \A i \in 1 .. Len(fw'.left) :
            fw'.left[i] = Uci!Part(call'.n, 2 * (Uci!Delivered' + i - 1),
                                   2 * (Uci!Delivered' + i))
      BY <1>4, <2>4, Zenon
    <3> QED BY ONLY <3>1, <3>2, <3>3, <3>4 DEF Uci!Answering
  <2>6. iface'.data = Uci!Part(call'.n, 0, 2 * Uci!Delivered')
    <3>1. Uci!Part(call.n, 0, 0) = <<>> /\ 2 * 0 = 0
      BY <1>0, PartNone
    <3> QED BY <1>6, <1>f, <2>1, <2>3, <3>1
  <2>7. Uci!InStep'
    BY <1>6, <1>9, <1>f, <2>1, <2>5, <2>6 DEF Uci!InStep
  <2> QED BY <1>q, <1>7, <2>7
<1>10. CASE routine # "pushed"
  <2>1. routine \in {"none", "abort", "aborting"}
    BY <1>0, <1>8, <1>10, <1>f DEF Uci!InStep, Uci!Taking, Uci!TypeOK
  <2>2. Uci!InStep'
    BY <1>6, <1>f, <2>1 DEF Uci!InStep
  <2> QED BY <1>q, <1>7, <2>2
<1> QED BY <1>9, <1>10

\* The next block of the answer is the next two bytes of it.
LEMMA UciBlockComes ==
    ASSUME Uci!TypeOK, Uci!Answering, Uci!Reply
    PROVE  /\ Uci!Answering' /\ Uci!Delivered \in Nat
           /\ Uci!Delivered' = Uci!Delivered + 1
           /\ iface'.data = Uci!Part(call.n, 2 * Uci!Delivered, 2 * Uci!Delivered')
           /\ iface'.state \in {"last", "more"}
           /\ iface'.state = "last" => iface'.stat = Uci!Status(call.n)
<1>0. /\ call.n \in Nat /\ call.sent \in Nat /\ fw.left \in Seq(Uci!SomeBytes)
      /\ Len(fw.left) \in Nat /\ iface \in Uci!Ifaces /\ fw \in Uci!Works
  BY UciFields DEF Uci!TypeOK
<1>1. PICK left \in Seq(Uci!SomeBytes), m \in Nat, d \in Nat :
        left = fw.left /\ m = Len(left) /\ d = Uci!Delivered /\ d + m = call.sent
  <2>1. Uci!Delivered \in Nat /\ Uci!Delivered + Len(fw.left) = call.sent
    BY <1>0 DEF Uci!Answering, Uci!Delivered
  <2> QED BY <1>0, <2>1
<1>2. /\ fw.call = call.n /\ left # <<>> /\ m > 0 /\ iface.stat = <<>>
      /\ iface.cmd = 0 /\ ~iface.abort /\ call' = call
      /\ call.sent > 0 /\ (call.long \/ call.sent = 1)
      /\ \A i \in 1 .. m : left[i] = Uci!Part(call.n, 2 * (d + i - 1), 2 * (d + i))
  BY <1>1 DEF Uci!Answering, Uci!Reply
<1>3. Head(left) = Uci!Part(call.n, 2 * d, 2 * (d + 1)) /\ Head(left) \in Uci!SomeBytes
  <2>1. Head(left) = left[1] /\ 1 \in 1 .. m /\ d + 1 - 1 = d
    BY <1>1, <1>2
  <2> QED BY <1>1, <1>2, <2>1
<1>4. iface' = [iface EXCEPT !.data = Head(left), !.state = IF m = 1 THEN "last" ELSE "more",
                             !.stat = IF m = 1 THEN Uci!Status(fw.call) ELSE @]
  BY <1>1 DEF Uci!Reply
<1>5. /\ iface'.data = Head(left) /\ iface'.cmd = 0 /\ ~iface'.abort
      /\ iface'.state = IF m = 1 THEN "last" ELSE "more"
      /\ iface'.stat = IF m = 1 THEN Uci!Status(call.n) ELSE <<>>
  BY <1>0, <1>2, <1>4 DEF Uci!Ifaces
<1>6. CASE m = 1
  <2>1. fw'.call = 0 /\ fw'.left = <<>>
    BY <1>1, <1>6 DEF Uci!Reply
  <2>2. Uci!Delivered' = d + 1
    BY <1>1, <1>2, <1>6, <2>1 DEF Uci!Delivered
  <2>3. Uci!Answering'
    <3>1. /\ iface'.cmd = 0 /\ ~iface'.abort /\ iface'.state = "last"
          /\ call'.sent > 0 /\ (call'.long \/ call'.sent = 1)
      BY <1>2, <1>5, <1>6
    <3>2. Len(fw'.left) = 0 /\ Len(fw'.left) <= call'.sent
      BY <1>0, <1>2, <2>1
    <3> QED BY ONLY <2>1, <3>1, <3>2 DEF Uci!Answering
  <2> QED BY <1>1, <1>3, <1>5, <1>6, <2>2, <2>3
<1>7. CASE m # 1
  <2>1. fw' = [fw EXCEPT !.left = Tail(left)]
    BY <1>1, <1>7 DEF Uci!Reply
  <2>2. PICK t \in Seq(Uci!SomeBytes) :
          /\ t = Tail(left) /\ Len(t) = m - 1 /\ \A i \in 1 .. m - 1 : t[i] = left[i + 1]
    <3>1. /\ Tail(left) \in Seq(Uci!SomeBytes) /\ Len(Tail(left)) = Len(left) - 1
          /\ \A i \in 1 .. Len(Tail(left)) : Tail(left)[i] = left[i + 1]
      BY ONLY <1>2, HeadTailProperties, left \in Seq(Uci!SomeBytes)
    <3> QED BY <1>1, <3>1
  <2>3. fw'.call = call.n /\ fw'.left = t /\ t # <<>>
    BY <1>0, <1>2, <1>7, <2>1, <2>2 DEF Uci!Works
  <2>4. Uci!Delivered' = d + 1
    BY <1>0, <1>1, <1>2, <2>2, <2>3 DEF Uci!Delivered
  <2>5. \A i \in 1 .. m - 1 :
          t[i] = Uci!Part(call.n, 2 * (d + 1 + i - 1), 2 * (d + 1 + i))
    <3>1. ASSUME NEW i \in 1 .. m - 1
          PROVE  /\ i + 1 \in 1 .. m /\ d + (i + 1) - 1 = d + 1 + i - 1
                 /\ d + (i + 1) = d + 1 + i
      OBVIOUS
    <3> QED BY <1>2, <2>2, <3>1
  <2>6. Uci!Answering'
    BY <1>0, <1>1, <1>2, <1>5, <1>7, <2>2, <2>3, <2>4, <2>5 DEF Uci!Answering
  <2> QED BY <1>1, <1>3, <1>5, <1>7, <2>4, <2>6
<1> QED BY <1>6, <1>7

LEMMA UciReplyStep ==
    ASSUME Uci!UciInv, Uci!Reply
    PROVE  Uci!UciInv'
<1>0. /\ Uci!TypeOK /\ Uci!InStep /\ call.n \in Nat /\ Len(resp) \in Nat
      /\ fw.left \in Seq(Uci!SomeBytes) /\ iface \in Uci!Ifaces /\ fw \in Uci!Works
      /\ \A n \in Nat : Uci!Status(n) \in Uci!SomeBytes
      /\ <<>> \in Uci!SomeBytes
  BY UciFields DEF Uci!UciInv, Uci!TypeOK
<1>f. /\ UNCHANGED <<host, sentinel, failed, typed, routine, resp, stat, answer>>
      /\ Uci!OneRoutine' /\ Uci!ReplyIsOwn' /\ call'.n = call.n
      /\ ~sentinel /\ ~(host' = "ready" /\ answer'.how = "reply")
      /\ routine \notin {"idle", "write", "push", "done"}
      /\ routine = "aborting" => iface.abort
      /\ (/\ iface' \in Uci!Ifaces /\ call' \in Uci!Calls /\ fw' \in Uci!Works
          /\ fw'.call # 0 => fw'.left # <<>>) => Uci!TypeOK'
  BY UciFirmwareFrame DEF Uci!Firmware
<1>q. Uci!TypeOK' /\ Uci!InStep' => Uci!UciInv'
  BY <1>f DEF Uci!UciInv
<1>1. /\ fw.call # 0 /\ iface.state = "busy" /\ iface.cmd = 0 /\ call' = call
      /\ fw.left # <<>>
  BY <1>0 DEF Uci!Reply, Uci!TypeOK
<1>2. Uci!TypeOK'
  <2>1. Head(fw.left) \in Uci!SomeBytes /\ Tail(fw.left) \in Seq(Uci!SomeBytes)
    BY <1>0, <1>1
  <2>2. iface' \in Uci!Ifaces /\ iface'.abort = iface.abort
    <3>1. CASE Len(fw.left) = 1
      <4>1. iface' = [iface EXCEPT !.data = Head(fw.left), !.state = "last",
                                   !.stat = Uci!Status(fw.call)]
        BY <3>1 DEF Uci!Reply
      <4>2. Uci!Status(fw.call) \in Uci!SomeBytes
        BY <1>0 DEF Uci!Works
      <4> QED BY <1>0, <2>1, <4>1, <4>2 DEF Uci!Ifaces
    <3>2. CASE Len(fw.left) # 1
      <4>1. iface' = [iface EXCEPT !.data = Head(fw.left), !.state = "more", !.stat = @]
        BY <3>2 DEF Uci!Reply
      <4> QED BY <1>0, <2>1, <4>1 DEF Uci!Ifaces
    <3> QED BY <3>1, <3>2
  <2>3. fw' \in Uci!Works /\ (fw'.call # 0 => fw'.left # <<>>)
    <3>1. CASE Len(fw.left) = 1
      <4>1. fw' = [call |-> 0, left |-> <<>>]
        BY <3>1 DEF Uci!Reply
      <4> QED BY <4>1 DEF Uci!Works
    <3>2. CASE Len(fw.left) # 1
      <4>1. fw' = [fw EXCEPT !.left = Tail(fw.left)]
        BY <3>2 DEF Uci!Reply
      <4>2. Tail(fw.left) # <<>>
        <5>1. Len(Tail(fw.left)) = Len(fw.left) - 1
          BY ONLY <1>0, <1>1, HeadTailProperties
        <5>2. PICK m \in Nat : m = Len(fw.left)
          BY ONLY <1>0
        <5>3. Len(Tail(fw.left)) # 0
          BY ONLY <3>2, <5>1, <5>2
        <5>4. Len(<<>>) = 0
          OBVIOUS
        <5> QED BY ONLY <5>3, <5>4
      <4> QED BY <1>0, <2>1, <4>1, <4>2 DEF Uci!Works
    <3> QED BY <3>1, <3>2
  <2>4. call' \in Uci!Calls
    BY <1>0, <1>1 DEF Uci!TypeOK
  <2> QED BY <1>f, <2>2, <2>3, <2>4
<1>3. CASE routine = "pushed"
  <2>1. Uci!Answering /\ iface.data = Uci!Part(call.n, 0, 2 * Uci!Delivered)
    BY <1>0, <1>1, <1>3 DEF Uci!InStep
  <2>2. /\ Uci!Answering' /\ Uci!Delivered \in Nat /\ Uci!Delivered' = Uci!Delivered + 1
        /\ iface'.data = Uci!Part(call.n, 2 * Uci!Delivered, 2 * Uci!Delivered')
        /\ iface'.state \in {"last", "more"}
        /\ iface'.state = "last" => iface'.stat = Uci!Status(call.n)
    BY <1>0, <2>1, UciBlockComes
  <2>3. PICK z \in Nat, e \in Nat : z = 0 /\ e = 2 * Uci!Delivered
    BY <2>2
  <2>4. ~(z < e)
    <3>1. Uci!Part(call.n, z, e) = <<>>
      BY <1>1, <2>1, <2>3 DEF Uci!Answering
    <3> QED BY ONLY <1>0, <3>1, PartShrinks, z \in Nat, e \in Nat, Zenon
  <2>5. 2 * Uci!Delivered = 0
    BY <2>3, <2>4
  <2>6. iface'.data = Uci!Part(call'.n, 0, 2 * Uci!Delivered')
    BY <1>1, <2>2, <2>5
  <2>7. Uci!InStep'
    BY <1>1, <1>3, <1>f, <2>2, <2>6 DEF Uci!InStep
  <2> QED BY <1>2, <1>q, <2>7
<1>4. CASE routine = "more"
  <2>1. Uci!Taking /\ Uci!Answering
    BY <1>0, <1>4 DEF Uci!InStep, Uci!Taking
  <2>2. /\ Uci!Answering' /\ Uci!Delivered \in Nat /\ Uci!Delivered' = Uci!Delivered + 1
        /\ iface'.data = Uci!Part(call.n, 2 * Uci!Delivered, 2 * Uci!Delivered')
        /\ iface'.state \in {"last", "more"}
        /\ iface'.state = "last" => iface'.stat = Uci!Status(call.n)
    BY <1>0, <2>1, UciBlockComes
  <2>3. PICK r \in Nat, e \in Nat : r = Len(resp) /\ e = 2 * Uci!Delivered
    BY <1>0, <2>2
  <2>4. ~(r < e)
    <3>1. Uci!Part(call.n, r, e) = <<>>
      BY <1>1, <2>1, <2>3 DEF Uci!Answering, Uci!Taking
    <3> QED BY ONLY <1>0, <3>1, PartShrinks, r \in Nat, e \in Nat, Zenon
  <2>5. Len(resp) = 2 * Uci!Delivered
    BY <2>1, <2>3, <2>4 DEF Uci!Taking
  <2>6. Uci!Taking'
    <3>1. Len(resp') <= 2 * Uci!Delivered'
      BY <1>f, <2>2, <2>5
    <3>2. iface'.data = Uci!Part(call'.n, Len(resp'), 2 * Uci!Delivered')
      BY <1>1, <1>f, <2>2, <2>5
    <3>3. /\ resp' = Uci!Part(call'.n, 0, Len(resp')) /\ stat' = <<>>
          /\ iface'.state = "last" => iface'.stat = Uci!Status(call'.n)
      BY <1>1, <1>f, <2>1, <2>2 DEF Uci!Taking
    <3> QED BY <2>2, <3>1, <3>2, <3>3 DEF Uci!Taking
  <2>7. Uci!InStep'
    BY <1>4, <1>f, <2>6 DEF Uci!InStep
  <2> QED BY <1>2, <1>q, <2>7
<1>5. CASE routine \notin {"pushed", "more"}
  <2>1. routine \in {"none", "abort", "aborting"}
    BY <1>0, <1>1, <1>5, <1>f DEF Uci!InStep, Uci!TypeOK
  <2>2. iface'.abort = iface.abort
    BY <1>0 DEF Uci!Reply, Uci!Ifaces
  <2>3. Uci!InStep'
    BY <1>f, <2>1, <2>2 DEF Uci!InStep
  <2> QED BY <1>2, <1>q, <2>3
<1> QED BY <1>3, <1>4, <1>5

LEMMA UciAbortStep ==
    ASSUME Uci!UciInv, Uci!ServeAbort
    PROVE  Uci!UciInv'
<1>0. /\ Uci!TypeOK /\ Uci!InStep /\ <<>> \in Uci!SomeBytes /\ iface.err = FALSE
  BY UciFields DEF Uci!UciInv
<1>f. /\ UNCHANGED <<host, sentinel, failed, typed, routine, resp, stat, answer>>
      /\ Uci!OneRoutine' /\ Uci!ReplyIsOwn' /\ call'.n = call.n
      /\ ~sentinel /\ ~(host' = "ready" /\ answer'.how = "reply")
      /\ routine \notin {"idle", "write", "push", "done"}
      /\ routine = "aborting" => iface.abort
      /\ (/\ iface' \in Uci!Ifaces /\ call' \in Uci!Calls /\ fw' \in Uci!Works
          /\ fw'.call # 0 => fw'.left # <<>>) => Uci!TypeOK'
  BY UciFirmwareFrame DEF Uci!Firmware
<1>q. Uci!TypeOK' /\ Uci!InStep' => Uci!UciInv'
  BY <1>f DEF Uci!UciInv
<1>1. /\ iface.abort /\ iface' = [Uci!IdleIface EXCEPT !.err = FALSE]
      /\ fw' = [call |-> 0, left |-> <<>>] /\ call' = call
  BY <1>0 DEF Uci!ServeAbort
<1>2. /\ iface' \in Uci!Ifaces /\ fw' \in Uci!Works /\ fw'.call = 0 /\ Uci!Clean'
  <2>1. Uci!IdleIface \in Uci!Ifaces /\ iface' = Uci!IdleIface
    BY <1>0, <1>1 DEF Uci!IdleIface, Uci!Ifaces
  <2>2. fw' \in Uci!Works /\ fw'.call = 0 /\ fw'.left = <<>>
    BY <1>1 DEF Uci!Works
  <2>3. /\ iface'.state = "idle" /\ iface'.cmd = 0 /\ ~iface'.abort
        /\ iface'.data = <<>> /\ iface'.stat = <<>>
    BY <2>1 DEF Uci!IdleIface
  <2> QED BY <2>1, <2>2, <2>3 DEF Uci!Clean, Uci!Idle
<1>3. Uci!TypeOK'
  BY <1>0, <1>1, <1>2, <1>f DEF Uci!TypeOK
<1>4. routine \in {"none", "abort", "aborting"}
  BY <1>0, <1>1, <1>f DEF Uci!InStep, Uci!Taking, Uci!Answering, Uci!TypeOK
<1>5. Uci!InStep'
  BY <1>2, <1>4, <1>f DEF Uci!InStep
<1> QED BY <1>3, <1>5, <1>q

LEMMA UciStep ==
    Uci!UciInv /\ [Uci!UciNext]_(Uci!uvars) => Uci!UciInv'
<1>1. Uci!UciInv /\ (Uci!Host \/ Uci!Sys \/ UNCHANGED Uci!uvars) => Uci!UciInv'
  BY UciHostStep
<1>2. Uci!UciInv /\ (Uci!Abort \/ Uci!WaitIdle \/ Uci!WriteCommand \/ Uci!Push)
        => Uci!UciInv'
  BY UciSendStep
<1>3. Uci!UciInv /\ (Uci!CheckError \/ Uci!TakeReply) => Uci!UciInv'
  BY UciCheckStep, UciDrainStep, UciNextStep, UciStatusStep, UciAcknowledgeStep
  DEF Uci!TakeReply
<1>4. Uci!UciInv /\ Uci!Firmware => Uci!UciInv'
  BY UciAcceptStep, UciReplyStep, UciAbortStep DEF Uci!Firmware
<1> QED BY <1>1, <1>2, <1>3, <1>4 DEF Uci!UciNext, Uci!Routine, Uci!SendCommand

(* What a call of the Command Interface returns is the whole reply to its    *)
(* own command, data and status, whatever an earlier call that timed out     *)
(* left behind; and no routine runs when the next one is uploaded.           *)
THEOREM RepliesAreOwn == RunSpec => []ReplyIsOwn
<1> DEFINE I == subject = "uci" => Uci!UciInv
<1>1. RunInit => I
  BY SubjectBegins, UciBegins
<1>2. I /\ [RunNext]_allvars => I'
  BY SubjectMoves, UciStep
<1>3. I => ReplyIsOwn
  BY DEF Uci!UciInv, ReplyIsOwn
<1> QED BY <1>1, <1>2, <1>3, PTL DEF RunSpec
=============================================================================
