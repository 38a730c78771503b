--------------------------- MODULE LockWaitProofs ---------------------------
(* Proofs about the wait of DeviceLock.acquire(), for any number of         *)
(* processes and any timeouts that a heartbeat's recovery fits into: who is *)
(* refused, and when a deadline moves.  That every wait ends is liveness    *)
(* and is left to the model checker.                                        *)
EXTENDS LockWait, TLAPS

(* What the assumptions say of the constants, one by one.                   *)
LEMMA Constants ==
    /\ Free \notin Procs
    /\ Timeout \in Nat /\ Timeout > 0 /\ Window \in Nat /\ Window > 0
    /\ Grace \in Nat /\ Grace > 0 /\ Grace <= Timeout
    /\ MaxFailures \in Nat /\ MaxFailures > 0 /\ MaxFailures < Window + Timeout
    /\ MaxHandoffs \in Nat /\ MaxHolds \in [Procs -> Nat]
    /\ MaxAge \in Nat /\ MaxAge = Window + 1
<1>1. /\ Timeout \in Nat \ {0} /\ Window \in Nat \ {0}
      /\ Grace \in Nat \ {0} /\ MaxFailures \in Nat \ {0}
  BY WaitAssumption
<1> QED BY <1>1, WaitAssumption DEF MaxAge

LEMMA LeastType ==
    ASSUME NEW a \in Int, NEW b \in Int
    PROVE  /\ Least(a, b) \in Int /\ Least(a, b) <= a /\ Least(a, b) <= b
           /\ Least(a, b) \in {a, b}
  BY DEF Least

(* The count of the holders seen stays within its bound and never falls     *)
(* while the wait goes on.                                                  *)
LEMMA OvertakesType ==
    ASSUME TypeOK, NEW p \in Procs
    PROVE  /\ Overtakes(p) \in 0 .. MaxHandoffs + 1
           /\ handoffs[p] <= Overtakes(p)
           /\ ~Progressing(p) => Overtakes(p) = handoffs[p]
<1>1. handoffs[p] \in 0 .. MaxHandoffs + 1 /\ MaxHandoffs \in Nat
  BY Constants DEF TypeOK
<1> QED BY <1>1 DEF Overtakes, Least

LEMMA InitWaitInv == Init => WaitInv
<1> SUFFICES ASSUME Init PROVE WaitInv
  OBVIOUS
<1>1. TypeOK
  <2>1. MaxAge \in 0 .. MaxAge /\ Timeout \in 0 .. Timeout
        /\ 0 \in 0 .. MaxHandoffs + 1 /\ 0 \in 0 .. MaxFailures
    BY Constants
  <2>2. holds \in [Procs -> Nat] /\ \A p \in Procs : holds[p] <= MaxHolds[p]
    BY Constants DEF Init
  <2> QED BY <2>1, <2>2 DEF Init, TypeOK
<1>2. HeartIsHolders /\ TheDeadRest /\ FullTimeAtRest /\ WaitersArePatient
  BY DEF Init, HeartIsHolders, TheDeadRest, FullTimeAtRest, WaitersArePatient
<1> QED BY <1>1, <1>2 DEF WaitInv

-----------------------------------------------------------------------------
LEMMA StepTypeOK ==
    ASSUME TypeOK, HeartIsHolders, [Next]_vars PROVE TypeOK'
<1> USE Constants DEF TypeOK
<1> DEFINE Steps == {"idle", "check", "try", "holding"}
<1>0. ASSUME NEW p \in Procs, NEW s \in Steps, Goto(p, s)
      PROVE  pc' \in [Procs -> Steps]
  BY <1>0 DEF Goto
<1>1. CASE UNCHANGED vars
  BY <1>1 DEF vars, lock, waits
<1>2. ASSUME NEW p \in Procs, Take(p)
      PROVE  /\ pc' \in [Procs -> Steps] /\ holder' \in Procs \cup {Free}
             /\ pid' \in Procs \cup {Free} /\ age' \in 0 .. MaxAge
             /\ heart' \in {"none", "beating", "silent"}
             /\ failures' \in 0 .. MaxFailures /\ beaten' \in BOOLEAN
  BY <1>0, <1>2 DEF Take
<1>3. ASSUME NEW p \in Procs, Forget(p)
      PROVE  /\ polled' \in [Procs -> BOOLEAN]
             /\ budget' \in [Procs -> {Timeout, Grace}]
             /\ remaining' \in [Procs -> 0 .. Timeout]
             /\ observed' \in [Procs -> Procs \cup {Free}]
             /\ handoffs' \in [Procs -> 0 .. MaxHandoffs + 1]
  <2>1. Timeout \in 0 .. Timeout /\ 0 \in 0 .. MaxHandoffs + 1
    OBVIOUS
  <2> QED BY <1>3, <2>1 DEF Forget
<1>4. ASSUME NEW p \in Procs, holds[p] > 0, holds' = [holds EXCEPT ![p] = @ - 1]
      PROVE  holds' \in [Procs -> Nat] /\ \A q \in Procs : holds'[q] <= MaxHolds[q]
  BY <1>4
<1>4a. ASSUME LetGo
      PROVE  /\ holder' \in Procs \cup {Free} /\ failures' \in 0 .. MaxFailures
             /\ heart' \in {"none", "beating", "silent"} /\ beaten' \in BOOLEAN
  <2>1. 0 \in 0 .. MaxFailures
    OBVIOUS
  <2> HIDE DEF TypeOK
  <2> QED BY <1>4a, <2>1 DEF LetGo
<1>5. ASSUME NEW p \in Procs, AcquireFast(p) PROVE TypeOK'
  BY <1>2, <1>4, <1>5 DEF AcquireFast, waits
<1>6. ASSUME NEW p \in Procs, StartWait(p) PROVE TypeOK'
  BY <1>0, <1>4, <1>6 DEF StartWait, lock, waits
<1>7. ASSUME NEW p \in Procs, StartSelfWait(p) PROVE TypeOK'
  <2>1. Grace \in 0 .. Timeout
    OBVIOUS
  <2>2. budget' \in [Procs -> {Timeout, Grace}] /\ remaining' \in [Procs -> 0 .. Timeout]
    BY <1>7, <2>1 DEF StartSelfWait
  <2> QED BY <1>0, <1>4, <1>7, <2>2 DEF StartSelfWait, lock
<1>8. ASSUME NEW p \in Procs, Check(p) PROVE TypeOK'
  <2>1. handoffs' \in [Procs -> 0 .. MaxHandoffs + 1]
    BY <1>8, OvertakesType DEF Check
  <2>2. observed' \in [Procs -> Procs \cup {Free}]
    BY <1>8 DEF Check
  <2>3. remaining' \in [Procs -> 0 .. Timeout]
    <3>1. budget[p] \in 0 .. Timeout
      OBVIOUS
    <3> QED BY <1>8, <3>1 DEF Check
  <2> QED BY <1>0, <1>8, <2>1, <2>2, <2>3 DEF Check, lock
<1>9. ASSUME NEW p \in Procs, GiveUp(p) PROVE TypeOK'
  BY <1>0, <1>3, <1>9 DEF GiveUp, lock
<1>10. ASSUME NEW p \in Procs, Try(p) PROVE TypeOK'
  <2>1. CASE Take(p) /\ Forget(p)
    BY <1>2, <1>3, <1>10, <2>1 DEF Try
  <2>2. CASE /\ Goto(p, "check")
             /\ polled' = [polled EXCEPT ![p] = TRUE]
             /\ UNCHANGED <<lock, budget, remaining, observed, handoffs>>
    BY <1>0, <1>10, <2>2 DEF Try, lock
  <2> QED BY <1>10, <2>1, <2>2 DEF Try
<1>11. ASSUME NEW p \in Procs, Release(p) \/ Rescue(p) PROVE TypeOK'
  <2>1. LetGo /\ age' = 0 /\ UNCHANGED <<pid, waits, dead, holds>>
    BY <1>11 DEF Release, Rescue
  <2>2. pc' \in [Procs -> Steps]
    BY <1>0, <1>11 DEF Release, Rescue
  <2>3. age' \in 0 .. MaxAge
    BY <2>1
  <2> QED BY <1>4a, <2>1, <2>2, <2>3 DEF waits
<1>12. ASSUME NEW p \in Procs, Die(p) PROVE TypeOK'
  <2>1. holds' \in [Procs -> Nat] /\ \A q \in Procs : holds'[q] <= MaxHolds[q]
    BY <1>12 DEF Die
  <2>2. LetGo /\ dead' = dead \cup {p} /\ UNCHANGED <<pid, age>>
    BY <1>12 DEF Die
  <2>3. pc' \in [Procs -> Steps] /\ Forget(p)
    BY <1>0, <1>12 DEF Die
  <2> QED BY <1>3, <1>4a, <2>1, <2>2, <2>3
<1>13. CASE Beat
  <2>1. failures < MaxFailures
    BY <1>13 DEF Beat, HeartIsHolders
  <2>2. failures' \in 0 .. MaxFailures
    BY <1>13, <2>1 DEF Beat
  <2> QED BY <1>13, <2>2 DEF Beat, waits
<1>14. CASE BeatLost
  BY <1>14 DEF BeatLost, waits
<1>15. CASE Tick
  <2>1. age' \in 0 .. MaxAge
    BY <1>15 DEF Tick, Least
  <2>2. remaining' \in [Procs -> 0 .. Timeout]
    BY <1>15 DEF Tick
  <2> QED BY <1>15, <2>1, <2>2 DEF Tick
<1> QED
  BY <1>1, <1>5, <1>6, <1>7, <1>8, <1>9, <1>10, <1>11, <1>12, <1>13, <1>14,
     <1>15 DEF Next

-----------------------------------------------------------------------------
(* The record behind a heart that beats names the holder, who lives, and is *)
(* as late as the bumps that failed since.                                  *)
LEMMA StepHeart ==
    ASSUME TypeOK, HeartIsHolders, TheDeadRest, [Next]_vars
    PROVE  HeartIsHolders' /\ TheDeadRest'
<1> USE Constants
<1>0. /\ failures \in Nat /\ beaten \in BOOLEAN /\ age \in Nat
      /\ pc \in [Procs -> {"idle", "check", "try", "holding"}]
      /\ holds \in [Procs -> Nat] /\ dead \subseteq Procs
  BY DEF TypeOK
<1>1. ASSUME NEW p \in Procs \ dead, Take(p), dead' = dead PROVE HeartIsHolders'
  BY <1>1 DEF Take, HeartIsHolders, Ticks, Least
<1>2. ASSUME LetGo PROVE HeartIsHolders'
  BY <1>2 DEF LetGo, HeartIsHolders
<1>3. ASSUME UNCHANGED <<lock, dead>> PROVE HeartIsHolders'
  BY <1>3 DEF lock, HeartIsHolders, Ticks
<1>4. ASSUME NEW p \in Procs \ dead, NEW s, Goto(p, s), dead' = dead,
             \A q \in Procs : q # p => holds'[q] = holds[q]
      PROVE  TheDeadRest'
  BY <1>0, <1>4 DEF Goto, TheDeadRest
<1>5. ASSUME UNCHANGED <<pc, dead, holds>> PROVE TheDeadRest'
  BY <1>5 DEF TheDeadRest
<1>6. \A p \in Procs : pc[p] # "idle" \/ holds[p] > 0 => p \notin dead
  BY <1>0 DEF TheDeadRest
<1>7. ASSUME NEW p \in Procs, AcquireFast(p)
      PROVE  HeartIsHolders' /\ TheDeadRest'
  BY <1>0, <1>1, <1>4, <1>6, <1>7 DEF AcquireFast, Take
<1>8. ASSUME NEW p \in Procs, StartWait(p) \/ StartSelfWait(p)
      PROVE  HeartIsHolders' /\ TheDeadRest'
  <2>1. p \notin dead /\ Goto(p, "check") /\ UNCHANGED <<lock, dead>>
        /\ holds' = [holds EXCEPT ![p] = @ - 1]
    BY <1>0, <1>6, <1>8 DEF StartWait, StartSelfWait
  <2> QED BY <1>0, <1>3, <1>4, <2>1
<1>9. ASSUME NEW p \in Procs, Check(p) \/ GiveUp(p)
      PROVE  HeartIsHolders' /\ TheDeadRest'
  <2>1. p \notin dead /\ UNCHANGED <<lock, dead, holds>>
    BY <1>0, <1>6, <1>9 DEF Check, GiveUp
  <2>2. \E s : Goto(p, s)
    BY <1>9 DEF Check, GiveUp
  <2> QED BY <1>3, <1>4, <2>1, <2>2
<1>10. ASSUME NEW p \in Procs, Try(p) PROVE HeartIsHolders' /\ TheDeadRest'
  <2>1. p \notin dead /\ UNCHANGED <<dead, holds>>
    BY <1>0, <1>6, <1>10 DEF Try
  <2>2. Take(p) \/ (Goto(p, "check") /\ UNCHANGED lock)
    BY <1>10 DEF Try
  <2>3. \E s : Goto(p, s)
    BY <2>2 DEF Take
  <2> QED BY <1>1, <1>3, <1>4, <2>1, <2>2, <2>3
<1>11. ASSUME NEW p \in Procs, Release(p) PROVE HeartIsHolders' /\ TheDeadRest'
  BY <1>0, <1>2, <1>4, <1>6, <1>11 DEF Release
<1>12. ASSUME NEW p \in Procs, Rescue(p) PROVE HeartIsHolders' /\ TheDeadRest'
  BY <1>2, <1>5, <1>12 DEF Rescue
<1>13. ASSUME NEW p \in Procs, Die(p) PROVE HeartIsHolders' /\ TheDeadRest'
  <2>1. /\ pc' = [pc EXCEPT ![p] = "idle"] /\ holds' = [holds EXCEPT ![p] = 0]
        /\ dead' = dead \cup {p}
    BY <1>13 DEF Die, Goto
  <2> QED BY <1>0, <1>2, <1>13, <2>1 DEF Die, TheDeadRest
<1>14. CASE Beat
  <2>1. heart = "beating" /\ ~beaten /\ beaten' /\ UNCHANGED <<pc, holder, pid, dead, holds>>
    BY <1>14 DEF Beat
  <2>2. Ticks = failures + 1 /\ failures < MaxFailures /\ age = Least(failures + 1, MaxAge)
    BY <2>1 DEF Ticks, HeartIsHolders
  <2>3. \/ age' = 0 /\ failures' = 0 /\ heart' = heart
        \/ /\ failures' = failures + 1 /\ age' = age
           /\ heart' = "beating" => failures' # MaxFailures
    BY <1>14 DEF Beat
  <2>4. Ticks' = failures'
    BY <1>0, <2>1, <2>3 DEF Ticks
  <2>5. heart' = "beating" => failures' < MaxFailures /\ age' = Least(Ticks', MaxAge)
    BY <1>0, <2>2, <2>3, <2>4 DEF Least
  <2> QED BY <1>5, <2>1, <2>5 DEF HeartIsHolders
<1>15. CASE BeatLost
  BY <1>5, <1>15 DEF BeatLost, HeartIsHolders
<1>16. CASE Tick
  <2>1. /\ heart = "beating" => beaten
        /\ age' = Least(age + 1, MaxAge) /\ ~beaten'
        /\ UNCHANGED <<pc, holder, pid, heart, failures, dead, holds>>
    BY <1>16 DEF Tick
  <2>2. ASSUME heart = "beating" PROVE HeartIsHolders'
    <3>1. age = Least(failures, MaxAge) /\ failures < MaxFailures
      BY <1>0, <2>1, <2>2 DEF HeartIsHolders, Ticks
    <3>2. Ticks' = failures + 1
      BY <2>1 DEF Ticks
    <3>3. age' = Least(Ticks', MaxAge)
      BY <1>0, <2>1, <3>1, <3>2 DEF Least
    <3> QED BY <2>1, <2>2, <3>1, <3>3 DEF HeartIsHolders
  <2>3. heart # "beating" => HeartIsHolders'
    BY <2>1 DEF HeartIsHolders
  <2> QED BY <1>5, <2>1, <2>2, <2>3
<1>17. CASE UNCHANGED vars
  BY <1>3, <1>5, <1>17 DEF vars
<1> QED
  BY <1>7, <1>8, <1>9, <1>10, <1>11, <1>12, <1>13, <1>14, <1>15, <1>16, <1>17
  DEF Next

(* A wait begins with its whole time, and hands it back.                    *)
LEMMA StepRest ==
    ASSUME TypeOK, FullTimeAtRest, [Next]_vars PROVE FullTimeAtRest'
<1>0. /\ pc \in [Procs -> {"idle", "check", "try", "holding"}]
      /\ remaining \in [Procs -> 0 .. Timeout]
      /\ budget \in [Procs -> {Timeout, Grace}]
  BY DEF TypeOK
<1>1. ASSUME NEW p \in Procs, \A q \in Procs : q # p => pc'[q] = pc[q],
             \A q \in Procs : q # p => /\ remaining'[q] = remaining[q]
                                       /\ budget'[q] = budget[q],
             Waiting(p)' \/ remaining'[p] = budget'[p]
      PROVE  FullTimeAtRest'
  BY <1>1 DEF FullTimeAtRest, Waiting
<1>2. ASSUME NEW p \in Procs, NEW s, Goto(p, s)
      PROVE  pc'[p] = s /\ \A q \in Procs : q # p => pc'[q] = pc[q]
  BY <1>0, <1>2 DEF Goto
<1>3. ASSUME NEW p \in Procs, Forget(p)
      PROVE  /\ remaining'[p] = budget'[p]
             /\ \A q \in Procs : q # p => /\ remaining'[q] = remaining[q]
                                          /\ budget'[q] = budget[q]
  BY <1>0, <1>3 DEF Forget
<1>4. ASSUME NEW p \in Procs, NEW s, Goto(p, s), Forget(p) PROVE FullTimeAtRest'
  BY <1>1, <1>2, <1>3, <1>4
<1>5. ASSUME NEW p \in Procs, NEW s, Goto(p, s), UNCHANGED <<remaining, budget>>,
             Waiting(p) => s \in {"check", "try"}
      PROVE  FullTimeAtRest'
  <2>1. Waiting(p)' \/ remaining'[p] = budget'[p]
    BY <1>2, <1>5 DEF FullTimeAtRest, Waiting
  <2> QED BY <1>1, <1>2, <1>5, <2>1
<1>6. ASSUME UNCHANGED <<pc, remaining, budget>> PROVE FullTimeAtRest'
  BY <1>6 DEF FullTimeAtRest, Waiting
<1>7. ASSUME NEW p \in Procs, AcquireFast(p) \/ StartWait(p) \/ Release(p)
      PROVE  FullTimeAtRest'
  <2>1. (\E s : Goto(p, s)) /\ UNCHANGED <<remaining, budget>> /\ ~Waiting(p)
    BY <1>7 DEF AcquireFast, Take, StartWait, Release, waits, Waiting
  <2> QED BY <1>5, <2>1
<1>8. ASSUME NEW p \in Procs, StartSelfWait(p) PROVE FullTimeAtRest'
  <2>1. Waiting(p)'
    BY <1>2, <1>8 DEF StartSelfWait, Waiting
  <2>2. \A q \in Procs : q # p => remaining'[q] = remaining[q] /\ budget'[q] = budget[q]
    BY <1>0, <1>8 DEF StartSelfWait
  <2>3. \A q \in Procs : q # p => pc'[q] = pc[q]
    BY <1>2, <1>8 DEF StartSelfWait
  <2> QED BY <1>1, <2>1, <2>2, <2>3
<1>9. ASSUME NEW p \in Procs, Check(p) PROVE FullTimeAtRest'
  <2>1. Waiting(p)' /\ \A q \in Procs : q # p => pc'[q] = pc[q]
    BY <1>2, <1>9 DEF Check, Waiting
  <2>2. \A q \in Procs : q # p => remaining'[q] = remaining[q] /\ budget'[q] = budget[q]
    BY <1>0, <1>9 DEF Check
  <2> QED BY <1>1, <2>1, <2>2
<1>10. ASSUME NEW p \in Procs, GiveUp(p) \/ Die(p) PROVE FullTimeAtRest'
  BY <1>4, <1>10 DEF GiveUp, Die
<1>11. ASSUME NEW p \in Procs, Try(p) PROVE FullTimeAtRest'
  BY <1>4, <1>5, <1>11 DEF Try, Take
<1>12. ASSUME NEW p \in Procs, Rescue(p) PROVE FullTimeAtRest'
  BY <1>6, <1>12 DEF Rescue, waits
<1>13. CASE Beat \/ BeatLost \/ UNCHANGED vars
  BY <1>6, <1>13 DEF Beat, BeatLost, waits, vars
<1>14. CASE Tick
  BY <1>0, <1>14 DEF Tick, FullTimeAtRest, Waiting
<1> QED
  BY <1>7, <1>8, <1>9, <1>10, <1>11, <1>12, <1>13, <1>14 DEF Next

(* A step of p at which nothing moves but p and its own wait.               *)
OthersWaitOn(p) ==
    /\ UNCHANGED lock
    /\ \A q \in Procs : q # p =>
          /\ pc'[q] = pc[q] /\ polled'[q] = polled[q]
          /\ budget'[q] = budget[q] /\ remaining'[q] = remaining[q]
          /\ handoffs'[q] = handoffs[q]

PatientNow(p) ==
    heart = "beating" /\ holder # p /\ handoffs'[p] <= MaxHandoffs => Patience(p)'

(* A waiter is patient: each round gives its time back while the record is  *)
(* fresh enough, and each tick takes one unit once it is not.               *)
LEMMA StepPatience ==
    ASSUME TypeOK, HeartIsHolders, FullTimeAtRest, WaitersArePatient, [Next]_vars
    PROVE  WaitersArePatient'
<1> USE Constants
<1>0. /\ failures \in Nat /\ beaten \in BOOLEAN /\ age \in Nat /\ Ticks \in Nat
      /\ pc \in [Procs -> {"idle", "check", "try", "holding"}]
      /\ remaining \in [Procs -> 0 .. Timeout]
      /\ budget \in [Procs -> {Timeout, Grace}]
      /\ polled \in [Procs -> BOOLEAN]
      /\ handoffs \in [Procs -> 0 .. MaxHandoffs + 1]
  BY DEF TypeOK, Ticks
<1>1. ASSUME heart' = "beating" => Ticks' = 0 PROVE WaitersArePatient'
  BY <1>1 DEF WaitersArePatient, Patience
<1>2. ASSUME LetGo PROVE WaitersArePatient'
  BY <1>1, <1>2 DEF LetGo
<1>3. ASSUME NEW p \in Procs, Take(p) PROVE WaitersArePatient'
  BY <1>1, <1>3 DEF Take, Ticks
<1>4. ASSUME NEW p \in Procs, OthersWaitOn(p), Waiting(p)' => PatientNow(p)
      PROVE  WaitersArePatient'
  <2>1. Ticks' = Ticks /\ heart' = heart /\ holder' = holder
    BY <1>4 DEF OthersWaitOn, lock, Ticks
  <2>2. ASSUME NEW q \in Procs, q # p, Waiting(q)', heart = "beating",
               holder # q, handoffs'[q] <= MaxHandoffs
        PROVE  Patience(q)'
    <3>1. /\ pc'[q] = pc[q] /\ polled'[q] = polled[q]
          /\ budget'[q] = budget[q] /\ remaining'[q] = remaining[q]
          /\ handoffs'[q] = handoffs[q]
      BY <1>4, <2>2 DEF OthersWaitOn
    <3>2. Patience(q)
      BY <2>2, <3>1 DEF WaitersArePatient, Waiting
    <3> QED BY <2>1, <3>1, <3>2 DEF Patience
  <2> QED BY <1>4, <2>1, <2>2 DEF WaitersArePatient, PatientNow
<1>5. ASSUME NEW p \in Procs, NEW s, Goto(p, s)
      PROVE  pc'[p] = s /\ \A q \in Procs : q # p => pc'[q] = pc[q]
  BY <1>0, <1>5 DEF Goto
<1>6. ASSUME NEW p \in Procs, remaining'[p] = budget'[p], budget'[p] \in Nat,
             OthersWaitOn(p)
      PROVE  PatientNow(p)
  <2>1. Ticks' = Ticks
    BY <1>6 DEF OthersWaitOn, lock, Ticks
  <2>2. Ticks > Window => budget'[p] >= budget'[p] - (Ticks - Window)
    BY <1>0, <1>6
  <2> QED BY <1>6, <2>1, <2>2 DEF Patience, PatientNow
<1>7. ASSUME NEW p \in Procs, AcquireFast(p) PROVE WaitersArePatient'
  BY <1>3, <1>7 DEF AcquireFast
<1>8. ASSUME NEW p \in Procs, StartWait(p) PROVE WaitersArePatient'
  <2>1. remaining[p] = budget[p] /\ UNCHANGED <<lock, waits>> /\ Goto(p, "check")
    BY <1>8 DEF StartWait, FullTimeAtRest, Waiting
  <2>2. OthersWaitOn(p)
    BY <1>5, <2>1 DEF OthersWaitOn, lock, waits
  <2>3. remaining'[p] = budget'[p] /\ budget'[p] \in Nat
    BY <1>0, <2>1 DEF waits
  <2> QED BY <1>4, <1>6, <2>2, <2>3
<1>9. ASSUME NEW p \in Procs, StartSelfWait(p) PROVE WaitersArePatient'
  <2>1. /\ remaining'[p] = budget'[p] /\ UNCHANGED <<lock, polled, handoffs>>
        /\ Goto(p, "check")
        /\ budget'[p] \in Nat
        /\ \A q \in Procs : q # p => budget'[q] = budget[q] /\ remaining'[q] = remaining[q]
    BY <1>0, <1>9 DEF StartSelfWait
  <2>2. OthersWaitOn(p)
    BY <1>5, <2>1 DEF OthersWaitOn, lock
  <2> QED BY <1>4, <1>6, <2>1, <2>2
<1>10. ASSUME NEW p \in Procs, Check(p) PROVE WaitersArePatient'
  <2>1. /\ pc[p] = "check" /\ ~polled[p] /\ Goto(p, "try")
        /\ UNCHANGED <<lock, polled, budget>>
        /\ handoffs'[p] = Overtakes(p)
        /\ remaining'[p] = IF Extends(p) THEN budget[p] ELSE remaining[p]
        /\ \A q \in Procs : q # p => /\ remaining'[q] = remaining[q]
                                     /\ handoffs'[q] = handoffs[q]
    BY <1>0, <1>10 DEF Check
  <2>2. ASSUME heart = "beating", holder # p, handoffs'[p] <= MaxHandoffs
        PROVE  Patience(p)'
    <3>1. handoffs[p] \in Int /\ Overtakes(p) \in Int /\ handoffs[p] <= Overtakes(p)
      BY <1>0, OvertakesType
    <3>2. Patience(p)
      BY <2>1, <2>2, <3>1 DEF WaitersArePatient, Waiting
    <3>3. Ticks' = Ticks
      BY <2>1 DEF lock, Ticks
    <3>4. ASSUME Ticks \in 1 .. Window PROVE remaining'[p] = budget[p]
      <4>1. age <= Window
        BY <1>0, <2>2, <3>4 DEF HeartIsHolders, Least
      <4>2. Progressing(p)
        BY <2>2, <4>1 DEF Progressing, SelfHeld, HeartIsHolders
      <4> QED BY <2>1, <2>2, <4>2 DEF Extends
    <3>5. ASSUME Ticks > Window PROVE remaining'[p] >= budget[p] - (Ticks - Window)
      <4>1. remaining[p] >= budget[p] - (Ticks - Window)
        BY <3>2, <3>5 DEF Patience
      <4>2. budget[p] \in Int /\ budget[p] >= budget[p] - (Ticks - Window)
        BY <1>0, <3>5
      <4> QED BY <2>1, <4>1, <4>2
    <3> QED BY <2>1, <3>3, <3>4, <3>5 DEF Patience
  <2>3. OthersWaitOn(p)
    BY <1>5, <2>1 DEF OthersWaitOn, lock
  <2> QED BY <1>4, <2>2, <2>3 DEF PatientNow
<1>11. ASSUME NEW p \in Procs, GiveUp(p) PROVE WaitersArePatient'
  <2>1. UNCHANGED lock /\ Forget(p)
    BY <1>11 DEF GiveUp
  <2>2. /\ ~Waiting(p)'
        /\ \A q \in Procs : q # p => pc'[q] = pc[q]
    BY <1>5, <1>11 DEF GiveUp, Waiting
  <2>3. \A q \in Procs : q # p =>
            /\ polled'[q] = polled[q] /\ budget'[q] = budget[q]
            /\ remaining'[q] = remaining[q] /\ handoffs'[q] = handoffs[q]
    BY <1>0, <2>1 DEF Forget
  <2>4. OthersWaitOn(p)
    BY <2>1, <2>2, <2>3 DEF OthersWaitOn
  <2> QED BY <1>4, <2>2, <2>4
<1>12. ASSUME NEW p \in Procs, Try(p) PROVE WaitersArePatient'
  <2>1. CASE Take(p)
    BY <1>3, <2>1
  <2>2. CASE /\ Goto(p, "check") /\ polled' = [polled EXCEPT ![p] = TRUE]
             /\ UNCHANGED <<lock, budget, remaining, observed, handoffs>>
    <3>1. pc[p] = "try"
      BY <1>12 DEF Try
    <3>2. Ticks' = Ticks
      BY <2>2 DEF lock, Ticks
    <3>3. ASSUME heart = "beating", holder # p, handoffs'[p] <= MaxHandoffs
          PROVE  Patience(p)'
      <4>1. Patience(p)
        BY <2>2, <3>1, <3>3 DEF WaitersArePatient, Waiting
      <4> QED BY <2>2, <3>1, <3>2, <4>1 DEF Patience
    <3>4. \A q \in Procs : q # p => polled'[q] = polled[q]
      BY <1>0, <2>2
    <3>5. OthersWaitOn(p)
      BY <1>5, <2>2, <3>4 DEF OthersWaitOn, lock
    <3> QED BY <1>4, <3>3, <3>5 DEF PatientNow
  <2> QED BY <1>12, <2>1, <2>2 DEF Try
<1>13. ASSUME NEW p \in Procs, Release(p) \/ Rescue(p) \/ Die(p)
       PROVE  WaitersArePatient'
  BY <1>2, <1>13 DEF Release, Rescue, Die
<1>14. ASSUME UNCHANGED <<pc, holder, waits>>, heart' = "beating" => heart = "beating",
              heart' = "beating" => Ticks' = Ticks
       PROVE  WaitersArePatient'
  BY <1>14 DEF waits, WaitersArePatient, Patience, Waiting
<1>15. CASE Beat
  <2>1. /\ heart = "beating" /\ ~beaten /\ beaten'
        /\ UNCHANGED <<pc, holder, waits>>
        /\ failures' = 0 \/ failures' = failures + 1
    BY <1>15 DEF Beat
  <2>2. Ticks' = failures' /\ Ticks = failures + 1
    BY <1>0, <2>1 DEF Ticks
  <2> QED BY <1>1, <1>14, <2>1, <2>2
<1>16. CASE BeatLost
  BY <1>1, <1>16 DEF BeatLost
<1>17. CASE Tick
  <2>1. /\ heart = "beating" => beaten
        /\ ~beaten' /\ UNCHANGED <<pc, heart, holder, failures, budget, handoffs>>
        /\ \A p \in Procs : Waiting(p) => pc[p] = "check" /\ polled[p]
        /\ \A p \in Procs : ~polled'[p]
        /\ \A p \in Procs : remaining'[p] = IF Waiting(p) /\ remaining[p] > 0
                                         THEN remaining[p] - 1 ELSE remaining[p]
    BY <1>17 DEF Tick
  <2>2. SUFFICES ASSUME heart = "beating", NEW p \in Procs, Waiting(p)', holder # p,
                        handoffs[p] <= MaxHandoffs
                 PROVE  Patience(p)'
    BY <2>1 DEF WaitersArePatient
  <2>3. Ticks = failures /\ Ticks' = Ticks + 1
    BY <1>0, <2>1, <2>2 DEF Ticks
  <2>4. pc[p] = "check" /\ polled[p] /\ Waiting(p)
    BY <2>1, <2>2 DEF Waiting
  <2>5. Patience(p)
    BY <2>2, <2>4 DEF WaitersArePatient
  <2>6. remaining[p] \in Nat /\ budget[p] \in Nat
        /\ remaining'[p] \in Int /\ remaining'[p] >= remaining[p] - 1
    BY <1>0, <2>1
  <2>7. ASSUME Ticks' > Window PROVE remaining'[p] >= budget[p] - (Ticks' - Window)
    <3>1. CASE Ticks = Window
      <4>1. remaining[p] = budget[p]
        BY <2>4, <2>5, <3>1 DEF Patience
      <4> QED BY <2>3, <2>6, <3>1, <4>1
    <3>2. CASE Ticks > Window
      <4>1. remaining[p] >= budget[p] - (Ticks - Window)
        BY <2>5, <3>2 DEF Patience
      <4> QED BY <1>0, <2>3, <2>6, <4>1
    <3> QED BY <1>0, <2>3, <2>7, <3>1, <3>2
  <2>8. ~polled'[p] /\ pc'[p] # "try"
    BY <2>1, <2>4
  <2> QED BY <2>1, <2>7, <2>8 DEF Patience
<1>18. CASE UNCHANGED vars
  BY <1>14, <1>18 DEF vars, lock, Ticks
<1> QED
  BY <1>7, <1>8, <1>9, <1>10, <1>11, <1>12, <1>13, <1>15, <1>16, <1>17, <1>18
  DEF Next

(* The inductive invariant of the wait: the record is as late as the failed *)
(* bumps behind it, the dead do nothing, and a waiter that was not          *)
(* overtaken too often has all its time but what passed since the record    *)
(* stopped being progress.                                                  *)
THEOREM Invariant == Spec => []WaitInv
<1>1. WaitInv /\ [Next]_vars => WaitInv'
  BY StepTypeOK, StepHeart, StepRest, StepPatience DEF WaitInv
<1> QED BY InitWaitInv, <1>1, PTL DEF Spec

-----------------------------------------------------------------------------
(* acquire() gives up only when it finds the time gone in a round that does *)
(* not extend it.                                                           *)
LEMMA RefusedByGiveUp ==
    ASSUME TypeOK, NEW p \in Procs, Refused(p), Next
    PROVE  GiveUp(p)
<1>0. pc \in [Procs -> {"idle", "check", "try", "holding"}]
  BY DEF TypeOK
<1>1. ASSUME NEW q \in Procs, NEW s, Goto(q, s), Waiting(p), pc'[p] = "idle"
      PROVE  q = p /\ s = "idle"
  BY <1>0, <1>1 DEF Goto, Waiting
<1>2. Waiting(p) /\ pc'[p] = "idle" /\ pc[p] # "idle" /\ pc[p] # "holding" /\ p \notin dead'
  BY DEF Refused, Waiting
<1>3. ASSUME NEW q \in Procs, AcquireFast(q) \/ StartWait(q) \/ StartSelfWait(q)
                                  \/ Check(q) \/ Try(q)
      PROVE  FALSE
  <2>1. \E s \in {"check", "try", "holding"} : Goto(q, s)
    BY <1>3 DEF AcquireFast, StartWait, StartSelfWait, Check, Try, Take
  <2> QED BY <1>1, <1>2, <2>1
<1>4. ASSUME NEW q \in Procs, Release(q) PROVE FALSE
  BY <1>1, <1>2, <1>4 DEF Release
<1>5. ASSUME NEW q \in Procs, Die(q) PROVE FALSE
  BY <1>1, <1>2, <1>5 DEF Die
<1>6. ASSUME pc' = pc PROVE FALSE
  BY <1>2, <1>6
<1>7. ASSUME NEW q \in Procs, GiveUp(q) PROVE q = p
  BY <1>1, <1>2, <1>7 DEF GiveUp
<1> QED
  BY <1>3, <1>4, <1>5, <1>6, <1>7 DEF Next, Rescue, Beat, BeatLost, Tick

(* No waiter with its full timeout gives up on a holder whose heartbeat has *)
(* not, for any number of processes and any limits a recovery fits into: a  *)
(* heart that still beats is at most MaxFailures ticks late, and that is    *)
(* less than what has to pass before the deadline is reached.               *)
THEOREM NeverRefusedBehindABeat == Spec => PatientBehindBeatingHolder
<1> DEFINE Patient == \A p \in Procs :
              Refused(p) /\ heart = "beating" /\ budget[p] = Timeout
                  => Overtakes(p) > MaxHandoffs
<1>1. ASSUME WaitInv, Next PROVE Patient
  <2>0. SUFFICES ASSUME NEW p \in Procs, Refused(p), heart = "beating",
                        budget[p] = Timeout, ~(Overtakes(p) > MaxHandoffs)
                 PROVE  FALSE
    OBVIOUS
  <2> USE Constants
  <2>1. TypeOK /\ HeartIsHolders /\ WaitersArePatient
    BY <1>1 DEF WaitInv
  <2>2. GiveUp(p)
    BY <1>1, <2>0, <2>1, RefusedByGiveUp
  <2>3. /\ pc[p] = "check" /\ ~Extends(p) /\ remaining[p] = 0
        /\ Waiting(p) /\ holder # p
    <3>1. pc \in [Procs -> {"idle", "check", "try", "holding"}]
      BY <2>1 DEF TypeOK
    <3>2. pc'[p] = IF SelfHeld(p) THEN "holding" ELSE "idle"
      BY <2>2, <3>1 DEF GiveUp, Goto
    <3>3. pc'[p] = "idle" /\ Waiting(p)
      BY <2>0 DEF Refused
    <3>4. ~SelfHeld(p)
      BY <3>2, <3>3
    <3> QED BY <2>2, <3>3, <3>4 DEF GiveUp, SelfHeld
  <2>4. Overtakes(p) \in Int /\ handoffs[p] \in Int /\ handoffs[p] <= Overtakes(p)
    BY <2>1, OvertakesType DEF TypeOK
  <2>5. Overtakes(p) <= MaxHandoffs /\ handoffs[p] <= MaxHandoffs
    BY <2>0, <2>4
  <2>6. ~Progressing(p)
    BY <2>3, <2>5 DEF Extends
  <2>7. pid = holder /\ holder \in Procs \ dead /\ age = Least(Ticks, MaxAge)
        /\ failures \in Nat /\ failures < MaxFailures
    BY <2>0, <2>1 DEF HeartIsHolders, TypeOK
  <2>8. Ticks \in Nat /\ Ticks <= MaxFailures
    BY <2>7 DEF Ticks
  <2>9. ~(age <= Window)
    BY <2>3, <2>6, <2>7 DEF Progressing, SelfHeld
  <2>10. Ticks > Window
    BY <2>7, <2>8, <2>9 DEF Least
  <2>11. remaining[p] >= Timeout - (Ticks - Window)
    BY <2>0, <2>1, <2>3, <2>5, <2>10 DEF WaitersArePatient, Patience
  <2> QED BY <2>3, <2>8, <2>11
<1>2. WaitInv /\ [Next]_vars => [Patient]_vars
  BY <1>1
<1> QED BY Invariant, <1>2, PTL DEF PatientBehindBeatingHolder, Spec

(* A waiter that was overtaken too often never gets time back: its deadline *)
(* stands, and time only takes from what is left.                           *)
THEOREM ChainRunsOut == Spec => ChainIsNotRearmed
<1> DEFINE NotRearmed == \A p \in Procs :
              Waiting(p) /\ Waiting(p)' /\ handoffs[p] > MaxHandoffs
                  => remaining'[p] <= remaining[p]
<1>1. ASSUME TypeOK, Next PROVE NotRearmed
  <2> USE Constants
  <2>0. SUFFICES ASSUME NEW p \in Procs, Waiting(p), Waiting(p)',
                        handoffs[p] > MaxHandoffs
                 PROVE  remaining'[p] <= remaining[p]
    OBVIOUS
  <2>1. /\ pc \in [Procs -> {"idle", "check", "try", "holding"}]
        /\ remaining \in [Procs -> 0 .. Timeout] /\ remaining[p] \in Int
    BY <1>1 DEF TypeOK
  <2>2. ASSUME remaining'[p] = remaining[p] PROVE remaining'[p] <= remaining[p]
    BY <2>1, <2>2
  <2>3. ASSUME NEW q \in Procs, Forget(q), q # p PROVE remaining'[p] = remaining[p]
    BY <2>1, <2>3 DEF Forget
  <2>4. ASSUME NEW q \in Procs, NEW s, Goto(q, s), s \notin {"check", "try"}
        PROVE  q # p
    BY <2>0, <2>1, <2>4 DEF Goto, Waiting
  <2>5. ASSUME NEW q \in Procs, AcquireFast(q) \/ StartWait(q) \/ Release(q) \/ Rescue(q)
        PROVE  remaining'[p] = remaining[p]
    BY <2>5 DEF AcquireFast, StartWait, Release, Rescue, waits
  <2>6. ASSUME NEW q \in Procs, StartSelfWait(q) PROVE remaining'[p] = remaining[p]
    BY <2>0, <2>1, <2>6 DEF StartSelfWait, Waiting
  <2>7. ASSUME NEW q \in Procs, Check(q) PROVE remaining'[p] = remaining[p]
    <3>1. CASE q = p
      <4>1. ~Extends(p)
        BY <1>1, <2>0, OvertakesType DEF Extends, TypeOK
      <4> QED BY <2>1, <2>7, <3>1, <4>1 DEF Check
    <3>2. CASE q # p
      BY <2>1, <2>7, <3>2 DEF Check
    <3> QED BY <3>1, <3>2
  <2>8. ASSUME NEW q \in Procs, GiveUp(q) \/ Die(q) PROVE remaining'[p] = remaining[p]
    <3>1. q # p /\ Forget(q)
      BY <2>4, <2>8 DEF GiveUp, Die
    <3> QED BY <2>3, <3>1
  <2>9. ASSUME NEW q \in Procs, Try(q) PROVE remaining'[p] = remaining[p]
    <3>1. \/ Take(q) /\ Forget(q)
          \/ UNCHANGED remaining
      BY <2>9 DEF Try
    <3>2. Take(q) => q # p
      BY <2>4 DEF Take
    <3> QED BY <2>3, <3>1, <3>2
  <2>10. Beat \/ BeatLost => remaining'[p] = remaining[p]
    BY DEF Beat, BeatLost, waits
  <2>11. Tick => remaining'[p] <= remaining[p]
    BY <2>1 DEF Tick
  <2> QED
    BY <1>1, <2>2, <2>5, <2>6, <2>7, <2>8, <2>9, <2>10, <2>11 DEF Next
<1>2. WaitInv /\ [Next]_vars => [NotRearmed]_vars
  BY <1>1 DEF WaitInv
<1> QED BY Invariant, <1>2, PTL DEF ChainIsNotRearmed, Spec
=============================================================================
