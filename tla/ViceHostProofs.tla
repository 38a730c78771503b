--------------------------- MODULE ViceHostProofs ---------------------------
(* Proofs about what VICE processes share on one host: the life of an x64sc  *)
(* and its watchdog (V, ViceProcess), for any number of emulators, process   *)
(* ids and births, and the port lock (PortLockFile), for any number of       *)
(* processes and inodes.                                                    *)
(*                                                                          *)
(* x64sc.  The watchdog acts on what it was told, so the invariant says what *)
(* a line of its pipe can mean: a process that was the object's own and, as  *)
(* start times are never repeated, is that one still or gone.  It strikes   *)
(* after an end of file only, which a launcher that lives holds off, and a  *)
(* launcher that dies after a disarm has left the disarm to read.  stop()   *)
(* names what it leaves since whatever runs is, at each point of it, the    *)
(* object's process, under a wrapper that runs, in rootPid, or named.       *)
(*                                                                          *)
(* Port.  A process past its recheck owns the flock of the inode its        *)
(* lockfile's name leads to.  Only the owner of that inode can unlink the   *)
(* name (SweepUnlink comes after a recheck of its own), so the recheck,     *)
(* once passed, stays true for as long as the flock is held; and two        *)
(* processes past it would own the same inode.                              *)
EXTENDS MCViceHost, Integers, Sequences, TLAPS

-----------------------------------------------------------------------------
(* What a step does to the process table: nothing, or some processes die,   *)
(* or one is born.                                                          *)
Perishes == /\ UNCHANGED births
            /\ table' = [p \in Pids |-> table'[p]]
            /\ \A p \in Pids : table'[p] \in {table[p], V!Free, V!Corpse(p)}

Arrives == \E p \in Pids, v \in Emulators \union {"other"}, kind \in {"plain", "sudo", "root"} :
              V!Birth(p, v, kind)

LEMMA DeathsPerish ==
    ASSUME V!TypeOK, UNCHANGED births, NEW P, table' = V!Without(P)
    PROVE  Perishes
<1>1. \A p \in Pids : V!Buried(p) \in {V!Free, V!Corpse(p)}
  BY DEF V!Buried
<1> QED BY <1>1 DEF Perishes, V!Without

LEMMA SameTablePerishes ==
    ASSUME V!TypeOK, UNCHANGED V!os PROVE Perishes
BY DEF V!TypeOK, V!os, Perishes

LEMMA StepPerishes ==
    ASSUME V!PidsAssumption, V!TypeOK, [V!Next]_(V!vars)
    PROVE  \/ Perishes
           \/ \E v \in Emulators : V!Launch(v) \/ \E p \in Pids : V!RootStarts(v, p)
           \/ \E p \in Pids : V!OtherStarts(p)
<1>1. CASE UNCHANGED V!vars
  BY <1>1, SameTablePerishes DEF V!vars
<1>2. ASSUME NEW v \in Emulators,
             \/ V!MakePipe(v) \/ V!Register(v) \/ V!SpawnDog(v) \/ V!LaunchFails(v) \/ V!Arm(v)
             \/ V!Unregister(v) \/ V!Detach(v)
             \/ V!TakeEnd(v) \/ V!Disarm(v) \/ V!ForgetDog(v) \/ V!ReapDog(v)
             \/ V!DogReads(v) \/ V!DogMeetsEof(v)
      PROVE  Perishes
  <2>1. UNCHANGED V!os
    BY <1>2 DEF V!MakePipe, V!Register, V!SpawnDog, V!LaunchFails, V!Arm, V!Unregister, V!Detach,
         V!TakeEnd,
                V!Disarm, V!ForgetDog, V!ReapDog, V!DogReads, V!DogMeetsEof
  <2> QED BY <2>1, SameTablePerishes
<1>3. ASSUME V!ExitBegins \/ V!Fork \/ V!ForgetParent PROVE Perishes
  <2>1. UNCHANGED V!os
    BY <1>3 DEF V!ExitBegins, V!Fork, V!ForgetParent
  <2> QED BY <2>1, SameTablePerishes
<1>4. ASSUME NEW p \in Pids, V!EndsByItself(p) PROVE Perishes
  BY <1>4, DeathsPerish DEF V!EndsByItself, V!Dead
<1>5. ASSUME NEW v \in Emulators, V!Terminate(v) PROVE Perishes
  BY <1>5, DeathsPerish, SameTablePerishes DEF V!Terminate, V!Dead, V!os
<1>6. ASSUME NEW v \in Emulators, V!Escalate(v) PROVE Perishes
  BY <1>6, DeathsPerish, SameTablePerishes DEF V!Escalate, V!Dead, V!os
<1>7. ASSUME NEW v \in Emulators, V!Reap(v) \/ V!WaitForExit(v) PROVE Perishes
  <2>1. UNCHANGED births /\ table' = [table EXCEPT ![proc[v]] = V!Free]
    BY <1>7 DEF V!Reap, V!WaitForExit
  <2> QED BY <2>1 DEF V!TypeOK, Perishes
<1>8. ASSUME V!Dies PROVE Perishes
  <2>1. /\ UNCHANGED births
        /\ table' = [p \in Pids |-> IF table[p].st = "zombie" THEN V!Free ELSE table[p]]
    BY <1>8 DEF V!Dies
  <2> QED BY <2>1 DEF Perishes
<1>9. ASSUME V!ChildExits PROVE Perishes
  BY <1>9, DeathsPerish DEF V!ChildExits
<1>10. ASSUME NEW v \in Emulators, V!DogTerminates(v) \/ V!DogKills(v) PROVE Perishes
  BY <1>10, DeathsPerish, SameTablePerishes DEF V!DogTerminates, V!DogKills, V!os
<1> QED
  BY <1>1, <1>2, <1>3, <1>4, <1>5, <1>6, <1>7, <1>8, <1>9, <1>10
     DEF V!Next, V!Call, V!Dog, V!ExitEnds, V!Killed

LEMMA TableStep ==
    ASSUME V!PidsAssumption, V!TypeOK, [V!Next]_(V!vars)
    PROVE  Perishes \/ Arrives
<1>1. ASSUME NEW v \in Emulators, V!Launch(v) PROVE Arrives
  BY <1>1 DEF V!Launch, Arrives
<1>2. ASSUME NEW v \in Emulators, NEW p \in Pids, V!RootStarts(v, p) PROVE Arrives
  BY <1>2 DEF V!RootStarts, Arrives
<1>3. ASSUME NEW p \in Pids, V!OtherStarts(p) PROVE Arrives
  BY <1>3 DEF V!OtherStarts, Arrives
<1> QED BY <1>1, <1>2, <1>3, StepPerishes

(* A corpse is the process it was, dead.                                    *)
LEMMA CorpseIs ==
    ASSUME NEW p \in Pids, table[p] \in V!Entry
    PROVE  /\ V!Corpse(p) \in V!Entry
           /\ V!Corpse(p).of = table[p].of /\ V!Corpse(p).kind = table[p].kind
           /\ V!Corpse(p).born = table[p].born /\ V!Corpse(p).st = "zombie"
<1> DEFINE e == table[p]
<1>1. e \in V!Entry
  OBVIOUS
<1>2. V!Corpse(p) = [e EXCEPT !.st = "zombie"]
  BY DEF V!Corpse
<1>3. /\ [e EXCEPT !.st = "zombie"] \in V!Entry
      /\ [e EXCEPT !.st = "zombie"].of = e.of /\ [e EXCEPT !.st = "zombie"].kind = e.kind
      /\ [e EXCEPT !.st = "zombie"].born = e.born /\ [e EXCEPT !.st = "zombie"].st = "zombie"
  <2> HIDE DEF e
  <2> QED BY <1>1 DEF V!Entry
<1> QED BY <1>2, <1>3

LEMMA FreeIs ==
    /\ V!Free \in V!Entry /\ V!Free.born = 0 /\ V!Free.of = "nobody" /\ V!Free.kind = "none"
    /\ V!Free.st = "free"
BY DEF V!Free, V!Entry

(* The table stays one, a process keeps its age, and what runs either ran or *)
(* is younger than everything that did.                                     *)
Ages == \A p \in Pids : \/ table'[p] = table[p]
                        \/ table'[p].st # "up"
                        \/ table'[p].born > births /\ table[p].st = "free"

LEMMA TableKept ==
    ASSUME V!TypeOK, V!BornInTime, Perishes \/ Arrives
    PROVE  /\ table' \in [Pids -> V!Entry] /\ births' \in Nat /\ births' >= births
           /\ V!BornInTime' /\ Ages
<1>0. table \in [Pids -> V!Entry] /\ births \in Nat /\ \A p \in Pids : table[p].born <= births
  BY DEF V!TypeOK, V!BornInTime
<1>1. CASE Perishes
  <2>1. ASSUME NEW p \in Pids
        PROVE  /\ table'[p] \in V!Entry /\ table'[p].born <= births
               /\ table'[p] = table[p] \/ table'[p].st # "up"
    <3>1. table[p] \in V!Entry /\ table[p].born <= births
      BY <1>0
    <3>2. CASE table'[p] = table[p]
      BY <3>1, <3>2
    <3>3. CASE table'[p] = V!Free
      BY <3>3, FreeIs, <1>0
    <3>4. CASE table'[p] = V!Corpse(p)
      BY <3>4, <3>1, CorpseIs
    <3> QED BY <1>1, <3>2, <3>3, <3>4 DEF Perishes
  <2>2. births' = births /\ table' = [p \in Pids |-> table'[p]]
    BY <1>1 DEF Perishes
  <2>3. table' \in [Pids -> V!Entry]
    BY <2>1, <2>2
  <2>4. V!BornInTime'
    BY <2>1, <2>2 DEF V!BornInTime
  <2>5. Ages
    BY <2>1 DEF Ages
  <2> QED BY <1>0, <2>2, <2>3, <2>4, <2>5
<1>2. CASE Arrives
  <2>1. PICK p \in Pids, v \in Emulators \union {"other"}, kind \in {"plain", "sudo", "root"} :
           V!Birth(p, v, kind)
    BY <1>2 DEF Arrives
  <2> DEFINE e == [of |-> v, kind |-> kind, born |-> births + 1, st |-> "up"]
  <2>2. births' = births + 1 /\ table' = [table EXCEPT ![p] = e] /\ table[p].st = "free"
    BY <2>1 DEF V!Birth
  <2>3. e \in V!Entry /\ e.born = births + 1
    BY <1>0 DEF V!Entry
  <2> HIDE DEF e
  <2>4. table' \in [Pids -> V!Entry]
    BY <1>0, <2>2, <2>3
  <2>5. \A q \in Pids : table[q].born \in Nat
    BY <1>0 DEF V!Entry
  <2>6. V!BornInTime'
    BY <1>0, <2>2, <2>3, <2>5 DEF V!BornInTime
  <2>7. Ages
    BY <1>0, <2>2, <2>3 DEF Ages
  <2> QED BY <1>0, <2>2, <2>4, <2>6, <2>7
<1> QED BY <1>1, <1>2

-----------------------------------------------------------------------------
LEMMA InitInv ==
    ASSUME V!PidsAssumption, V!Init PROVE V!ProcessInv
<1>1. V!TypeOK
  <2>1. table \in [Pids -> V!Entry]
    BY FreeIs DEF V!Init
  <2>2. V!NoTarget \in V!Line
    BY DEF V!NoTarget, V!Line
  <2>3. pipe \in [Emulators -> Seq(V!Line)] /\ target \in [Emulators -> V!Line]
    BY <2>2 DEF V!Init
  <2> QED BY <2>1, <2>3 DEF V!Init, V!TypeOK, V!Calls
<1>2. V!BornInTime
  BY FreeIs DEF V!Init, V!BornInTime
<1>3. V!OwnProcess /\ V!NoProcessYet
  BY DEF V!Init, V!OwnProcess, V!NoProcessYet
<1>4. V!LinesAreMine
  BY DEF V!Init, V!LinesAreMine, V!Mine, V!Same, V!Up, V!NoTarget
<1>5. V!DogIsHeld
  BY DEF V!Init, V!DogIsHeld
<1>6. V!ChildForgot /\ V!OnlyOrphansAreStruck
  BY DEF V!Init, V!ChildForgot, V!OnlyOrphansAreStruck
<1>7. V!OneRoot
  BY FreeIs DEF V!Init, V!OneRoot
<1>8. V!SurvivorsAreKnown
  BY FreeIs DEF V!Init, V!SurvivorsAreKnown, V!Running, V!Up
<1> QED
  BY <1>1, <1>2, <1>3, <1>4, <1>5, <1>6, <1>7, <1>8 DEF V!ProcessInv, V!StrikeInv

(* The root x64sc that is found is one, and is found when there is one.     *)
LEMMA MyRootIs ==
    ASSUME V!PidsAssumption, NEW v
    PROVE  /\ V!MyRoot(v) # NoPid =>
                 /\ V!MyRoot(v) \in Pids /\ V!Up(V!MyRoot(v)) /\ table[V!MyRoot(v)].of = v
                 /\ table[V!MyRoot(v)].kind = "root"
           /\ V!MyRoot(v) = NoPid =>
                 \A p \in Pids : V!Up(p) /\ V!Up(proc[v]) /\ table[p].of = v => table[p].kind # "root"
<1> DEFINE r == {p \in Pids : V!Up(p) /\ table[p].of = v /\ table[p].kind = "root" /\ V!Up(proc[v])}
<1>1. CASE r = {}
  BY <1>1 DEF V!MyRoot
<1>2. CASE r # {}
  <2>1. V!MyRoot(v) \in r
    BY <1>2 DEF V!MyRoot
  <2> QED BY <2>1 DEF V!PidsAssumption
<1> QED BY <1>1, <1>2

(* Types.                                                                   *)
Fields == /\ launcher \in {"alive", "exiting", "dead"}
          /\ child \in {"none", "forked", "running", "gone"}
          /\ childEnds \subseteq Emulators /\ childKnows \subseteq Emulators
          /\ childLive \subseteq Emulators /\ guard \in BOOLEAN
          /\ live \subseteq Emulators /\ dogs \subseteq Emulators
          /\ phase \in [Emulators -> V!Calls]
          /\ proc \in [Emulators -> Pids \union {NoPid}]
          /\ rootPid \in [Emulators -> Pids \union {NoPid}]
          /\ sudo \in [Emulators -> BOOLEAN] /\ wfd \in [Emulators -> BOOLEAN]
          /\ end \in [Emulators -> BOOLEAN]
          /\ dog \in [Emulators -> {"none", "reading", "armed", "term", "grace"}]

Watched == pipe \in [Emulators -> Seq(V!Line)] /\ target \in [Emulators -> V!Line]

LEMMA TypeParts ==
    V!TypeOK <=> table \in [Pids -> V!Entry] /\ births \in Nat /\ Fields /\ Watched
BY DEF V!TypeOK, Fields, Watched

LEMMA FieldsStep ==
    ASSUME V!PidsAssumption, Fields, [V!Next]_(V!vars)
    PROVE  Fields'
<1> USE DEF Fields, V!Calls
<1>1. CASE UNCHANGED V!vars
  BY <1>1 DEF V!vars, V!forked, V!registry, V!object, V!watch
<1>2. ASSUME NEW v \in Emulators, V!MakePipe(v) \/ V!Register(v) \/ V!SpawnDog(v) PROVE Fields'
  <2>1. CASE V!MakePipe(v)
    BY <2>1 DEF V!MakePipe, V!Step, V!forked
  <2>2. CASE V!Register(v)
    BY <2>2 DEF V!Register, V!Step, V!forked, V!watch
  <2>3. CASE V!SpawnDog(v)
    BY <2>3 DEF V!SpawnDog, V!Step, V!forked
  <2> QED BY <1>2, <2>1, <2>2, <2>3
<1>3. ASSUME NEW v \in Emulators, V!Launch(v) \/ V!LaunchFails(v) \/ V!Arm(v) PROVE Fields'
  BY <1>3 DEF V!Launch, V!LaunchFails, V!Arm, V!Step, V!forked, V!registry, V!watch
<1>4. ASSUME NEW v \in Emulators, V!Terminate(v) \/ V!Escalate(v) PROVE Fields'
  <2>1. V!MyRoot(v) \in Pids \union {NoPid}
    BY MyRootIs
  <2> QED BY <1>4, <2>1 DEF V!Terminate, V!Escalate, V!Step, V!forked, V!registry, V!watch
<1>5. ASSUME NEW v \in Emulators, V!Reap(v) \/ V!WaitForExit(v) PROVE Fields'
  BY <1>5 DEF V!Reap, V!WaitForExit, V!Step, V!forked, V!registry, V!watch
<1>6. ASSUME NEW v \in Emulators, V!Unregister(v) \/ V!Detach(v) PROVE Fields'
  BY <1>6 DEF V!Unregister, V!AfterProcess, V!Detach, V!Step, V!forked, V!watch
<1>7. ASSUME NEW v \in Emulators, V!TakeEnd(v) \/ V!Disarm(v) \/ V!ForgetDog(v) \/ V!ReapDog(v)
      PROVE  Fields'
  BY <1>7 DEF V!TakeEnd, V!Disarm, V!ForgetDog, V!ReapDog, V!Step, V!forked, V!registry, V!watch
<1>8. ASSUME NEW v \in Emulators, V!Dog(v) PROVE Fields'
  BY <1>8 DEF V!Dog, V!DogReads, V!DogMeetsEof, V!DogTerminates, V!DogKills, V!forked, V!registry,
       V!object
<1>9. CASE V!ExitBegins \/ V!Dies \/ V!Fork \/ V!ForgetParent \/ V!ChildExits
  BY <1>9 DEF V!ExitBegins, V!Dies, V!Fork, V!ForgetParent, V!ChildExits, V!forked, V!registry,
       V!object, V!watch
<1>10. ASSUME NEW v \in Emulators, NEW p \in Pids, V!RootStarts(v, p) PROVE Fields'
  BY <1>10 DEF V!RootStarts, V!forked, V!registry, V!object, V!watch
<1>11. ASSUME NEW p \in Pids, V!OtherStarts(p) \/ V!EndsByItself(p) PROVE Fields'
  BY <1>11 DEF V!OtherStarts, V!EndsByItself, V!forked, V!registry, V!object, V!watch
<1> QED
  BY <1>1, <1>2, <1>3, <1>4, <1>5, <1>6, <1>7, <1>8, <1>9, <1>10, <1>11
     DEF V!Next, V!Call, V!ExitEnds, V!Killed

LEMMA NoTargetIs == V!NoTarget \in V!Line
BY DEF V!NoTarget, V!Line

LEMMA WatchedStep ==
    ASSUME V!PidsAssumption, V!TypeOK, [V!Next]_(V!vars)
    PROVE  Watched'
<1>0. Watched /\ V!NoTarget \in V!Line
  BY TypeParts, NoTargetIs
<1>1. CASE UNCHANGED V!watch
  BY <1>0, <1>1 DEF V!watch, Watched
<1>2. ASSUME NEW v \in Emulators, V!MakePipe(v) PROVE Watched'
  BY <1>0, <1>2 DEF V!MakePipe, Watched
<1>3. ASSUME NEW v \in Emulators, V!SpawnDog(v) \/ V!ReapDog(v) \/ V!DogMeetsEof(v)
      PROVE  Watched'
  BY <1>0, <1>3 DEF V!SpawnDog, V!ReapDog, V!DogMeetsEof, Watched
<1>4. ASSUME NEW v \in Emulators, V!Arm(v) PROVE Watched'
  <2>0. target' = target
    BY <1>4 DEF V!Arm
  <2>1. CASE pipe' = pipe
    BY <1>0, <2>0, <2>1 DEF Watched
  <2>2. CASE pipe' # pipe
    <3> DEFINE line == [pid |-> proc[v], born |-> table[proc[v]].born]
    <3>1. wfd[v] /\ V!Up(proc[v]) /\ pipe' = [pipe EXCEPT ![v] = Append(@, line)]
      BY <1>4, <2>2 DEF V!Arm
    <3>2. line \in V!Line
      <4>1. proc[v] \in Pids
        BY <3>1 DEF V!Up, V!TypeOK
      <4>2. table[proc[v]] \in V!Entry
        BY <4>1 DEF V!TypeOK
      <4> QED BY <4>1, <4>2 DEF V!Entry, V!Line
    <3> HIDE DEF line
    <3> QED BY <1>0, <2>0, <3>1, <3>2 DEF Watched
  <2> QED BY <2>1, <2>2
<1>5. ASSUME NEW v \in Emulators, V!Disarm(v) PROVE Watched'
  BY <1>0, <1>5 DEF V!Disarm, Watched
<1>6. ASSUME NEW v \in Emulators, V!DogReads(v) PROVE Watched'
  <2>1. pipe[v] \in Seq(V!Line) /\ pipe[v] # <<>>
    BY <1>0, <1>6 DEF V!DogReads, Watched
  <2>2. Head(pipe[v]) \in V!Line /\ Tail(pipe[v]) \in Seq(V!Line)
    BY <2>1
  <2>3. /\ pipe' = [pipe EXCEPT ![v] = Tail(@)]
        /\ target' = target \/ target' = [target EXCEPT ![v] = Head(pipe[v])]
    BY <1>6 DEF V!DogReads
  <2> QED BY <1>0, <2>2, <2>3 DEF Watched
<1>7. ASSUME NEW v \in Emulators, V!DogTerminates(v) \/ V!DogKills(v) PROVE Watched'
  BY <1>0, <1>7 DEF V!DogTerminates, V!DogKills, Watched
<1>8. ASSUME NEW v \in Emulators,
             \/ V!Register(v) \/ V!Launch(v) \/ V!LaunchFails(v) \/ V!Terminate(v) \/ V!Escalate(v)
             \/ V!Reap(v) \/ V!WaitForExit(v) \/ V!Unregister(v) \/ V!Detach(v) \/ V!TakeEnd(v)
             \/ V!ForgetDog(v)
      PROVE  UNCHANGED V!watch
  BY <1>8 DEF V!Register, V!Launch, V!LaunchFails, V!Terminate, V!Escalate, V!Reap, V!WaitForExit,
       V!Unregister,
              V!Detach, V!TakeEnd, V!ForgetDog
<1>9. ASSUME NEW v \in Emulators, NEW p \in Pids, V!RootStarts(v, p) PROVE UNCHANGED V!watch
  BY <1>9 DEF V!RootStarts
<1>10. ASSUME NEW p \in Pids, V!OtherStarts(p) \/ V!EndsByItself(p) PROVE UNCHANGED V!watch
  BY <1>10 DEF V!OtherStarts, V!EndsByItself
<1>11. ASSUME V!ExitBegins \/ V!Dies \/ V!Fork \/ V!ForgetParent \/ V!ChildExits PROVE UNCHANGED V!watch
  BY <1>11 DEF V!ExitBegins, V!Dies, V!Fork, V!ForgetParent, V!ChildExits
<1>12. UNCHANGED V!vars => UNCHANGED V!watch
  BY DEF V!vars
<1> QED
  BY <1>1, <1>2, <1>3, <1>4, <1>5, <1>6, <1>7, <1>8, <1>9, <1>10, <1>11, <1>12
     DEF V!Next, V!Call, V!Dog, V!ExitEnds, V!Killed

LEMMA TypeStep ==
    ASSUME V!PidsAssumption, V!TypeOK, V!BornInTime, [V!Next]_(V!vars)
    PROVE  V!TypeOK' /\ V!BornInTime' /\ Ages /\ births' >= births
<1>1. table' \in [Pids -> V!Entry] /\ births' \in Nat /\ births' >= births /\ V!BornInTime' /\ Ages
  BY TableStep, TableKept
<1>2. Fields' /\ Watched'
  BY FieldsStep, WatchedStep, TypeParts
<1>3. V!TypeOK'
  BY <1>1, <1>2 DEF V!TypeOK, Fields, Watched
<1> QED BY <1>1, <1>3

-----------------------------------------------------------------------------
(* An object's process is its own.  A dead one stays in the table, awaited,  *)
(* for as long as the launcher lives.                                       *)
Owned(v, p) == /\ table[p].of = v /\ table[p].st # "free"
               /\ table[p].kind = IF sudo[v] THEN "sudo" ELSE "plain"

LEMMA AwaitedStays ==
    ASSUME V!TypeOK, launcher # "dead", NEW v \in Emulators, proc[v] \in Pids, Owned(v, proc[v]),
           NEW P, table' = V!Without(P)
    PROVE  /\ table'[proc[v]].of = v /\ table'[proc[v]].st # "free"
           /\ table'[proc[v]].kind = IF sudo[v] THEN "sudo" ELSE "plain"
<1> DEFINE p == proc[v]
<1>1. table[p] \in V!Entry
  BY DEF V!TypeOK
<1>2. V!Buried(p) = V!Corpse(p)
  BY DEF V!Buried, V!Awaited
<1>3. table'[p] \in {table[p], V!Corpse(p)}
  BY <1>2 DEF V!Without
<1>4. V!Corpse(p).of = table[p].of /\ V!Corpse(p).kind = table[p].kind /\ V!Corpse(p).st = "zombie"
  BY <1>1, CorpseIs
<1>5. CASE table'[p] = table[p]
  BY <1>5 DEF Owned
<1>6. CASE table'[p] = V!Corpse(p)
  BY <1>6, <1>4 DEF Owned
<1> QED BY <1>3, <1>5, <1>6

\* What an object's process goes through while the object keeps it.
Spared == \/ table' = table
          \/ \E P : table' = V!Without(P)
          \/ Arrives

LEMMA OwnedStays ==
    ASSUME V!TypeOK, launcher # "dead", V!OwnProcess, UNCHANGED <<proc, sudo>>, Spared
    PROVE  V!OwnProcess'
<1> SUFFICES ASSUME NEW v \in Emulators, proc[v] # NoPid
             PROVE  /\ table'[proc[v]].of = v /\ table'[proc[v]].st # "free"
                    /\ table'[proc[v]].kind = IF sudo[v] THEN "sudo" ELSE "plain"
  BY DEF V!OwnProcess
<1>1. proc[v] \in Pids
  BY DEF V!TypeOK
<1>2. Owned(v, proc[v])
  BY DEF V!OwnProcess, Owned
<1>3. CASE table' = table
  BY <1>2, <1>3 DEF Owned
<1>4. CASE \E P : table' = V!Without(P)
  BY <1>1, <1>2, <1>4, AwaitedStays
<1>5. CASE Arrives
  <2>1. PICK p \in Pids, w \in Emulators \union {"other"}, kind \in {"plain", "sudo", "root"} :
           V!Birth(p, w, kind)
    BY <1>5 DEF Arrives
  <2>2. table'[proc[v]] = table[proc[v]]
    BY <1>1, <1>2, <2>1 DEF V!Birth, Owned, V!TypeOK
  <2> QED BY <1>2, <2>2 DEF Owned
<1> QED BY <1>3, <1>4, <1>5 DEF Spared

\* The calls that take or leave a process are Launch, Reap and WaitForExit.
LEMMA OwnStep ==
    ASSUME V!PidsAssumption, V!TypeOK, V!TypeOK', V!OwnProcess, [V!Next]_(V!vars)
    PROVE  V!OwnProcess'
<1> SUFFICES ASSUME launcher' # "dead" PROVE V!OwnProcess'
  BY DEF V!OwnProcess
<1>0. ASSUME launcher # "dead", UNCHANGED <<proc, sudo>>, Spared PROVE V!OwnProcess'
  BY <1>0, OwnedStays
<1>1. CASE UNCHANGED V!vars
  BY <1>1 DEF V!vars, V!os, V!object, V!OwnProcess
<1>2. ASSUME NEW v \in Emulators,
             \/ V!MakePipe(v) \/ V!Register(v) \/ V!SpawnDog(v) \/ V!LaunchFails(v) \/ V!Arm(v)
             \/ V!Unregister(v) \/ V!Detach(v)
             \/ V!TakeEnd(v) \/ V!Disarm(v) \/ V!ForgetDog(v) \/ V!ReapDog(v)
             \/ V!DogReads(v) \/ V!DogMeetsEof(v)
      PROVE  V!OwnProcess'
  <2>1. UNCHANGED <<table, launcher, proc, sudo>>
    BY <1>2 DEF V!MakePipe, V!Register, V!SpawnDog, V!LaunchFails, V!Arm, V!Unregister, V!Detach,
         V!TakeEnd,
                V!Disarm, V!ForgetDog, V!ReapDog, V!DogReads, V!DogMeetsEof, V!os, V!object
  <2> QED BY <2>1 DEF V!OwnProcess
<1>3. ASSUME V!ExitBegins \/ V!Fork \/ V!ForgetParent PROVE V!OwnProcess'
  <2>1. UNCHANGED <<table, proc, sudo>> /\ (launcher' # "dead" => launcher # "dead")
    BY <1>3 DEF V!ExitBegins, V!Fork, V!ForgetParent, V!os, V!object
  <2> QED BY <2>1 DEF V!OwnProcess
<1>4. ASSUME NEW v \in Emulators, V!Launch(v) PROVE V!OwnProcess'
  <2>1. PICK p \in Pids, wrapped \in BOOLEAN :
           /\ table[p].st = "free"
           /\ table' = [table EXCEPT ![p] = [of |-> v, kind |-> IF wrapped THEN "sudo" ELSE "plain",
                                             born |-> births + 1, st |-> "up"]]
           /\ proc' = [proc EXCEPT ![v] = p] /\ sudo' = [sudo EXCEPT ![v] = wrapped]
    BY <1>4 DEF V!Launch, V!Birth
  <2>2. launcher # "dead"
    BY <1>4 DEF V!Launch, V!Thread
  <2>3. ASSUME NEW w \in Emulators, proc'[w] # NoPid
        PROVE  /\ table'[proc'[w]].of = w /\ table'[proc'[w]].st # "free"
               /\ table'[proc'[w]].kind = IF sudo'[w] THEN "sudo" ELSE "plain"
    <3>1. CASE w = v
      <4>1. proc'[w] = p /\ sudo'[w] = wrapped
        BY <3>1, <2>1 DEF V!TypeOK
      <4>2. table'[p] = [of |-> v, kind |-> IF wrapped THEN "sudo" ELSE "plain",
                         born |-> births + 1, st |-> "up"]
        BY <2>1 DEF V!TypeOK
      <4> QED BY <4>1, <4>2, <3>1
    <3>2. CASE w # v
      <4>1. proc'[w] = proc[w] /\ sudo'[w] = sudo[w]
        BY <3>2, <2>1 DEF V!TypeOK
      <4>2. proc[w] \in Pids /\ Owned(w, proc[w])
        BY <2>2, <2>3, <4>1 DEF V!OwnProcess, Owned, V!TypeOK
      <4>3. table'[proc[w]] = table[proc[w]]
        BY <2>1, <4>2 DEF Owned, V!TypeOK
      <4> QED BY <4>1, <4>2, <4>3 DEF Owned
    <3> QED BY <3>1, <3>2
  <2> QED BY <2>3 DEF V!OwnProcess
<1>5. ASSUME NEW v \in Emulators, V!Reap(v) \/ V!WaitForExit(v) PROVE V!OwnProcess'
  <2>1. /\ table' = [table EXCEPT ![proc[v]] = V!Free] /\ proc' = [proc EXCEPT ![v] = NoPid]
        /\ sudo' = sudo /\ launcher # "dead"
    BY <1>5 DEF V!Reap, V!WaitForExit, V!Thread
  <2>2. ASSUME NEW w \in Emulators, proc'[w] # NoPid
        PROVE  /\ table'[proc'[w]].of = w /\ table'[proc'[w]].st # "free"
               /\ table'[proc'[w]].kind = IF sudo'[w] THEN "sudo" ELSE "plain"
    <3>1. w # v /\ proc'[w] = proc[w]
      BY <2>1, <2>2 DEF V!TypeOK
    <3>2. proc[w] \in Pids /\ Owned(w, proc[w])
      BY <2>1, <2>2, <3>1 DEF V!OwnProcess, Owned, V!TypeOK
    <3>3. proc[v] # proc[w]
      BY <2>1, <3>1, <3>2, V!PidsAssumption DEF V!OwnProcess, Owned, V!PidsAssumption
    <3>4. table'[proc[w]] = table[proc[w]]
      BY <2>1, <3>2, <3>3 DEF V!TypeOK
    <3> QED BY <2>1, <3>1, <3>2, <3>4 DEF Owned
  <2> QED BY <2>2 DEF V!OwnProcess
<1>6. ASSUME NEW v \in Emulators, V!Terminate(v) \/ V!Escalate(v) PROVE V!OwnProcess'
  <2>1. launcher # "dead" /\ UNCHANGED <<proc, sudo>> /\ Spared
    BY <1>6 DEF V!Terminate, V!Escalate, V!Thread, V!Dead, Spared
  <2> QED BY <2>1, <1>0
<1>7. CASE V!Dies
  BY <1>7 DEF V!Dies
<1>8. CASE V!ChildExits
  <2>1. launcher # "dead" /\ UNCHANGED <<proc, sudo>> /\ Spared
    BY <1>8 DEF V!ChildExits, Spared, V!object
  <2> QED BY <2>1, <1>0
<1>9. ASSUME NEW v \in Emulators, V!DogTerminates(v) \/ V!DogKills(v) PROVE V!OwnProcess'
  <2>1. launcher # "dead" /\ UNCHANGED <<proc, sudo>> /\ Spared
    BY <1>9 DEF V!DogTerminates, V!DogKills, Spared, V!object
  <2> QED BY <2>1, <1>0
<1>10. ASSUME NEW v \in Emulators, NEW p \in Pids, V!RootStarts(v, p) PROVE V!OwnProcess'
  <2>1. launcher # "dead" /\ UNCHANGED <<proc, sudo>> /\ Spared
    BY <1>10 DEF V!RootStarts, Spared, Arrives, V!object
  <2> QED BY <2>1, <1>0
<1>11. ASSUME NEW p \in Pids, V!OtherStarts(p) \/ V!EndsByItself(p) PROVE V!OwnProcess'
  <2>1. launcher # "dead" /\ UNCHANGED <<proc, sudo>> /\ Spared
    BY <1>11 DEF V!OtherStarts, V!EndsByItself, V!Dead, Spared, Arrives, V!object
  <2> QED BY <2>1, <1>0
<1> QED
  BY <1>1, <1>2, <1>3, <1>4, <1>5, <1>6, <1>7, <1>8, <1>9, <1>10, <1>11
     DEF V!Next, V!Call, V!Dog, V!ExitEnds, V!Killed

-----------------------------------------------------------------------------
(* A line never comes to mean another's process: process ids are reused, but  *)
(* what is born later has a later start time.                               *)
MineLater(v, line) ==
    /\ line.born <= births'
    /\ (line.pid # NoPid /\ table'[line.pid].st = "up" /\ table'[line.pid].born = line.born)
          => table'[line.pid].of = v

LEMMA MineStays ==
    ASSUME V!PidsAssumption, V!TypeOK, V!TypeOK', Ages, births' >= births,
           NEW v, NEW line \in V!Line, V!Mine(v, line)
    PROVE  MineLater(v, line)
<1>0. births \in Nat /\ births' \in Nat /\ line.born \in Nat /\ line.pid \in Pids \union {NoPid}
  BY DEF V!TypeOK, V!Line
<1>1. line.born <= births /\ line.born <= births'
  BY <1>0 DEF V!Mine
<1>2. ASSUME line.pid # NoPid, table'[line.pid].st = "up", table'[line.pid].born = line.born
      PROVE  table'[line.pid].of = v
  <2>1. line.pid \in Pids
    BY <1>0, <1>2
  <2>2. table'[line.pid] = table[line.pid]
    BY <1>0, <1>1, <1>2, <2>1 DEF Ages
  <2>3. V!Same(line)
    BY <1>2, <2>1, <2>2 DEF V!Same, V!Up
  <2> QED BY <2>2, <2>3 DEF V!Mine
<1> QED BY <1>1, <1>2 DEF MineLater

LEMMA NoTargetIsMine ==
    ASSUME V!TypeOK, NEW v PROVE V!Mine(v, V!NoTarget)
BY DEF V!TypeOK, V!Mine, V!NoTarget, V!Same, V!Up

\* What the watchdog of v can have been told so far.
Heard(v) == {target[v], V!NoTarget} \union {pipe[v][i] : i \in 1 .. Len(pipe[v])}

LEMMA HeardIsMine ==
    ASSUME V!PidsAssumption, V!TypeOK, V!TypeOK', Ages, births' >= births, V!LinesAreMine,
           NEW v \in Emulators, NEW line \in Heard(v)
    PROVE  MineLater(v, line)
<1>1. pipe[v] \in Seq(V!Line) /\ target[v] \in V!Line
  BY DEF V!TypeOK
<1>2. \A i \in 1 .. Len(pipe[v]) : pipe[v][i] \in V!Line
  BY <1>1
<1>3. line \in V!Line
  BY <1>1, <1>2, NoTargetIs DEF Heard
<1>4. V!Mine(v, line)
  BY NoTargetIsMine DEF Heard, V!LinesAreMine
<1> QED BY <1>3, <1>4, MineStays

OnlyHeard(v) == target'[v] \in Heard(v) /\ \A i \in 1 .. Len(pipe'[v]) : pipe'[v][i] \in Heard(v)

LEMMA SilenceIsHeard ==
    ASSUME NEW v \in Emulators, target'[v] \in Heard(v), pipe'[v] = pipe[v]
    PROVE  OnlyHeard(v)
BY DEF OnlyHeard, Heard

LEMMA AppendIs ==
    ASSUME NEW S, NEW s \in Seq(S), NEW e \in S
    PROVE  /\ Append(s, e) \in Seq(S) /\ Len(Append(s, e)) = Len(s) + 1 /\ Len(s) \in Nat
           /\ \A i \in 1 .. Len(Append(s, e)) :
                 \/ i \in 1 .. Len(s) /\ Append(s, e)[i] = s[i]
                 \/ i = Len(s) + 1 /\ Append(s, e)[i] = e
OBVIOUS

LEMMA TailIs ==
    ASSUME NEW S, NEW s \in Seq(S), s # <<>>
    PROVE  /\ Tail(s) \in Seq(S) /\ Len(Tail(s)) = Len(s) - 1 /\ Len(s) \in Nat /\ Len(s) >= 1
           /\ \A i \in 1 .. Len(Tail(s)) : i + 1 \in 1 .. Len(s) /\ Tail(s)[i] = s[i + 1]
           /\ Head(s) = s[1]
OBVIOUS

\* Arm() sends the object's own process; nothing else sends a process.
LEMMA LinesSent ==
    ASSUME V!PidsAssumption, V!TypeOK, [V!Next]_(V!vars), ~ \E v \in Emulators : V!Arm(v)
    PROVE  \A v \in Emulators : OnlyHeard(v)
<1>0. Watched /\ V!NoTarget \in V!Line /\ \A v \in Emulators : pipe[v] \in Seq(V!Line)
  BY TypeParts, NoTargetIs DEF Watched
<1>1. ASSUME UNCHANGED <<pipe, target>> PROVE \A v \in Emulators : OnlyHeard(v)
  BY <1>1, SilenceIsHeard DEF Heard
<1>2. ASSUME NEW v \in Emulators, V!MakePipe(v) PROVE \A w \in Emulators : OnlyHeard(w)
  <2>1. /\ pipe' = [pipe EXCEPT ![v] = <<>>] /\ target' = [target EXCEPT ![v] = V!NoTarget]
    BY <1>2 DEF V!MakePipe
  <2>2. pipe'[v] = <<>> /\ target'[v] = V!NoTarget
    BY <2>1, <1>0 DEF Watched
  <2>3. OnlyHeard(v)
    BY <2>2 DEF OnlyHeard, Heard
  <2>4. \A w \in Emulators : w # v => pipe'[w] = pipe[w] /\ target'[w] = target[w]
    BY <2>1, <1>0 DEF Watched
  <2>5. \A w \in Emulators : target[w] \in Heard(w)
    BY DEF Heard
  <2> QED BY <2>3, <2>4, <2>5, SilenceIsHeard
<1>3. ASSUME NEW v \in Emulators, V!Disarm(v) PROVE \A w \in Emulators : OnlyHeard(w)
  <2>1. pipe' = [pipe EXCEPT ![v] = Append(@, V!NoTarget)] /\ target' = target
    BY <1>3 DEF V!Disarm
  <2>2. pipe'[v] = Append(pipe[v], V!NoTarget)
    BY <2>1, <1>0 DEF Watched
  <2>3. OnlyHeard(v)
    <3>1. \A i \in 1 .. Len(pipe'[v]) : pipe'[v][i] \in Heard(v)
      BY <2>2, <1>0, AppendIs DEF Heard
    <3> QED BY <2>1, <3>1 DEF OnlyHeard, Heard
  <2>4. \A w \in Emulators : w # v => pipe'[w] = pipe[w] /\ target'[w] = target[w]
    BY <2>1, <1>0 DEF Watched
  <2>5. \A w \in Emulators : target[w] \in Heard(w)
    BY DEF Heard
  <2> QED BY <2>3, <2>4, <2>5, SilenceIsHeard
<1>4. ASSUME NEW v \in Emulators, V!DogReads(v) PROVE \A w \in Emulators : OnlyHeard(w)
  <2>1. /\ pipe' = [pipe EXCEPT ![v] = Tail(@)] /\ pipe[v] # <<>>
        /\ target' = target \/ target' = [target EXCEPT ![v] = Head(pipe[v])]
    BY <1>4 DEF V!DogReads
  <2>2. pipe'[v] = Tail(pipe[v]) /\ target'[v] \in {target[v], Head(pipe[v])}
    BY <2>1, <1>0 DEF Watched
  <2>3. OnlyHeard(v)
    <3>1. \A i \in 1 .. Len(pipe'[v]) : pipe'[v][i] \in Heard(v)
      BY <2>1, <2>2, <1>0, TailIs DEF Heard
    <3>2. target'[v] \in Heard(v)
      <4>1. Head(pipe[v]) = pipe[v][1] /\ 1 \in 1 .. Len(pipe[v])
        BY <2>1, <1>0, TailIs
      <4> QED BY <2>2, <4>1 DEF Heard
    <3> QED BY <3>1, <3>2 DEF OnlyHeard
  <2>4. \A w \in Emulators : w # v => pipe'[w] = pipe[w] /\ target'[w] = target[w]
    BY <2>1, <1>0 DEF Watched
  <2>5. \A w \in Emulators : target[w] \in Heard(w)
    BY DEF Heard
  <2> QED BY <2>3, <2>4, <2>5, SilenceIsHeard
<1>5. ASSUME NEW v \in Emulators,
             \/ V!Register(v) \/ V!SpawnDog(v) \/ V!Launch(v) \/ V!LaunchFails(v)
             \/ V!Terminate(v) \/ V!Escalate(v) \/ V!Reap(v) \/ V!WaitForExit(v) \/ V!Unregister(v)
             \/ V!Detach(v) \/ V!TakeEnd(v) \/ V!ForgetDog(v) \/ V!ReapDog(v)
             \/ V!DogMeetsEof(v) \/ V!DogTerminates(v) \/ V!DogKills(v)
      PROVE  UNCHANGED <<pipe, target>>
  BY <1>5 DEF V!Register, V!SpawnDog, V!Launch, V!LaunchFails, V!Terminate, V!Escalate, V!Reap,
       V!WaitForExit,
              V!Unregister, V!Detach, V!TakeEnd, V!ForgetDog, V!ReapDog, V!DogMeetsEof, V!DogTerminates,
              V!DogKills, V!watch
<1>6. ASSUME NEW v \in Emulators, NEW p \in Pids, V!RootStarts(v, p) PROVE UNCHANGED <<pipe, target>>
  BY <1>6 DEF V!RootStarts, V!watch
<1>7. ASSUME NEW p \in Pids, V!OtherStarts(p) \/ V!EndsByItself(p) PROVE UNCHANGED <<pipe, target>>
  BY <1>7 DEF V!OtherStarts, V!EndsByItself, V!watch
<1>8. ASSUME V!ExitBegins \/ V!Dies \/ V!Fork \/ V!ForgetParent \/ V!ChildExits
      PROVE  UNCHANGED <<pipe, target>>
  BY <1>8 DEF V!ExitBegins, V!Dies, V!Fork, V!ForgetParent, V!ChildExits, V!watch
<1>9. UNCHANGED V!vars => UNCHANGED <<pipe, target>>
  BY DEF V!vars, V!watch
<1> QED
  BY <1>1, <1>2, <1>3, <1>4, <1>5, <1>6, <1>7, <1>8, <1>9
     DEF V!Next, V!Call, V!Dog, V!ExitEnds, V!Killed

LEMMA ArmSendsOwn ==
    ASSUME V!PidsAssumption, V!TypeOK, V!TypeOK', Ages, births' >= births, V!BornInTime, V!OwnProcess,
           V!LinesAreMine, NEW v \in Emulators, V!Arm(v)
    PROVE  \A w \in Emulators : /\ MineLater(w, target'[w])
                                /\ \A i \in 1 .. Len(pipe'[w]) : MineLater(w, pipe'[w][i])
<1> DEFINE line == [pid |-> proc[v], born |-> table[proc[v]].born]
<1>0. launcher # "dead" /\ target' = target
      /\ \/ pipe' = pipe
         \/ V!Up(proc[v]) /\ pipe' = [pipe EXCEPT ![v] = Append(@, line)]
  BY DEF V!Arm, V!Thread
<1>1. \A w \in Emulators : pipe[w] \in Seq(V!Line) /\ target[w] \in Heard(w)
  BY DEF V!TypeOK, Heard
<1>2. ASSUME NEW w \in Emulators, pipe'[w] = pipe[w]
      PROVE  /\ MineLater(w, target'[w])
             /\ \A i \in 1 .. Len(pipe'[w]) : MineLater(w, pipe'[w][i])
  <2>1. \A i \in 1 .. Len(pipe[w]) : pipe[w][i] \in Heard(w)
    BY DEF Heard
  <2> QED BY <1>0, <1>1, <1>2, <2>1, HeardIsMine
<1>3. CASE pipe' = pipe
  BY <1>2, <1>3
<1>4. CASE V!Up(proc[v]) /\ pipe' = [pipe EXCEPT ![v] = Append(@, line)]
  <2>1. proc[v] \in Pids /\ table[proc[v]] \in V!Entry /\ births \in Nat
    BY <1>4 DEF V!Up, V!TypeOK
  <2>2. line \in V!Line
    BY <2>1 DEF V!Entry, V!Line
  <2>3. V!Mine(v, line)
    <3>1. table[proc[v]].of = v
      BY <1>0, <1>4 DEF V!OwnProcess, V!Up
    <3>2. line.born <= births
      BY <2>1 DEF V!BornInTime
    <3> QED BY <3>1, <3>2 DEF V!Mine
  <2>4. MineLater(v, line)
    BY <2>2, <2>3, MineStays
  <2> HIDE DEF line
  <2>5. \A w \in Emulators : w # v => pipe'[w] = pipe[w]
    BY <1>4 DEF V!TypeOK
  <2>6. pipe'[v] = Append(pipe[v], line)
    BY <1>4 DEF V!TypeOK
  <2>7. \A i \in 1 .. Len(pipe'[v]) : MineLater(v, pipe'[v][i])
    <3> SUFFICES ASSUME NEW i \in 1 .. Len(pipe'[v]) PROVE MineLater(v, pipe'[v][i])
      OBVIOUS
    <3>1. \/ i \in 1 .. Len(pipe[v]) /\ pipe'[v][i] = pipe[v][i]
          \/ pipe'[v][i] = line
      BY <1>1, <2>2, <2>6, AppendIs
    <3>2. CASE i \in 1 .. Len(pipe[v]) /\ pipe'[v][i] = pipe[v][i]
      <4>1. pipe[v][i] \in Heard(v)
        BY <3>2 DEF Heard
      <4> QED BY <3>2, <4>1, HeardIsMine
    <3> QED BY <2>4, <3>1, <3>2
  <2>8. MineLater(v, target'[v])
    BY <1>0, <1>1, HeardIsMine
  <2> QED BY <1>2, <2>5, <2>7, <2>8
<1> QED BY <1>0, <1>3, <1>4

LEMMA LinesStep ==
    ASSUME V!PidsAssumption, V!TypeOK, V!BornInTime, V!OwnProcess, V!LinesAreMine, [V!Next]_(V!vars)
    PROVE  V!LinesAreMine'
<1>0. V!TypeOK' /\ Ages /\ births' >= births
  BY TypeStep
<1>1. \A v \in Emulators : /\ MineLater(v, target'[v])
                           /\ \A i \in 1 .. Len(pipe'[v]) : MineLater(v, pipe'[v][i])
  <2>1. CASE \E v \in Emulators : V!Arm(v)
    BY <1>0, <2>1, ArmSendsOwn
  <2>2. CASE ~ \E v \in Emulators : V!Arm(v)
    BY <1>0, <2>2, LinesSent, HeardIsMine DEF OnlyHeard
  <2> QED BY <2>1, <2>2
<1> QED BY <1>1 DEF V!LinesAreMine, V!Mine, MineLater, V!Same, V!Up

-----------------------------------------------------------------------------
(* The watchdog strikes only when the launcher is dead, and has then nothing *)
(* to read that would disarm it.                                            *)
DogHeld(v) ==
    /\ phase[v] \in {"idle", "pipe", "registered", "detached"} => dog[v] = "none"
    /\ phase[v] \in {"launch", "arm", "up", "terminated", "escalated", "unregister"} /\ ~wfd[v]
          => dog[v] = "none"
    /\ phase[v] \in {"pipe", "registered"} /\ launcher # "dead" => end[v]
    /\ phase[v] = "registered" => wfd[v]
    /\ dog[v] \in {"reading", "armed"} =>
          IF phase[v] \in {"forget", "reap"}
          THEN pipe[v] # <<>> /\ pipe[v][Len(pipe[v])] = V!NoTarget
          ELSE end[v] \/ launcher = "dead"
    /\ dog[v] \in {"term", "grace"} => launcher = "dead" /\ phase[v] \notin {"forget", "reap"}

LEMMA DogHeldStays ==
    ASSUME NEW v \in Emulators, DogHeld(v),
           phase'[v] = phase[v], dog'[v] = dog[v], wfd'[v] = wfd[v], pipe'[v] = pipe[v],
           \/ launcher' = launcher /\ end'[v] = end[v]
           \/ launcher' = "dead"
           \/ launcher = "alive" /\ launcher' = "exiting" /\ end'[v] = end[v]
    PROVE  DogHeld(v)'
BY DEF DogHeld

LEMMA TailEnds ==
    ASSUME NEW S, NEW s \in Seq(S), NEW e, s # <<>>, s[Len(s)] = e, Head(s) # e
    PROVE  Tail(s) # <<>> /\ Tail(s)[Len(Tail(s))] = e
<1>1. Len(s) \in Nat /\ Len(s) >= 1 /\ Head(s) = s[1] /\ Len(Tail(s)) = Len(s) - 1
  OBVIOUS
<1>2. Len(s) # 1
  BY <1>1
<1>3. Len(s) - 1 \in 1 .. Len(Tail(s))
  BY <1>1, <1>2
<1>4. Tail(s)[Len(s) - 1] = s[Len(s)]
  BY <1>1, <1>3, TailIs
<1>5. Tail(s) # <<>>
  <2>1. \A t : Len(t) # 0 => t # <<>>
    OBVIOUS
  <2>2. \A n : n = Len(s) - 1 => n # 0
    BY <1>1, <1>2
  <2>3. Len(Tail(s)) # 0
    BY <1>1, <2>2
  <2> QED BY <2>1, <2>3
<1> QED BY <1>1, <1>4, <1>5

LEMMA DogStep ==
    ASSUME V!PidsAssumption, V!TypeOK, V!TypeOK', V!DogIsHeld, [V!Next]_(V!vars)
    PROVE  V!DogIsHeld'
<1>0. \A v \in Emulators : DogHeld(v)
  BY DEF V!DogIsHeld, DogHeld
<1>1. SUFFICES ASSUME NEW w \in Emulators PROVE DogHeld(w)'
  BY DEF V!DogIsHeld, DogHeld
<1> DEFINE Same1(v) == /\ phase'[v] = phase[v] /\ dog'[v] = dog[v] /\ wfd'[v] = wfd[v]
                       /\ pipe'[v] = pipe[v] /\ end'[v] = end[v] /\ launcher' = launcher
<1>2. Same1(w) => DogHeld(w)'
  BY <1>0, DogHeldStays
<1> HIDE DEF Same1
<1>3. CASE UNCHANGED V!vars
  BY <1>2, <1>3 DEF Same1, V!vars, V!object, V!watch
<1>4. ASSUME NEW v \in Emulators, V!Call(v) \/ V!Dog(v), v # w PROVE Same1(w)
  <2>1. CASE V!MakePipe(v) \/ V!Register(v) \/ V!SpawnDog(v) \/ V!Launch(v) \/ V!LaunchFails(v) \/ V!Arm(v)
    BY <1>4, <2>1 DEF V!TypeOK, V!Step, V!MakePipe, V!Register, V!SpawnDog, V!Launch,
         V!LaunchFails, V!Arm, V!watch, Same1
  <2>2. CASE \/ V!Terminate(v) \/ V!Escalate(v) \/ V!Reap(v) \/ V!WaitForExit(v) \/ V!Unregister(v)
             \/ V!Detach(v) \/ V!TakeEnd(v) \/ V!Disarm(v) \/ V!ForgetDog(v) \/ V!ReapDog(v)
    BY <1>4, <2>2 DEF V!TypeOK, V!Step, V!Terminate, V!Escalate, V!Reap, V!WaitForExit,
         V!Unregister, V!Detach,
                      V!TakeEnd, V!Disarm, V!ForgetDog, V!ReapDog, V!watch, Same1
  <2>3. CASE V!Dog(v)
    BY <1>4, <2>3 DEF V!TypeOK, V!Dog, V!DogReads, V!DogMeetsEof, V!DogTerminates, V!DogKills,
         V!object, Same1
  <2> QED BY <1>4, <2>1, <2>2, <2>3 DEF V!Call
<1>5. ASSUME NEW p \in Pids, V!OtherStarts(p) \/ V!EndsByItself(p) PROVE Same1(w)
  BY <1>5 DEF V!OtherStarts, V!EndsByItself, V!object, V!watch, Same1
<1>6. ASSUME NEW v \in Emulators, NEW p \in Pids, V!RootStarts(v, p) PROVE Same1(w)
  BY <1>6 DEF V!RootStarts, V!object, V!watch, Same1
<1>7. CASE V!Fork \/ V!ForgetParent \/ V!ChildExits
  BY <1>2, <1>7 DEF V!Fork, V!ForgetParent, V!ChildExits, V!object, V!watch, Same1
<1>8. CASE V!ExitBegins \/ V!Dies
  BY <1>0, <1>8, DogHeldStays DEF V!ExitBegins, V!Dies, V!object, V!watch
<1>9. ASSUME V!Call(w) \/ V!Dog(w) PROVE DogHeld(w)'
  <2> USE DEF DogHeld
  <2>0. /\ phase[w] \in V!Calls /\ wfd[w] \in BOOLEAN /\ end[w] \in BOOLEAN
        /\ dog[w] \in {"none", "reading", "armed", "term", "grace"} /\ pipe[w] \in Seq(V!Line)
        /\ phase \in [Emulators -> V!Calls] /\ wfd \in [Emulators -> BOOLEAN]
        /\ end \in [Emulators -> BOOLEAN] /\ pipe \in [Emulators -> Seq(V!Line)]
        /\ dog \in [Emulators -> {"none", "reading", "armed", "term", "grace"}]
    BY DEF V!TypeOK
  <2>1. CASE V!MakePipe(w)
    BY <1>0, <2>0, <2>1 DEF V!MakePipe, V!Step
  <2>2. CASE V!Register(w)
    BY <1>0, <2>0, <2>2 DEF V!Register, V!Step, V!watch
  <2>3. CASE V!SpawnDog(w)
    BY <1>0, <2>0, <2>3 DEF V!SpawnDog, V!Step, V!Thread
  <2>4. CASE V!Launch(w)
    BY <1>0, <2>0, <2>4 DEF V!Launch, V!Step, V!watch
  <2>5. CASE V!LaunchFails(w)
    BY <1>0, <2>0, <2>5 DEF V!LaunchFails, V!Step, V!watch
  <2>6. CASE V!Arm(w)
    BY <1>0, <2>0, <2>6 DEF V!Arm, V!Step
  <2>7. CASE V!Terminate(w) \/ V!Escalate(w)
    BY <1>0, <2>0, <2>7 DEF V!Terminate, V!Escalate, V!Step, V!watch
  <2>8. CASE V!Reap(w) \/ V!WaitForExit(w)
    BY <1>0, <2>0, <2>8 DEF V!Reap, V!WaitForExit, V!Step, V!watch
  <2>9. CASE V!Unregister(w) \/ V!Detach(w)
    BY <1>0, <2>0, <2>9 DEF V!Unregister, V!AfterProcess, V!Detach, V!Step, V!watch
  <2>10. CASE V!TakeEnd(w)
    BY <1>0, <2>0, <2>10 DEF V!TakeEnd, V!Step, V!watch
  <2>11. CASE V!Disarm(w)
    <3>1. /\ pipe'[w] = Append(pipe[w], V!NoTarget) /\ phase'[w] = "forget" /\ dog' = dog
          /\ wfd' = wfd /\ launcher # "dead"
      BY <2>0, <2>11 DEF V!Disarm, V!Step, V!Thread
    <3>2. pipe'[w] # <<>> /\ pipe'[w][Len(pipe'[w])] = V!NoTarget
      BY <2>0, <3>1, NoTargetIs, AppendIs
    <3> QED BY <1>0, <2>0, <3>1, <3>2
  <2>12. CASE V!ForgetDog(w)
    BY <1>0, <2>0, <2>12 DEF V!ForgetDog, V!Step, V!watch
  <2>13. CASE V!ReapDog(w)
    BY <1>0, <2>0, <2>13 DEF V!ReapDog, V!Step
  <2>14. CASE V!DogReads(w)
    <3>1. /\ pipe'[w] = Tail(pipe[w]) /\ pipe[w] # <<>> /\ UNCHANGED <<phase, wfd, end, launcher>>
          /\ dog[w] \in {"reading", "armed"}
          /\ dog'[w] \in {"none", "armed"} /\ (Head(pipe[w]) = V!NoTarget => dog'[w] = "none")
      BY <2>0, <2>14 DEF V!DogReads, V!object
    <3>3. ASSUME dog'[w] = "armed", phase[w] \in {"forget", "reap"}
          PROVE  pipe'[w] # <<>> /\ pipe'[w][Len(pipe'[w])] = V!NoTarget
      <4>1. pipe[w][Len(pipe[w])] = V!NoTarget
        BY <1>0, <3>1, <3>3
      <4>2. Head(pipe[w]) # V!NoTarget
        BY <3>1, <3>3
      <4>3. Tail(pipe[w]) # <<>> /\ Tail(pipe[w])[Len(Tail(pipe[w]))] = V!NoTarget
        BY <2>0, <3>1, <4>1, <4>2, TailEnds
      <4> QED BY <3>1, <4>3
    <3> QED BY <1>0, <2>0, <3>1, <3>3
  <2>15. CASE V!DogMeetsEof(w)
    BY <1>0, <2>0, <2>15 DEF V!DogMeetsEof, V!object
  <2>16. CASE V!DogTerminates(w) \/ V!DogKills(w)
    BY <1>0, <2>0, <2>16 DEF V!DogTerminates, V!DogKills, V!object
  <2> QED
    BY <1>9, <2>1, <2>2, <2>3, <2>4, <2>5, <2>6, <2>7, <2>8, <2>9, <2>10, <2>11, <2>12, <2>13,
       <2>14, <2>15, <2>16 DEF V!Call, V!Dog
<1> QED
  BY <1>2, <1>3, <1>4, <1>5, <1>6, <1>7, <1>8, <1>9 DEF V!Next, V!ExitEnds, V!Killed

\* Nobody but the watchdog of a dead launcher strikes.
LEMMA StruckStep ==
    ASSUME V!PidsAssumption, V!TypeOK, V!LinesAreMine, V!DogIsHeld, V!ChildForgot, V!OnlyOrphansAreStruck,
           [V!Next]_(V!vars)
    PROVE  V!OnlyOrphansAreStruck'
<1>1. ASSUME UNCHANGED struck PROVE V!OnlyOrphansAreStruck'
  BY <1>1 DEF V!OnlyOrphansAreStruck
<1>2. ASSUME NEW v \in Emulators, V!DogTerminates(v) \/ V!DogKills(v) PROVE V!OnlyOrphansAreStruck'
  <2>1. UNCHANGED struck \/ (V!Same(target[v]) /\ V!Strike(v))
    BY <1>2 DEF V!DogTerminates, V!DogKills
  <2>2. dog[v] \in {"term", "grace"}
    BY <1>2 DEF V!DogTerminates, V!DogKills
  <2>3. launcher = "dead" /\ phase[v] \notin {"forget", "reap", "detached"}
    BY <2>2 DEF V!DogIsHeld
  <2>4. V!Same(target[v]) => table[target[v].pid].of = v
    BY DEF V!LinesAreMine, V!Mine
  <2>5. V!Same(target[v]) /\ V!Strike(v) =>
           struck' = struck \union {[by |-> "dog", on |-> v, was |-> "dead"]}
    BY <2>3, <2>4 DEF V!Strike, V!Disarmed
  <2> QED BY <2>1, <2>5 DEF V!OnlyOrphansAreStruck
<1>3. ASSUME V!ChildExits PROVE UNCHANGED struck
  <2>1. childLive = {}
    BY <1>3 DEF V!ChildExits, V!ChildForgot
  <2> QED BY <1>3, <2>1 DEF V!ChildExits
<1>4. ASSUME NEW v \in Emulators, V!Call(v) \/ V!DogReads(v) \/ V!DogMeetsEof(v) PROVE UNCHANGED struck
  BY <1>4 DEF V!Call, V!MakePipe, V!Register, V!SpawnDog, V!Launch, V!LaunchFails, V!Arm,
       V!Terminate, V!Escalate,
              V!Reap, V!WaitForExit, V!Unregister, V!Detach, V!TakeEnd, V!Disarm, V!ForgetDog, V!ReapDog,
              V!DogReads, V!DogMeetsEof, V!history
<1>5. ASSUME NEW v \in Emulators, NEW p \in Pids, V!RootStarts(v, p) PROVE UNCHANGED struck
  BY <1>5 DEF V!RootStarts, V!history
<1>6. ASSUME NEW p \in Pids, V!OtherStarts(p) \/ V!EndsByItself(p) PROVE UNCHANGED struck
  BY <1>6 DEF V!OtherStarts, V!EndsByItself, V!history
<1>7. ASSUME V!ExitBegins \/ V!Dies \/ V!Fork \/ V!ForgetParent PROVE UNCHANGED struck
  BY <1>7 DEF V!ExitBegins, V!Dies, V!Fork, V!ForgetParent, V!history
<1>8. UNCHANGED V!vars => UNCHANGED struck
  BY DEF V!vars, V!history
<1> QED
  BY <1>1, <1>2, <1>3, <1>4, <1>5, <1>6, <1>7, <1>8 DEF V!Next, V!Dog, V!ExitEnds, V!Killed

LEMMA ChildStep ==
    ASSUME V!ChildForgot, [V!Next]_(V!vars)
    PROVE  V!ChildForgot'
<1>1. ASSUME UNCHANGED <<child, childLive>> PROVE V!ChildForgot'
  BY <1>1 DEF V!ChildForgot
<1>2. ASSUME V!Fork \/ V!ForgetParent \/ V!ChildExits PROVE V!ChildForgot'
  BY <1>2 DEF V!Fork, V!ForgetParent, V!ChildExits, V!ChildForgot
<1>3. ASSUME NEW v \in Emulators, V!Call(v) \/ V!Dog(v) PROVE UNCHANGED <<child, childLive>>
  BY <1>3 DEF V!Call, V!MakePipe, V!Register, V!SpawnDog, V!Launch, V!LaunchFails, V!Arm,
       V!Terminate, V!Escalate,
              V!Reap, V!WaitForExit, V!Unregister, V!Detach, V!TakeEnd, V!Disarm, V!ForgetDog, V!ReapDog,
              V!Dog, V!DogReads, V!DogMeetsEof, V!DogTerminates, V!DogKills, V!forked
<1>4. ASSUME NEW v \in Emulators, NEW p \in Pids, V!RootStarts(v, p)
      PROVE  UNCHANGED <<child, childLive>>
  BY <1>4 DEF V!RootStarts, V!forked
<1>5. ASSUME NEW p \in Pids, V!OtherStarts(p) \/ V!EndsByItself(p) PROVE UNCHANGED <<child, childLive>>
  BY <1>5 DEF V!OtherStarts, V!EndsByItself, V!forked
<1>6. ASSUME V!ExitBegins \/ V!Dies PROVE UNCHANGED <<child, childLive>>
  BY <1>6 DEF V!ExitBegins, V!Dies, V!forked
<1>7. UNCHANGED V!vars => UNCHANGED <<child, childLive>>
  BY DEF V!vars, V!forked
<1> QED
  BY <1>1, <1>2, <1>3, <1>4, <1>5, <1>6, <1>7 DEF V!Next, V!ExitEnds, V!Killed

-----------------------------------------------------------------------------
(* One x64sc of root's at most, and no process before the launch.           *)
LEMMA OneRootStep ==
    ASSUME V!PidsAssumption, V!TypeOK, V!OneRoot, [V!Next]_(V!vars)
    PROVE  V!OneRoot'
<1>1. ASSUME Perishes PROVE V!OneRoot'
  <2>1. ASSUME NEW p \in Pids, table'[p].kind = "root"
        PROVE  table[p].kind = "root" /\ table'[p].of = table[p].of
    <3>1. table[p] \in V!Entry
      BY DEF V!TypeOK
    <3>2. CASE table'[p] = V!Free
      BY <2>1, <3>2, FreeIs
    <3>3. CASE table'[p] = V!Corpse(p)
      BY <2>1, <3>1, <3>3, CorpseIs
    <3> QED BY <1>1, <2>1, <3>2, <3>3 DEF Perishes
  <2> QED BY <2>1 DEF V!OneRoot
<1>2. ASSUME NEW p \in Pids, NEW v, NEW kind \in {"plain", "sudo"}, V!Birth(p, v, kind)
      PROVE  V!OneRoot'
  <2>1. table' = [table EXCEPT ![p] = [of |-> v, kind |-> kind, born |-> births + 1, st |-> "up"]]
    BY <1>2 DEF V!Birth
  <2>2. table'[p].kind # "root" /\ \A q \in Pids : q # p => table'[q] = table[q]
    BY <1>2, <2>1 DEF V!TypeOK
  <2> QED BY <2>2 DEF V!OneRoot
<1>3. ASSUME NEW v \in Emulators, NEW p \in Pids, V!RootStarts(v, p) PROVE V!OneRoot'
  <2>1. /\ table' = [table EXCEPT ![p] = [of |-> v, kind |-> "root", born |-> births + 1, st |-> "up"]]
        /\ ~ \E q \in Pids : table[q].of = v /\ table[q].kind = "root"
    BY <1>3 DEF V!RootStarts, V!Birth
  <2>2. table'[p].of = v /\ \A q \in Pids : q # p => table'[q] = table[q]
    BY <2>1 DEF V!TypeOK
  <2> QED BY <2>1, <2>2 DEF V!OneRoot
<1>4. ASSUME NEW p \in Pids, V!OtherStarts(p) PROVE V!OneRoot'
  BY <1>2, <1>4 DEF V!OtherStarts
<1>5. ASSUME NEW v \in Emulators, V!Launch(v) PROVE V!OneRoot'
  <2>1. PICK p \in Pids, wrapped \in BOOLEAN : V!Birth(p, v, IF wrapped THEN "sudo" ELSE "plain")
    BY <1>5 DEF V!Launch
  <2> QED BY <1>2, <2>1
<1>6. \/ Perishes \/ \E v \in Emulators : V!Launch(v) \/ \E p \in Pids : V!RootStarts(v, p)
      \/ \E p \in Pids : V!OtherStarts(p)
  BY StepPerishes
<1> QED BY <1>1, <1>3, <1>4, <1>5, <1>6

LEMMA NoProcessStep ==
    ASSUME V!PidsAssumption, V!TypeOK, V!NoProcessYet, [V!Next]_(V!vars)
    PROVE  V!NoProcessYet'
<1>1. ASSUME UNCHANGED <<phase, proc>> PROVE V!NoProcessYet'
  BY <1>1 DEF V!NoProcessYet
<1>2. ASSUME NEW v \in Emulators,
             \/ V!MakePipe(v) \/ V!Register(v) \/ V!SpawnDog(v) \/ V!LaunchFails(v) \/ V!Unregister(v)
      PROVE  V!NoProcessYet'
  BY <1>2 DEF V!MakePipe, V!Register, V!SpawnDog, V!LaunchFails, V!Unregister, V!AfterProcess,
       V!Step, V!TypeOK,
              V!NoProcessYet
<1>3. ASSUME NEW v \in Emulators,
             \/ V!Launch(v) \/ V!Arm(v) \/ V!Terminate(v) \/ V!Escalate(v) \/ V!Detach(v)
             \/ V!TakeEnd(v) \/ V!Disarm(v) \/ V!ForgetDog(v)
      PROVE  V!NoProcessYet'
  BY <1>3 DEF V!Launch, V!Arm, V!Terminate, V!Escalate, V!Detach, V!TakeEnd, V!Disarm,
       V!ForgetDog, V!Step, V!TypeOK,
              V!NoProcessYet
<1>4. ASSUME NEW v \in Emulators, V!Reap(v) \/ V!WaitForExit(v) \/ V!ReapDog(v) PROVE V!NoProcessYet'
  BY <1>4 DEF V!Reap, V!WaitForExit, V!ReapDog, V!Step, V!TypeOK, V!NoProcessYet
<1>5. ASSUME NEW v \in Emulators, V!Dog(v) PROVE UNCHANGED <<phase, proc>>
  BY <1>5 DEF V!Dog, V!DogReads, V!DogMeetsEof, V!DogTerminates, V!DogKills, V!object
<1>6. ASSUME NEW v \in Emulators, NEW p \in Pids, V!RootStarts(v, p) PROVE UNCHANGED <<phase, proc>>
  BY <1>6 DEF V!RootStarts, V!object
<1>7. ASSUME NEW p \in Pids, V!OtherStarts(p) \/ V!EndsByItself(p) PROVE UNCHANGED <<phase, proc>>
  BY <1>7 DEF V!OtherStarts, V!EndsByItself, V!object
<1>8. ASSUME V!ExitBegins \/ V!Dies \/ V!Fork \/ V!ForgetParent \/ V!ChildExits
      PROVE  UNCHANGED <<phase, proc>>
  BY <1>8 DEF V!ExitBegins, V!Dies, V!Fork, V!ForgetParent, V!ChildExits, V!object
<1>9. UNCHANGED V!vars => UNCHANGED <<phase, proc>>
  BY DEF V!vars, V!object
<1> QED
  BY <1>1, <1>2, <1>3, <1>4, <1>5, <1>6, <1>7, <1>8, <1>9 DEF V!Next, V!Call, V!ExitEnds, V!Killed

-----------------------------------------------------------------------------
(* What runs is known.  A wrapper does not die under a root x64sc that lives. *)
SameProcess(w) == proc'[w] = proc[w] /\ sudo'[w] = sudo[w]

Onward(w) == \/ phase'[w] = phase[w] /\ rootPid'[w] = rootPid[w]
             \/ phase[w] \notin {"escalated", "unregister"} /\ phase'[w] # "escalated"

WrapperLives(w, q) ==
    table[q].kind = "root" /\ sudo[w] /\ V!Up(proc[w]) =>
        table'[proc[w]] = table[proc[w]]

LEMMA KnownStays ==
    ASSUME V!TypeOK, NEW w \in Emulators, NEW q \in Pids, V!Known(w, q), table'[q] = table[q],
           warned \subseteq warned', SameProcess(w), Onward(w), WrapperLives(w, q)
    PROVE  V!Known(w, q)'
<1>1. CASE <<q, table[q].born>> \in warned \/ q = proc[w]
  BY <1>1 DEF V!Known, SameProcess
<1>2. CASE /\ table[q].kind = "root"
           /\ sudo[w] /\ V!Up(proc[w]) /\ phase[w] # "escalated"
  <2>1. V!Up(proc[w])' /\ sudo'[w] /\ phase'[w] # "escalated"
    BY <1>2 DEF V!Up, SameProcess, WrapperLives, Onward
  <2> QED BY <1>2, <2>1 DEF V!Known
<1>3. CASE /\ table[q].kind = "root"
           /\ phase[w] \in {"escalated", "unregister"} /\ rootPid[w] = q
  BY <1>3 DEF V!Known, Onward
<1> QED BY <1>1, <1>2, <1>3 DEF V!Known

\* A step that only lets processes die starts none.
LEMMA RanBefore ==
    ASSUME V!TypeOK, NEW w \in Emulators, NEW q \in Pids, q \in V!Running(w)',
           table'[q] \in {table[q], V!Free, V!Corpse(q)}
    PROVE  table'[q] = table[q] /\ q \in V!Running(w)
<1>1. table'[q].st = "up"
  BY DEF V!Running, V!Up
<1>2. table[q] \in V!Entry
  BY DEF V!TypeOK
<1>3. table'[q] = table[q]
  BY <1>1, <1>2, CorpseIs, FreeIs
<1> QED BY <1>3 DEF V!Running, V!Up

LEMMA DeadSpares ==
    ASSUME V!PidsAssumption, V!TypeOK, V!OwnProcess, V!OneRoot, launcher # "dead",
           NEW w \in Emulators, NEW q \in Pids, q \in V!Running(w), table'[q] = table[q],
           NEW d \in Pids, d # proc[w], table' = V!Dead(d)
    PROVE  WrapperLives(w, q)
<1> SUFFICES ASSUME table[q].kind = "root", sudo[w], V!Up(proc[w])
             PROVE  table'[proc[w]] = table[proc[w]]
  BY DEF WrapperLives
<1>1. proc[w] \in Pids /\ table[proc[w]].of = w
  BY DEF V!Up, V!OwnProcess, V!TypeOK
<1>2. CASE proc[w] \notin V!Wrapper(d)
  BY <1>1, <1>2 DEF V!Dead, V!Without
<1>3. CASE proc[w] \in V!Wrapper(d)
  <2>1. table[d].kind = "root" /\ table[d].of = w
    BY <1>1, <1>3 DEF V!Wrapper
  <2>2. d = q
    BY <2>1 DEF V!OneRoot, V!Running
  <2>3. table'[q] \in {V!Free, V!Corpse(q)}
    BY <2>2 DEF V!Dead, V!Without, V!Buried
  <2>4. table[q] \in V!Entry /\ table'[q].st = "up"
    BY DEF V!TypeOK, V!Running, V!Up
  <2> QED BY <2>3, <2>4, CorpseIs, FreeIs
<1> QED BY <1>2, <1>3

KnownBase == /\ V!TypeOK /\ V!OwnProcess /\ V!OneRoot /\ V!NoProcessYet /\ V!DogIsHeld /\ V!ChildForgot
             /\ V!SurvivorsAreKnown

\* No call of another object takes this one's process.
LEMMA ApartFrom ==
    ASSUME V!OwnProcess, launcher # "dead", NEW v \in Emulators, NEW w \in Emulators, v # w,
           proc[v] # NoPid, proc[w] # NoPid
    PROVE  proc[v] # proc[w] /\ table[proc[w]].of # v
BY DEF V!OwnProcess

LEMMA QuietKnown ==
    ASSUME KnownBase, launcher # "dead", UNCHANGED table, warned \subseteq warned',
           NEW w \in Emulators, NEW q \in Pids, q \in V!Running(w)', SameProcess(w), Onward(w)
    PROVE  V!Known(w, q)'
<1>1. q \in V!Running(w) /\ table'[q] = table[q]
  BY DEF V!Running, V!Up
<1>2. V!Known(w, q)
  BY <1>1 DEF KnownBase, V!SurvivorsAreKnown
<1>3. WrapperLives(w, q)
  BY DEF WrapperLives
<1> QED BY <1>1, <1>2, <1>3, KnownStays DEF KnownBase

LEMMA DeathKnown ==
    ASSUME V!PidsAssumption, KnownBase, launcher # "dead", warned \subseteq warned',
           NEW w \in Emulators, NEW q \in Pids, q \in V!Running(w)', SameProcess(w), Onward(w),
           NEW d \in Pids, table' = V!Dead(d),
           (\E r \in V!Running(w) : table[r].kind = "root") /\ sudo[w] /\ V!Up(proc[w]) => d # proc[w]
    PROVE  V!Known(w, q)'
<1>1. table'[q] \in {table[q], V!Free, V!Corpse(q)}
  BY DEF V!Dead, V!Without, V!Buried
<1>2. q \in V!Running(w) /\ table'[q] = table[q]
  BY <1>1, RanBefore DEF KnownBase
<1>3. V!Known(w, q)
  BY <1>2 DEF KnownBase, V!SurvivorsAreKnown
<1>4. WrapperLives(w, q)
  <2>1. CASE table[q].kind = "root" /\ sudo[w] /\ V!Up(proc[w])
    BY <1>2, <2>1, DeadSpares DEF KnownBase
  <2>2. CASE ~(table[q].kind = "root" /\ sudo[w] /\ V!Up(proc[w]))
    BY <2>2 DEF WrapperLives
  <2> QED BY <2>1, <2>2
<1> QED BY <1>2, <1>3, <1>4, KnownStays DEF KnownBase

\* stop() on a sudo launch: after the SIGTERM the root x64sc is looked up again,
\* and the one that is found is the only one there is.
LEMMA EscalateKnown ==
    ASSUME V!PidsAssumption, KnownBase, NEW v \in Emulators, V!Escalate(v),
           NEW w \in Emulators, NEW q \in Pids, q \in V!Running(w)'
    PROVE  V!Known(w, q)'
<1> USE DEF KnownBase
<1>1. /\ launcher # "dead" /\ UNCHANGED <<proc, sudo, warned>>
      /\ phase[v] = "terminated" /\ phase' = [phase EXCEPT ![v] = "escalated"]
      /\ V!Up(proc[v]) /\ sudo[v]
      /\ rootPid' = [rootPid EXCEPT ![v] = IF V!MyRoot(v) # NoPid THEN V!MyRoot(v) ELSE @]
      /\ table' = table \/ (V!MyRoot(v) # NoPid /\ table' = V!Dead(V!MyRoot(v)))
  BY DEF V!Escalate, V!Thread, V!Step, V!history
<1>2. proc[v] \in Pids /\ table[proc[v]].kind = "sudo" /\ table[proc[v]].of = v
  BY <1>1 DEF V!Up, V!OwnProcess, V!TypeOK
<1>3. CASE w # v
  <2>1. SameProcess(w) /\ Onward(w)
    BY <1>1, <1>3 DEF V!TypeOK, SameProcess, Onward
  <2>2. CASE table' = table
    BY <1>1, <2>1, <2>2, QuietKnown
  <2>3. CASE V!MyRoot(v) # NoPid /\ table' = V!Dead(V!MyRoot(v))
    <3>1. V!MyRoot(v) \in Pids /\ table[V!MyRoot(v)].of = v
      BY <2>3, MyRootIs
    <3>2. V!Up(proc[w]) => table[proc[w]].of = w
      BY <1>1 DEF V!Up, V!OwnProcess
    <3>3. V!Up(proc[w]) => V!MyRoot(v) # proc[w]
      BY <1>3, <3>1, <3>2
    <3> QED BY <1>1, <2>1, <2>3, <3>1, <3>3, DeathKnown
  <2> QED BY <1>1, <2>2, <2>3
<1>4. CASE w = v
  <2>1. table'[q] \in {table[q], V!Free, V!Corpse(q)}
    BY <1>1 DEF V!Dead, V!Without, V!Buried
  <2>2. q \in V!Running(v) /\ table'[q] = table[q]
    BY <1>4, <2>1, RanBefore
  <2>3. V!Known(v, q)
    BY <1>1, <2>2 DEF V!SurvivorsAreKnown
  <2>4. CASE table[q].kind = "root"
    <3>1. V!MyRoot(v) # NoPid
      BY <1>1, <2>2, <2>4, MyRootIs DEF V!Running
    <3>2. V!MyRoot(v) = q
      BY <2>2, <2>4, <3>1, MyRootIs DEF V!OneRoot, V!Running
    <3>3. rootPid'[v] = q /\ phase'[v] = "escalated"
      BY <1>1, <3>1, <3>2 DEF V!TypeOK
    <3> QED BY <1>4, <2>2, <2>4, <3>3 DEF V!Known
  <2>5. CASE table[q].kind # "root"
    BY <1>1, <1>4, <2>2, <2>3, <2>5 DEF V!Known
  <2> QED BY <2>4, <2>5
<1> QED BY <1>3, <1>4

\* A SIGTERM to a wrapper that has no x64sc yet ends the wrapper only.
LEMMA TerminateKnown ==
    ASSUME V!PidsAssumption, KnownBase, NEW v \in Emulators, V!Terminate(v),
           NEW w \in Emulators, NEW q \in Pids, q \in V!Running(w)'
    PROVE  V!Known(w, q)'
<1> USE DEF KnownBase
<1>1. /\ launcher # "dead" /\ UNCHANGED <<proc, sudo, warned>>
      /\ phase[v] = "up" /\ phase' = [phase EXCEPT ![v] = "terminated"]
      /\ \A x \in Emulators : x # v => rootPid'[x] = rootPid[x]
      /\ \/ table' = table
         \/ V!Up(proc[v]) /\ V!MyRoot(v) = NoPid /\ table' = V!Dead(proc[v])
         \/ V!MyRoot(v) # NoPid /\ table' = V!Dead(V!MyRoot(v))
  BY DEF V!Terminate, V!Thread, V!Step, V!history, V!TypeOK
<1>2. SameProcess(w) /\ Onward(w)
  BY <1>1 DEF V!TypeOK, SameProcess, Onward
<1>3. V!Up(proc[w]) => /\ proc[w] \in Pids /\ table[proc[w]].of = w
                     /\ (sudo[w] => table[proc[w]].kind = "sudo")
  BY <1>1 DEF V!Up, V!OwnProcess, V!TypeOK
<1>4. CASE table' = table
  BY <1>1, <1>2, <1>4, QuietKnown
<1>5. CASE V!Up(proc[v]) /\ V!MyRoot(v) = NoPid /\ table' = V!Dead(proc[v])
  <2>1. proc[v] \in Pids /\ table[proc[v]].of = v
    BY <1>1, <1>5 DEF V!Up, V!OwnProcess, V!TypeOK
  <2>2. w = v => ~ \E r \in V!Running(w) : table[r].kind = "root"
    BY <1>5, MyRootIs DEF V!Running
  <2>3. w # v /\ V!Up(proc[w]) => proc[v] # proc[w]
    BY <1>3, <2>1
  <2> QED BY <1>1, <1>2, <1>5, <2>1, <2>2, <2>3, DeathKnown
<1>6. CASE V!MyRoot(v) # NoPid /\ table' = V!Dead(V!MyRoot(v))
  <2>1. V!MyRoot(v) \in Pids /\ table[V!MyRoot(v)].kind = "root"
    BY <1>6, MyRootIs
  <2>2. sudo[w] /\ V!Up(proc[w]) => V!MyRoot(v) # proc[w]
    BY <1>3, <2>1
  <2> QED BY <1>1, <1>2, <1>6, <2>1, <2>2, DeathKnown
<1> QED BY <1>1, <1>4, <1>5, <1>6

\* The child is reaped: of what it ran only a root x64sc can be left.
LEMMA ReapKnown ==
    ASSUME V!PidsAssumption, KnownBase, NEW v \in Emulators, V!Reap(v) \/ V!WaitForExit(v),
           NEW w \in Emulators, NEW q \in Pids, q \in V!Running(w)'
    PROVE  V!Known(w, q)'
<1> USE DEF KnownBase
<1>1. /\ launcher # "dead" /\ UNCHANGED <<sudo, warned>>
      /\ phase' = [phase EXCEPT ![v] = "unregister"]
      /\ table' = [table EXCEPT ![proc[v]] = V!Free] /\ proc' = [proc EXCEPT ![v] = NoPid]
      /\ \/ phase[v] = "escalated" /\ rootPid' = rootPid
         \/ phase[v] = "terminated" /\ (sudo[v] => ~V!Up(proc[v])) /\ rootPid' = rootPid
         \/ phase[v] = "up" /\ ~V!Up(proc[v]) /\ rootPid' = [rootPid EXCEPT ![v] = NoPid]
  BY DEF V!Reap, V!WaitForExit, V!Thread, V!Step, V!history, V!Up
<1>2. table'[q] \in {table[q], V!Free}
  BY <1>1 DEF V!TypeOK
<1>3. q \in V!Running(w) /\ table'[q] = table[q]
  BY <1>2, RanBefore
<1>4. V!Known(w, q)
  BY <1>1, <1>3 DEF V!SurvivorsAreKnown
<1>5. CASE w = v
  <2>1. q # proc[v]
    <3>1. q = proc[v] => table'[q] = V!Free
      BY <1>1 DEF V!TypeOK
    <3> QED BY <1>3, <3>1, FreeIs DEF V!Running, V!Up
  <2>2. CASE <<q, table[q].born>> \in warned
    BY <1>1, <1>3, <1>5, <2>2 DEF V!Known
  <2>3. CASE table[q].kind = "root" /\ phase[v] = "escalated" /\ rootPid[v] = q
    <3>1. phase'[v] = "unregister" /\ rootPid'[v] = q
      BY <1>1, <2>3 DEF V!TypeOK
    <3> QED BY <1>3, <1>5, <2>3, <3>1 DEF V!Known
  <2>4. phase[v] # "unregister" /\ (sudo[v] /\ V!Up(proc[v]) => phase[v] = "escalated")
    BY <1>1
  <2> QED BY <1>4, <1>5, <2>1, <2>2, <2>3, <2>4 DEF V!Known
<1>6. CASE w # v
  <2>1. SameProcess(w) /\ Onward(w)
    BY <1>1, <1>6 DEF V!TypeOK, SameProcess, Onward
  <2>2. WrapperLives(w, q)
    <3>1. ASSUME V!Up(proc[w]) PROVE table'[proc[w]] = table[proc[w]]
      <4>1. proc[w] # NoPid
        BY <3>1 DEF V!Up
      <4>2. proc[v] # proc[w]
        BY <1>1, <1>6, <4>1, ApartFrom
      <4>3. proc[w] \in Pids
        BY <4>1 DEF V!TypeOK
      <4> QED BY <1>1, <4>2, <4>3 DEF V!TypeOK
    <3> QED BY <3>1 DEF WrapperLives
  <2> QED BY <1>1, <1>3, <1>4, <2>1, <2>2, KnownStays
<1> QED BY <1>5, <1>6

LEMMA BirthSpares ==
    ASSUME V!TypeOK, NEW w \in Emulators, NEW q \in Pids,
           NEW p \in Pids, NEW v, NEW kind, V!Birth(p, v, kind)
    PROVE  /\ q # p => table'[q] = table[q]
           /\ table'[p] = [of |-> v, kind |-> kind, born |-> births + 1, st |-> "up"]
           /\ WrapperLives(w, q)
<1>1. /\ table[p].st = "free"
      /\ table' = [table EXCEPT ![p] = [of |-> v, kind |-> kind, born |-> births + 1, st |-> "up"]]
  BY DEF V!Birth
<1>2. V!Up(proc[w]) => proc[w] \in Pids
  BY DEF V!Up, V!TypeOK
<1>3. V!Up(proc[w]) => p # proc[w]
  BY <1>1 DEF V!Up
<1> QED BY <1>1, <1>2, <1>3 DEF V!TypeOK, WrapperLives

\* What is launched is the object's process, or a wrapper; the last one is gone.
LEMMA LaunchKnown ==
    ASSUME V!PidsAssumption, KnownBase, NEW v \in Emulators, V!Launch(v),
           NEW w \in Emulators, NEW q \in Pids, q \in V!Running(w)'
    PROVE  V!Known(w, q)'
<1> USE DEF KnownBase
<1>1. PICK p \in Pids, wrapped \in BOOLEAN :
         /\ V!Birth(p, v, IF wrapped THEN "sudo" ELSE "plain")
         /\ proc' = [proc EXCEPT ![v] = p] /\ sudo' = [sudo EXCEPT ![v] = wrapped]
  BY DEF V!Launch
<1>2. /\ launcher # "dead" /\ UNCHANGED <<warned, rootPid>>
      /\ phase[v] = "launch" /\ phase' = [phase EXCEPT ![v] = "arm"]
  BY DEF V!Launch, V!Thread, V!Step, V!history
<1>3. /\ q # p => table'[q] = table[q]
      /\ table'[p] = [of |-> v, kind |-> IF wrapped THEN "sudo" ELSE "plain",
                      born |-> births + 1, st |-> "up"]
      /\ WrapperLives(w, q)
  BY <1>1, <1>2, BirthSpares
<1>4. CASE q = p
  <2>1. w = v /\ proc'[v] = p
    BY <1>1, <1>3, <1>4 DEF V!Running, V!TypeOK
  <2> QED BY <1>4, <2>1 DEF V!Known
<1>5. CASE q # p
  <2>1. q \in V!Running(w) /\ table'[q] = table[q]
    BY <1>3, <1>5 DEF V!Running, V!Up
  <2>2. V!Known(w, q)
    BY <1>2, <2>1 DEF V!SurvivorsAreKnown
  <2>3. CASE w = v
    <3>1. proc[v] = NoPid /\ ~V!Up(proc[v])
      BY <1>2 DEF V!NoProcessYet, V!Up
    <3>2. <<q, table[q].born>> \in warned
      BY <1>2, <2>2, <2>3, <3>1, V!PidsAssumption DEF V!Known, V!PidsAssumption
    <3> QED BY <1>2, <2>1, <3>2 DEF V!Known
  <2>4. CASE w # v
    <3>1. SameProcess(w) /\ Onward(w)
      BY <1>1, <1>2, <2>4 DEF SameProcess, Onward, V!TypeOK
    <3> QED BY <1>2, <1>3, <2>1, <2>2, <3>1, KnownStays
  <2> QED BY <2>3, <2>4
<1> QED BY <1>4, <1>5

\* sudo starts x64sc: stop() will find it under the wrapper, that runs.
LEMMA RootKnown ==
    ASSUME V!PidsAssumption, KnownBase, launcher # "dead",
           NEW v \in Emulators, NEW p \in Pids, V!RootStarts(v, p),
           NEW w \in Emulators, NEW q \in Pids, q \in V!Running(w)'
    PROVE  V!Known(w, q)'
<1> USE DEF KnownBase
<1>1. /\ V!Birth(p, v, "root") /\ sudo[v] /\ V!Up(proc[v]) /\ phase[v] # "escalated"
      /\ UNCHANGED <<warned, rootPid, phase, proc, sudo>>
  BY DEF V!RootStarts, V!history, V!object
<1>2. /\ q # p => table'[q] = table[q]
      /\ table'[p] = [of |-> v, kind |-> "root", born |-> births + 1, st |-> "up"]
      /\ WrapperLives(w, q)
  BY <1>1, BirthSpares
<1>3. CASE q = p
  <2>1. w = v /\ table'[q].kind = "root"
    BY <1>2, <1>3 DEF V!Running
  <2>2. table[p].st = "free" /\ proc[v] # p /\ proc[v] \in Pids
    BY <1>1 DEF V!Birth, V!Up, V!TypeOK
  <2>3. table'[proc[v]] = table[proc[v]]
    BY <1>1, <2>2 DEF V!Birth, V!TypeOK
  <2>4. V!Up(proc[v])'
    BY <1>1, <2>3 DEF V!Up
  <2> QED BY <1>1, <2>1, <2>4 DEF V!Known
<1>4. CASE q # p
  <2>1. q \in V!Running(w) /\ table'[q] = table[q]
    BY <1>2, <1>4 DEF V!Running, V!Up
  <2>2. V!Known(w, q)
    BY <2>1 DEF V!SurvivorsAreKnown
  <2>3. SameProcess(w) /\ Onward(w)
    BY <1>1 DEF SameProcess, Onward
  <2> QED BY <1>1, <1>2, <2>1, <2>2, <2>3, KnownStays
<1> QED BY <1>3, <1>4

LEMMA OtherKnown ==
    ASSUME V!PidsAssumption, KnownBase, launcher # "dead", NEW p \in Pids, V!OtherStarts(p),
           NEW w \in Emulators, NEW q \in Pids, q \in V!Running(w)'
    PROVE  V!Known(w, q)'
<1> USE DEF KnownBase
<1>1. V!Birth(p, "other", "plain") /\ UNCHANGED <<warned, rootPid, phase, proc, sudo>>
  BY DEF V!OtherStarts, V!history, V!object
<1>2. /\ q # p => table'[q] = table[q]
      /\ table'[p] = [of |-> "other", kind |-> "plain", born |-> births + 1, st |-> "up"]
      /\ WrapperLives(w, q)
  BY <1>1, BirthSpares
<1>3. q # p
  BY <1>2, V!PidsAssumption DEF V!Running, V!PidsAssumption
<1>4. q \in V!Running(w) /\ table'[q] = table[q]
  BY <1>2, <1>3 DEF V!Running, V!Up
<1>5. V!Known(w, q)
  BY <1>4 DEF V!SurvivorsAreKnown
<1>6. SameProcess(w) /\ Onward(w)
  BY <1>1 DEF SameProcess, Onward
<1> QED BY <1>1, <1>2, <1>4, <1>5, <1>6, KnownStays

\* At the end of stop() the x64sc that is known and still runs is named.
LEMMA UnregisterKnown ==
    ASSUME V!PidsAssumption, KnownBase, NEW v \in Emulators, V!Unregister(v),
           NEW w \in Emulators, NEW q \in Pids, q \in V!Running(w)'
    PROVE  V!Known(w, q)'
<1> USE DEF KnownBase
<1>1. /\ launcher # "dead" /\ UNCHANGED <<table, proc, sudo, rootPid>>
      /\ phase[v] = "unregister" /\ phase' = [phase EXCEPT ![v] = V!AfterProcess(v)]
      /\ warned \subseteq warned'
      /\ rootPid[v] \in V!Running(v) /\ V!Up(rootPid[v]) =>
            <<rootPid[v], table[rootPid[v]].born>> \in warned'
  BY DEF V!Unregister, V!Thread, V!Step, V!os
<1>2. q \in V!Running(w) /\ V!Up(q)
  BY <1>1 DEF V!Running, V!Up
<1>3. SameProcess(w)
  BY <1>1 DEF SameProcess
<1>4. CASE w # v
  <2>1. Onward(w)
    BY <1>1, <1>4 DEF Onward, V!TypeOK
  <2> QED BY <1>1, <1>3, <2>1, QuietKnown
<1>5. CASE w = v
  <2>1. V!Known(v, q) /\ proc[v] = NoPid
    BY <1>1, <1>2, <1>5 DEF V!SurvivorsAreKnown, V!NoProcessYet
  <2>2. <<q, table[q].born>> \in warned \/ rootPid[v] = q
    BY <2>1, V!PidsAssumption DEF V!Known, V!PidsAssumption, V!Up
  <2>3. <<q, table[q].born>> \in warned'
    BY <1>1, <1>2, <1>5, <2>2
  <2> QED BY <1>1, <2>3 DEF V!Known
<1> QED BY <1>4, <1>5

LEMMA KnownStep ==
    ASSUME V!PidsAssumption, KnownBase, [V!Next]_(V!vars)
    PROVE  V!SurvivorsAreKnown'
<1> SUFFICES ASSUME launcher' # "dead", NEW w \in Emulators, NEW q \in Pids, q \in V!Running(w)'
             PROVE  V!Known(w, q)'
  BY DEF V!SurvivorsAreKnown, V!Running
<1> DEFINE Quiet == /\ launcher # "dead" /\ UNCHANGED table /\ warned \subseteq warned'
                    /\ SameProcess(w) /\ Onward(w)
<1>1. ASSUME Quiet PROVE V!Known(w, q)'
  BY <1>1, QuietKnown
<1> HIDE DEF Quiet
<1>2. ASSUME NEW v \in Emulators,
             V!MakePipe(v) \/ V!Register(v) \/ V!SpawnDog(v) \/ V!LaunchFails(v) \/ V!Arm(v) \/ V!Detach(v)
      PROVE  Quiet
  BY <1>2 DEF V!MakePipe, V!Register, V!SpawnDog, V!LaunchFails, V!Arm, V!Detach, V!Step,
       V!Thread, V!os, V!history,
              KnownBase, V!TypeOK, SameProcess, Onward, Quiet
<1>3. ASSUME NEW v \in Emulators, V!TakeEnd(v) \/ V!Disarm(v) \/ V!ForgetDog(v) \/ V!ReapDog(v)
      PROVE  Quiet
  BY <1>3 DEF V!TakeEnd, V!Disarm, V!ForgetDog, V!ReapDog, V!Step, V!Thread, V!os, V!history,
              KnownBase, V!TypeOK, SameProcess, Onward, Quiet
<1>4. ASSUME NEW v \in Emulators, V!DogReads(v) \/ V!DogMeetsEof(v) PROVE Quiet
  BY <1>4 DEF V!DogReads, V!DogMeetsEof, V!os, V!object, V!history, SameProcess, Onward, Quiet
<1>5. CASE V!ExitBegins \/ V!Fork \/ V!ForgetParent
  BY <1>5, <1>1 DEF V!ExitBegins, V!Fork, V!ForgetParent, V!os, V!object, V!history, SameProcess,
       Onward, Quiet
<1>6. CASE UNCHANGED V!vars
  BY <1>6, <1>1 DEF V!vars, V!os, V!object, V!history, SameProcess, Onward, Quiet
<1>7. CASE V!Dies
  BY <1>7 DEF V!Dies
<1>8. CASE V!ChildExits
  <2>1. {p \in Pids : V!Up(p) /\ \E v \in childLive : proc[v] = p} = {}
    BY <1>8 DEF V!ChildExits, KnownBase, V!ChildForgot
  <2>2. table' = table
    BY <1>8, <2>1 DEF V!ChildExits, V!Without, KnownBase, V!TypeOK
  <2> QED BY <1>1, <1>8, <2>2 DEF V!ChildExits, V!object, SameProcess, Onward, Quiet
<1>9. ASSUME NEW v \in Emulators, V!DogTerminates(v) \/ V!DogKills(v) PROVE FALSE
  <2>1. launcher = "dead"
    BY <1>9 DEF V!DogTerminates, V!DogKills, KnownBase, V!DogIsHeld
  <2> QED BY <1>9, <2>1 DEF V!DogTerminates, V!DogKills
<1>10. ASSUME NEW v \in Emulators, NEW p \in Pids, V!RootStarts(v, p) PROVE V!Known(w, q)'
  <2>1. launcher # "dead"
    BY <1>10 DEF V!RootStarts
  <2> QED BY <1>10, <2>1, RootKnown
<1>11. ASSUME NEW p \in Pids, V!OtherStarts(p) PROVE V!Known(w, q)'
  <2>1. launcher # "dead"
    BY <1>11 DEF V!OtherStarts
  <2> QED BY <1>11, <2>1, OtherKnown
<1>12. ASSUME NEW p \in Pids, V!EndsByItself(p) PROVE V!Known(w, q)'
  <2>1. /\ launcher # "dead" /\ table[p].kind # "sudo" /\ table' = V!Dead(p)
        /\ warned \subseteq warned' /\ SameProcess(w) /\ Onward(w)
    BY <1>12 DEF V!EndsByItself, V!object, V!history, SameProcess, Onward
  <2>2. sudo[w] /\ V!Up(proc[w]) => p # proc[w]
    BY <2>1 DEF KnownBase, V!OwnProcess, V!Up
  <2> QED BY <2>1, <2>2, DeathKnown
<1> QED
  BY <1>1, <1>2, <1>3, <1>4, <1>5, <1>6, <1>7, <1>8, <1>9, <1>10, <1>11, <1>12,
     EscalateKnown, TerminateKnown, ReapKnown, LaunchKnown, UnregisterKnown
     DEF V!Next, V!Call, V!Dog, V!ExitEnds, V!Killed

-----------------------------------------------------------------------------
LEMMA ProcessStep ==
    ASSUME V!PidsAssumption, V!ProcessInv, [V!Next]_(V!vars)
    PROVE  V!ProcessInv'
<1>1. V!TypeOK' /\ V!BornInTime'
  BY TypeStep DEF V!ProcessInv, V!StrikeInv
<1>2. V!OwnProcess' /\ V!LinesAreMine'
  BY <1>1, OwnStep, LinesStep DEF V!ProcessInv, V!StrikeInv
<1>3. V!DogIsHeld' /\ V!ChildForgot' /\ V!OnlyOrphansAreStruck'
  BY <1>1, DogStep, ChildStep, StruckStep DEF V!ProcessInv, V!StrikeInv
<1>4. V!OneRoot' /\ V!NoProcessYet' /\ V!SurvivorsAreKnown'
  BY OneRootStep, NoProcessStep, KnownStep DEF V!ProcessInv, V!StrikeInv, KnownBase
<1> QED BY <1>1, <1>2, <1>3, <1>4 DEF V!ProcessInv, V!StrikeInv

(* What the launcher, the watchdogs and the forked children of any number of *)
(* emulators keep to, whatever dies and whatever process ids are reused.    *)
THEOREM ProcessInvariant == V!Spec => []V!ProcessInv
<1>1. V!Init => V!ProcessInv
  BY InitInv, HostAssumption
<1>2. V!ProcessInv /\ [V!Next]_(V!vars) => V!ProcessInv'
  BY ProcessStep, HostAssumption
<1> QED BY <1>1, <1>2, PTL DEF V!Spec

(* The watchdog strikes nobody but the orphans of a dead launcher: not who   *)
(* took over a process id, nor an emulator that was detached, nor one whose  *)
(* launcher lives, however the launcher's children keep its pipe open.       *)
THEOREM StrikesAreRight == V!Spec => []OnlyOrphansAreStruck
<1>1. V!ProcessInv => OnlyOrphansAreStruck
  BY DEF V!ProcessInv, V!StrikeInv, OnlyOrphansAreStruck
<1> QED BY <1>1, ProcessInvariant, PTL

(* stop() leaves no x64sc behind that it does not name, and a launch that    *)
(* failed leaves none: when an object is idle again nothing of its own runs. *)
THEOREM SurvivorsAreTold == V!Spec => []SurvivorsAreNamed
<1>1. V!ProcessInv => SurvivorsAreNamed
  <2> SUFFICES ASSUME V!ProcessInv, NEW v \in Emulators, phase[v] \in {"retire", "idle"},
                      launcher # "dead", proc[v] = NoPid, NEW p \in V!Running(v)
               PROVE  <<p, table[p].born>> \in warned
    BY DEF SurvivorsAreNamed, V!SurvivorsAreNamed
  <2>1. V!Known(v, p) /\ p \in Pids
    BY DEF V!ProcessInv, V!SurvivorsAreKnown, V!Running
  <2> QED BY <2>1, HostAssumption DEF V!Known, V!Up, V!PidsAssumption
<1> QED BY <1>1, ProcessInvariant, PTL

-----------------------------------------------------------------------------
(* The port lock.                                                           *)
USE FlockAssumption, AttemptsAssumption

(* The type and ownership invariant holds initially and is inductive.       *)
LEMMA InitIInv == Init => IInv
  BY DEF Init, FlockInit, IInv, TypeOK, LocksAreOpen, LockedOwns,
         RecheckedOnPath, Locked, Steps, OnPath

(* What each step of a process leaves of the invariant.                     *)
LEMMA StepIInv == IInv /\ [Next]_vars => IInv'
<1> SUFFICES ASSUME IInv, [Next]_vars PROVE IInv'
  OBVIOUS
<1> USE DEF IInv, TypeOK, LocksAreOpen, LockedOwns, RecheckedOnPath, Locked,
            Steps, OnPath, Goto
<1>1. CASE UNCHANGED vars
  BY <1>1 DEF vars
<1>2. ASSUME NEW p \in Procs, Acquire(p) PROVE IInv'
  BY <1>2 DEF Acquire, flockVars
<1>3. ASSUME NEW p \in Procs, Open(p) PROVE IInv'
  <2> PICK i \in (IF path = NoInode THEN Unused ELSE {path}) :
             path' = i /\ fd' = [fd EXCEPT ![p] = i]
    BY <1>3 DEF Open, OpenCreate
  <2>1. i \in Inodes /\ owner' = owner
    BY <1>3 DEF Open, OpenCreate, Unused
  <2>2. pc' = [pc EXCEPT ![p] = "flock"] /\ pc[p] = "open" /\ attempt' = attempt
    BY <1>3 DEF Open
  <2>3. \A j \in Inodes : owner[j] # p \/ fd[p] = j
    OBVIOUS
  <2>4. path = NoInode => \A q \in Procs : pc[q] \notin {"held", "sweepUnlink"}
    OBVIOUS
  <2> QED BY <2>1, <2>2, <2>3, <2>4 DEF Unused
<1>4. ASSUME NEW p \in Procs, TryFlock(p) PROVE IInv'
  BY <1>4 DEF TryFlock, LockEx, CloseFd
<1>5. ASSUME NEW p \in Procs, Verify(p) PROVE IInv'
  BY <1>5 DEF Verify, CloseFd, flockVars
<1>6. ASSUME NEW p \in Procs, Release(p) PROVE IInv'
  BY <1>6 DEF Release, CloseFd
<1>7. ASSUME NEW p \in Procs, SweepOpen(p) PROVE IInv'
  BY <1>7 DEF SweepOpen, OpenExisting
<1>8. ASSUME NEW p \in Procs, SweepFlock(p) PROVE IInv'
  BY <1>8 DEF SweepFlock, LockEx, CloseFd
<1>9. ASSUME NEW p \in Procs, SweepVerify(p) PROVE IInv'
  BY <1>9 DEF SweepVerify, flockVars
<1>10. ASSUME NEW p \in Procs, SweepUnlink(p) PROVE IInv'
  BY <1>10 DEF SweepUnlink, Unlink
<1>11. ASSUME NEW p \in Procs, SweepClose(p) PROVE IInv'
  BY <1>11 DEF SweepClose, CloseFd
<1>12. ASSUME NEW p \in Procs, Crash(p) PROVE IInv'
  BY <1>12 DEF Crash, CloseFd
<1> QED
  BY <1>1, <1>2, <1>3, <1>4, <1>5, <1>6, <1>7, <1>8, <1>9, <1>10, <1>11,
     <1>12 DEF Next

(* In every reachable state a process past its recheck owns the inode that  *)
(* the lockfile's name leads to.                                            *)
THEOREM Invariant == Spec => []IInv
<1>1. Init => IInv
  BY InitIInv
<1>2. IInv /\ [Next]_vars => IInv'
  BY StepIInv
<1> QED
  BY <1>1, <1>2, PTL DEF Spec

(* Two processes past their recheck own the same inode: they are the same.  *)
LEMMA IInvExcludes == IInv => MutualExclusion
  BY DEF IInv, LockedOwns, RecheckedOnPath, Locked, OnPath, MutualExclusion

(* Mutual exclusion on a port, through any interleaving of acquire(),       *)
(* release(), cleanup_stale() and process deaths.                           *)
THEOREM Exclusion == Spec => []MutualExclusion
  BY Invariant, IInvExcludes, PTL

(* No step takes the name away from the inode that a process holds.         *)
THEOREM SweepsSpareHolders == Spec => SweepSparesHolder
<1>1. IInv /\ [Next]_vars =>
        [path' # path => \A p \in Procs : pc[p] # "held"]_vars
  <2> SUFFICES ASSUME IInv, Next, path' # path, NEW h \in Procs, pc[h] = "held"
               PROVE FALSE
    BY DEF vars
  <2>0. fd[h] = path /\ path \in Inodes /\ owner[path] = h
    BY DEF IInv, LockedOwns, RecheckedOnPath, Locked, OnPath
  <2>1. PICK p \in Procs : Open(p) \/ SweepUnlink(p)
    BY DEF Next, Acquire, Open, TryFlock, Verify, Release, SweepOpen,
           SweepFlock, SweepVerify, SweepClose, Crash, OpenExisting, LockEx,
           CloseFd, flockVars
  <2>2. CASE Open(p)
    BY <2>0, <2>2 DEF Open, OpenCreate
  <2>3. CASE SweepUnlink(p)
    BY <2>0, <2>3 DEF SweepUnlink, IInv, LockedOwns, RecheckedOnPath, Locked,
                      OnPath
  <2> QED BY <2>1, <2>2, <2>3
<1> QED
  BY <1>1, Invariant, PTL DEF Spec, SweepSparesHolder

(* The abstract holder, when the invariant holds: the only process at       *)
(* "held", or nobody.                                                       *)
LEMMA HolderIs ==
  ASSUME IInv
  PROVE  /\ \A p \in Procs : pc[p] = "held" => Holder = p
         /\ (\A p \in Procs : pc[p] # "held") => Holder = NoProc
  BY IInvExcludes DEF Holder, MutualExclusion

(* The port lock implements the abstract mutex: Verify that finds the name  *)
(* and the inode in agreement is Take, release() and the death of the       *)
(* holder are Drop, and every other step leaves the holder alone.           *)
THEOREM Refinement == Spec => ImplementsMutex
<1>1. Init => Abstract!Init
  BY DEF Init, Abstract!Init, Holder
<1>2. IInv /\ IInv' /\ [Next]_vars => [Abstract!Next]_Holder
  <2> SUFFICES ASSUME IInv, IInv', [Next]_vars PROVE [Abstract!Next]_Holder
    OBVIOUS
  <2>1. /\ \A p \in Procs : pc[p] = "held" => Holder = p
        /\ (\A p \in Procs : pc[p] # "held") => Holder = NoProc
    BY HolderIs
  <2>2. /\ \A p \in Procs : pc'[p] = "held" => Holder' = p
        /\ (\A p \in Procs : pc'[p] # "held") => Holder' = NoProc
    <3>1. IInv' => MutualExclusion'
      BY IInvExcludes, PTL
    <3> QED BY <3>1 DEF Holder, MutualExclusion
  <2>3. pc \in [Procs -> Steps] /\ pc' \in [Procs -> Steps]
    BY DEF IInv, TypeOK
  <2>4. ASSUME NEW p \in Procs, pc' = [pc EXCEPT ![p] = pc'[p]]
        PROVE [Abstract!Next]_Holder
    <3>1. CASE pc[p] = "held" /\ pc'[p] # "held"
      <4>1. Holder = p
        BY <2>1, <3>1
      <4>2. \A q \in Procs : pc'[q] # "held"
        BY <2>1, <2>3, <2>4, <3>1
      <4>3. Holder' = NoProc
        BY <2>2, <4>2
      <4> QED BY <4>1, <4>3 DEF Abstract!Next, Abstract!Drop
    <3>2. CASE pc[p] # "held" /\ pc'[p] = "held"
      <4>1. Holder' = p
        BY <2>2, <3>2
      <4>2. \A q \in Procs : pc[q] # "held"
        BY <2>2, <2>3, <2>4, <3>2
      <4>3. Holder = NoProc
        BY <2>1, <4>2
      <4> QED BY <4>1, <4>3 DEF Abstract!Next, Abstract!Take
    <3>3. CASE (pc[p] = "held") <=> (pc'[p] = "held")
      <4>1. \A q \in Procs : (pc[q] = "held") <=> (pc'[q] = "held")
        BY <2>3, <2>4, <3>3
      <4>2. Holder' = Holder
        BY <2>1, <2>2, <4>1
      <4> QED BY <4>2
    <3> QED BY <3>1, <3>2, <3>3
  <2>5. CASE UNCHANGED vars
    BY <2>5, <2>1, <2>2 DEF vars
  <2>6. CASE Next
    <3>1. PICK p \in Procs :
            \/ Acquire(p) \/ Open(p) \/ TryFlock(p) \/ Verify(p) \/ Release(p)
            \/ SweepOpen(p) \/ SweepFlock(p) \/ SweepVerify(p)
            \/ SweepUnlink(p) \/ SweepClose(p) \/ Crash(p)
      BY <2>6 DEF Next
    <3>2. pc' = [pc EXCEPT ![p] = pc'[p]]
      BY <3>1, <2>3 DEF Acquire, Open, TryFlock, Verify, Release, SweepOpen,
         SweepFlock, SweepVerify, SweepUnlink, SweepClose, Crash, Goto
    <3> QED BY <3>2, <2>4
  <2> QED BY <2>5, <2>6
<1>3. Spec => []IInv
  BY Invariant
<1> QED
  BY <1>1, <1>2, <1>3, PTL DEF Spec, ImplementsMutex, Abstract!Spec
=============================================================================
