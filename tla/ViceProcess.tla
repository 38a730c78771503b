---------------------------- MODULE ViceProcess ----------------------------
(***************************************************************************)
(* The life of a launched x64sc (backends/vice_lifecycle.py): start(),     *)
(* stop(), wait_for_exit(), detach(), the stop at interpreter exit, and    *)
(* the watchdog process (backends/vice_watchdog.py) that ends an x64sc     *)
(* whose launcher was killed.  The watchdog knows of the launcher's death  *)
(* by the end of file on a pipe, so it matters who holds the write end: a  *)
(* thread of the launcher may fork at any moment.  Process ids are reused. *)
(* A launch may be wrapped in sudo, and then x64sc is root's process: the  *)
(* launcher reaches it through the wrapper only.                           *)
(*                                                                         *)
(* A check of a process's start time and the signal that follows are one   *)
(* step: no process id is handed out twice within so short a time.         *)
(***************************************************************************)
EXTENDS Integers, FiniteSets, Sequences

CONSTANTS
    Emulators,      \* ViceProcess objects, each started and stopped by one thread
    Pids,
    NoPid,
    MaxBirths       \* bound: processes ever started

PidsAssumption == NoPid \notin Pids /\ IsFiniteSet(Pids) /\ MaxBirths \in Nat /\ "other" \notin Emulators

VARIABLES
    table, births,          \* the process table; the clock that start times are read from
    launcher,               \* "alive", "exiting" (atexit hooks run), "dead"
    child, childEnds, childKnows, childLive,   \* a forked child: what it inherited
    guard,                  \* _FORK_GUARD
    live, dogs,             \* _LIVE_PROCESSES, _WATCHDOGS
    phase, proc, sudo, wfd, rootPid,           \* per object: the call it is in, its fields, locals
    end,                    \* the launcher holds the write end of the watchdog's pipe
    pipe, dog, target,      \* the watchdog: what it has still to read, where it is, its target
    kept, warned, struck    \* history: detach() called; survivors named; signals that killed

os == <<table, births>>
forked == <<child, childEnds, childKnows, childLive>>
registry == <<guard, live, dogs>>
object == <<phase, proc, sudo, wfd, rootPid, end>>
watch == <<pipe, dog, target>>
history == <<kept, warned, struck>>
vars == <<os, launcher, forked, registry, object, watch, history>>

Free == [of |-> "nobody", kind |-> "none", born |-> 0, st |-> "free"]
NoTarget == [pid |-> NoPid, born |-> 0]

Up(p) == p # NoPid /\ table[p].st = "up"
Running(v) == {p \in Pids : Up(p) /\ table[p].of = v /\ table[p].kind # "sudo"}

\* Who waits for a dead process: a Popen object of a living launcher, or nobody.
Awaited(p) == launcher # "dead" /\ \E v \in Emulators : proc[v] = p

\* The table after process p has died.  A wrapper follows the root x64sc it waits for.
Corpse(p) == [table[p] EXCEPT !.st = "zombie"]
Buried(p) == IF Awaited(p) THEN Corpse(p) ELSE Free
Wrapper(p) == {q \in Pids : table[p].kind = "root" /\ Up(q) /\ table[q].kind = "sudo"
                            /\ table[q].of = table[p].of}
Without(P) == [p \in Pids |-> IF p \in P THEN Buried(p) ELSE table[p]]
Dead(p) == Without({p} \union Wrapper(p))

Init ==
    /\ table = [p \in Pids |-> Free] /\ births = 0 /\ launcher = "alive"
    /\ child = "none" /\ childEnds = {} /\ childKnows = {} /\ childLive = {}
    /\ guard = FALSE /\ live = {} /\ dogs = {}
    /\ phase = [v \in Emulators |-> "idle"] /\ proc = [v \in Emulators |-> NoPid]
    /\ sudo = [v \in Emulators |-> FALSE] /\ wfd = [v \in Emulators |-> FALSE]
    /\ rootPid = [v \in Emulators |-> NoPid] /\ end = [v \in Emulators |-> FALSE]
    /\ pipe = [v \in Emulators |-> <<>>] /\ dog = [v \in Emulators |-> "none"]
    /\ target = [v \in Emulators |-> NoTarget]
    /\ kept = {} /\ warned = {} /\ struck = {}

-----------------------------------------------------------------------------
(* Processes (external).                                                   *)

Birth(p, v, kind) ==
    /\ table[p].st = "free" /\ births < MaxBirths
    /\ births' = births + 1
    /\ table' = [table EXCEPT ![p] = [of |-> v, kind |-> kind, born |-> births + 1, st |-> "up"]]

\* A process of somebody else takes a free process id; any process may end.
OtherStarts(p) ==
    /\ Birth(p, "other", "plain")
    /\ UNCHANGED <<launcher, forked, registry, object, watch, history>>

EndsByItself(p) ==
    /\ Up(p) /\ table[p].kind # "sudo"
    /\ table' = Dead(p)
    /\ UNCHANGED <<births, launcher, forked, registry, object, watch, history>>

\* sudo starts the x64sc it wraps; not any more five seconds after a SIGTERM.
RootStarts(v, p) ==
    /\ sudo[v] /\ Up(proc[v]) /\ ~ \E q \in Pids : table[q].of = v /\ table[q].kind = "root"
    /\ phase[v] \notin {"idle", "escalated"}
    /\ Birth(p, v, "root")
    /\ UNCHANGED <<launcher, forked, registry, object, watch, history>>

-----------------------------------------------------------------------------
(* start()                                                                 *)

Step(v, from, to) == phase[v] = from /\ phase' = [phase EXCEPT ![v] = to]
Thread(v) == launcher = "alive" \/ (launcher = "exiting" /\ phase[v] \notin {"idle", "detached"})

\* Mutant: forks are not held off while the pipe is made.
MakePipeUnguarded(v) ==
    /\ launcher = "alive" /\ Step(v, "idle", "pipe")
    /\ end' = [end EXCEPT ![v] = TRUE]
    /\ pipe' = [pipe EXCEPT ![v] = <<>>] /\ target' = [target EXCEPT ![v] = NoTarget]
    /\ kept' = kept \ {v} /\ childEnds' = childEnds \ {v}
    /\ UNCHANGED <<os, launcher, child, childKnows, childLive, guard, live, dogs, proc, sudo, wfd,
                   rootPid, dog, warned, struck>>

\* The pipe is made under the guard that holds forks off, and so is its registration.
MakePipe(v) ==
    /\ launcher = "alive" /\ ~guard /\ Step(v, "idle", "pipe")
    /\ guard' = TRUE /\ end' = [end EXCEPT ![v] = TRUE]
    /\ pipe' = [pipe EXCEPT ![v] = <<>>] /\ target' = [target EXCEPT ![v] = NoTarget]
    /\ kept' = kept \ {v} /\ childEnds' = childEnds \ {v}     \* what a child holds is an older pipe
    /\ UNCHANGED <<os, launcher, child, childKnows, childLive, live, dogs, proc, sudo, wfd, rootPid,
                   dog, warned, struck>>

Register(v) ==
    /\ Thread(v) /\ Step(v, "pipe", "registered")
    /\ wfd' = [wfd EXCEPT ![v] = TRUE] /\ dogs' = dogs \union {v} /\ guard' = FALSE
    /\ UNCHANGED <<os, launcher, forked, live, proc, sudo, rootPid, end, watch, history>>

\* The watchdog process starts, or cannot: then the launch goes on without one.
SpawnDog(v) ==
    /\ Thread(v)
    /\ \/ Step(v, "registered", "launch") /\ dog' = [dog EXCEPT ![v] = "reading"]
          /\ UNCHANGED <<wfd, end, dogs>>
       \/ Step(v, "registered", "launch") /\ dog' = [dog EXCEPT ![v] = "none"]
          /\ wfd' = [wfd EXCEPT ![v] = FALSE] /\ end' = [end EXCEPT ![v] = FALSE]
          /\ dogs' = dogs \ {v}
    /\ UNCHANGED <<os, launcher, forked, guard, live, proc, sudo, rootPid, pipe, target, history>>

\* Popen, of x64sc or of sudo.
Launch(v) ==
    /\ Thread(v)
    /\ \E p \in Pids, wrapped \in BOOLEAN :
         /\ Step(v, "launch", "arm")
         /\ Birth(p, v, IF wrapped THEN "sudo" ELSE "plain")
         /\ proc' = [proc EXCEPT ![v] = p] /\ sudo' = [sudo EXCEPT ![v] = wrapped]
    /\ UNCHANGED <<launcher, forked, registry, wfd, rootPid, end, watch, history>>

LaunchFails(v) ==
    /\ Thread(v) /\ Step(v, "launch", IF wfd[v] THEN "retire" ELSE "idle")
    /\ UNCHANGED <<os, launcher, forked, registry, proc, sudo, wfd, rootPid, end, watch, history>>

\* arm(): the start time is read while the process id cannot be reused.  A child
\* that is already gone needs no watchdog.
Arm(v) ==
    /\ Thread(v)
    /\ IF wfd[v] /\ ~Up(proc[v])
       THEN Step(v, "arm", "retire") /\ UNCHANGED pipe
       ELSE /\ Step(v, "arm", "up")
            /\ pipe' = (IF wfd[v] THEN [pipe EXCEPT ![v] = Append(@,
                                          [pid |-> proc[v], born |-> table[proc[v]].born])]
                                  ELSE pipe)
    /\ live' = live \union {v}
    /\ UNCHANGED <<os, launcher, forked, guard, dogs, proc, sudo, wfd, rootPid, end, dog, target, history>>

-----------------------------------------------------------------------------
(* stop(), wait_for_exit(), detach()                                       *)

MyRoot(v) == LET r == {p \in Pids : Up(p) /\ table[p].of = v /\ table[p].kind = "root" /\ Up(proc[v])}
             IN IF r = {} THEN NoPid ELSE CHOOSE p \in r : TRUE

AfterProcess(v) == IF wfd[v] THEN "retire" ELSE "idle"

\* The root x64sc is looked up first; SIGTERM to the child ends it or not.
Terminate(v) ==
    /\ Thread(v) /\ Step(v, "up", "terminated")
    /\ rootPid' = [rootPid EXCEPT ![v] = IF sudo[v] THEN MyRoot(v) ELSE NoPid]
    /\ table' \in {table} \union
                  (IF Up(proc[v]) THEN {IF MyRoot(v) = NoPid THEN Dead(proc[v]) ELSE Dead(MyRoot(v))}
                                  ELSE {})
    /\ UNCHANGED <<births, launcher, forked, registry, proc, sudo, wfd, end, watch, history>>

\* Mutant: the x64sc found at the beginning is the only one stop() knows.
EscalateOnlyKnown(v) ==
    /\ Thread(v) /\ sudo[v] /\ Up(proc[v]) /\ Step(v, "terminated", "escalated")
    /\ table' \in {table} \union (IF Up(rootPid[v]) THEN {Dead(rootPid[v])} ELSE {})
    /\ UNCHANGED <<births, launcher, forked, registry, proc, sudo, wfd, rootPid, end, watch, history>>

\* The timeout on a sudo launch: the x64sc is looked up again, and killed if
\* sudo may run kill.
Escalate(v) ==
    /\ Thread(v) /\ sudo[v] /\ Up(proc[v]) /\ Step(v, "terminated", "escalated")
    /\ LET found == MyRoot(v)
       IN /\ rootPid' = [rootPid EXCEPT ![v] = IF found # NoPid THEN found ELSE @]
          /\ table' \in {table} \union (IF found # NoPid THEN {Dead(found)} ELSE {})
    /\ UNCHANGED <<births, launcher, forked, registry, proc, sudo, wfd, end, watch, history>>

\* The child is reaped, by SIGKILL if need be.
Reap(v) ==
    /\ Thread(v)
    /\ \/ Step(v, "escalated", "unregister")
       \/ Step(v, "terminated", "unregister") /\ (sudo[v] => ~Up(proc[v]))
    /\ table' = [table EXCEPT ![proc[v]] = Free] /\ proc' = [proc EXCEPT ![v] = NoPid]
    /\ UNCHANGED <<births, launcher, forked, registry, sudo, wfd, rootPid, end, watch, history>>

WaitForExit(v) ==
    /\ Thread(v) /\ Step(v, "up", "unregister") /\ table[proc[v]].st = "zombie"
    /\ table' = [table EXCEPT ![proc[v]] = Free] /\ proc' = [proc EXCEPT ![v] = NoPid]
    /\ rootPid' = [rootPid EXCEPT ![v] = NoPid]
    /\ UNCHANGED <<births, launcher, forked, registry, sudo, wfd, end, watch, history>>

\* A survivor, still the same process, is named in a warning at the end of stop().
Unregister(v) ==
    /\ Thread(v) /\ Step(v, "unregister", AfterProcess(v))
    /\ live' = live \ {v}
    /\ warned' = IF Up(rootPid[v]) /\ rootPid[v] \in Running(v) THEN warned \union {<<rootPid[v], table[rootPid[v]].born>>} ELSE warned
    /\ UNCHANGED <<os, launcher, forked, guard, dogs, proc, sudo, wfd, rootPid, end, watch, kept, struck>>

Detach(v) ==
    /\ launcher = "alive" /\ Step(v, "up", IF wfd[v] THEN "retire" ELSE "detached")
    /\ live' = live \ {v} /\ kept' = kept \union {v}
    /\ UNCHANGED <<os, launcher, forked, guard, dogs, proc, sudo, wfd, rootPid, end, watch, warned, struck>>

\* retire(): the descriptor is taken, the disarm written and the descriptor
\* closed, the object forgotten, the watchdog awaited or killed.
TakeEnd(v) ==
    /\ Thread(v) /\ Step(v, "retire", "disarm")
    /\ wfd' = [wfd EXCEPT ![v] = FALSE]
    /\ UNCHANGED <<os, launcher, forked, registry, proc, sudo, rootPid, end, watch, history>>

Disarm(v) ==
    /\ Thread(v) /\ Step(v, "disarm", "forget")
    /\ pipe' = [pipe EXCEPT ![v] = Append(@, NoTarget)] /\ end' = [end EXCEPT ![v] = FALSE]
    /\ UNCHANGED <<os, launcher, forked, registry, proc, sudo, wfd, rootPid, dog, target, history>>

ForgetDog(v) ==
    /\ Thread(v) /\ ~guard /\ Step(v, "forget", "reap")
    /\ dogs' = dogs \ {v}
    /\ UNCHANGED <<os, launcher, forked, guard, live, proc, sudo, wfd, rootPid, end, watch, history>>

ReapDog(v) ==
    /\ Thread(v)
    /\ Step(v, "reap", IF v \in kept THEN "detached" ELSE IF proc[v] = NoPid THEN "idle" ELSE "up")
    /\ dog' = [dog EXCEPT ![v] = "none"]
    /\ UNCHANGED <<os, launcher, forked, registry, proc, sudo, wfd, rootPid, end, pipe, target, history>>

-----------------------------------------------------------------------------
(* The end of the launcher, and the children it forks.                     *)

\* The interpreter exits: the hook stops what was never stopped.
ExitBegins ==
    /\ launcher = "alive" /\ \A v \in Emulators : phase[v] \in {"idle", "up", "detached"}
    /\ launcher' = "exiting"
    /\ UNCHANGED <<os, forked, registry, object, watch, history>>

\* Its death closes its descriptors; who waits for its children is init.
Dies ==
    /\ launcher' = "dead" /\ guard' = FALSE
    /\ end' = [v \in Emulators |-> FALSE]
    /\ table' = [p \in Pids |-> IF table[p].st = "zombie" THEN Free ELSE table[p]]
    /\ UNCHANGED <<births, forked, live, dogs, phase, proc, sudo, wfd, rootPid, watch, history>>

ExitEnds == launcher = "exiting" /\ live = {} /\ (\A v \in Emulators : phase[v] \in {"idle", "detached"}) /\ Dies
Killed == launcher # "dead" /\ Dies

\* The before hook takes the guard.  The child has a copy of everything.
Fork ==
    /\ launcher = "alive" /\ child = "none" /\ ~guard
    /\ child' = "forked"
    /\ childEnds' = {v \in Emulators : end[v]} /\ childKnows' = {v \in dogs : wfd[v]}
    /\ childLive' = live
    /\ UNCHANGED <<os, launcher, registry, object, watch, history>>

\* The after hook forgets the parent's emulators and closes its pipes.
ForgetParent ==
    /\ child = "forked"
    /\ child' = "running"
    /\ childLive' = {} /\ childEnds' = childEnds \ childKnows
    /\ UNCHANGED <<os, launcher, childKnows, registry, object, watch, history>>

\* Its exit runs the same hook; it may also run for ever.
ChildExits ==
    /\ child = "running" /\ child' = "gone" /\ childEnds' = {}
    /\ table' = Without({p \in Pids : Up(p) /\ \E v \in childLive : proc[v] = p})
    /\ struck' = struck \union {[by |-> "child", on |-> v, was |-> launcher] : v \in childLive}
    /\ UNCHANGED <<births, launcher, childKnows, childLive, registry, object, watch, kept, warned>>

-----------------------------------------------------------------------------
(* The watchdog.                                                           *)

\* Mutant: the process id is enough.
SameById(t) == Up(t.pid)

\* The process has the start time the launcher read.
Same(t) == Up(t.pid) /\ table[t.pid].born = t.born

DogReads(v) ==
    /\ dog[v] \in {"reading", "armed"} /\ pipe[v] # <<>>
    /\ pipe' = [pipe EXCEPT ![v] = Tail(@)]
    /\ LET line == Head(pipe[v]) IN
       IF line = NoTarget \/ ~Same(line)
       THEN dog' = [dog EXCEPT ![v] = "none"] /\ UNCHANGED target     \* disarmed, or refused
       ELSE dog' = [dog EXCEPT ![v] = "armed"] /\ target' = [target EXCEPT ![v] = line]
    /\ UNCHANGED <<os, launcher, forked, registry, object, history>>

DogMeetsEof(v) ==
    /\ dog[v] \in {"reading", "armed"} /\ pipe[v] = <<>> /\ ~end[v] /\ v \notin childEnds
    /\ dog' = [dog EXCEPT ![v] = IF dog[v] = "reading" THEN "none" ELSE "term"]
    /\ UNCHANGED <<os, launcher, forked, registry, object, pipe, target, history>>

\* A watchdog that was told to disarm has nothing to strike any more.
Disarmed(v) == phase[v] \in {"forget", "reap", "detached"} /\ v \in kept

Strike(v) == struck' = struck \union
    {[by |-> "dog", on |-> IF table[target[v].pid].of = v /\ ~Disarmed(v) THEN v ELSE "stranger",
      was |-> launcher]}

\* SIGTERM may be ignored.  A sudo wrapper passes it on.
DogTerminates(v) ==
    /\ dog[v] = "term"
    /\ LET p == target[v].pid IN
       IF Same(target[v])
       THEN /\ dog' = [dog EXCEPT ![v] = "grace"] /\ Strike(v)
            /\ LET r == {q \in Pids : Up(q) /\ table[q].kind = "root" /\ table[q].of = v
                                      /\ table[p].kind = "sudo"}
               IN table' \in {table, Without(r \union {p})}
       ELSE dog' = [dog EXCEPT ![v] = "none"] /\ UNCHANGED <<table, struck>>
    /\ UNCHANGED <<births, launcher, forked, registry, object, pipe, target, kept, warned>>

DogKills(v) ==
    /\ dog[v] = "grace"
    /\ dog' = [dog EXCEPT ![v] = "none"]
    /\ IF Same(target[v]) THEN table' = Without({target[v].pid}) /\ Strike(v)
                          ELSE UNCHANGED <<table, struck>>
    /\ UNCHANGED <<births, launcher, forked, registry, object, pipe, target, kept, warned>>

Dog(v) == DogReads(v) \/ DogMeetsEof(v) \/ DogTerminates(v) \/ DogKills(v)

-----------------------------------------------------------------------------
Call(v) ==
    \/ MakePipe(v) \/ Register(v) \/ SpawnDog(v) \/ Launch(v) \/ LaunchFails(v) \/ Arm(v)
    \/ Terminate(v) \/ Escalate(v) \/ Reap(v) \/ WaitForExit(v) \/ Unregister(v) \/ Detach(v)
    \/ TakeEnd(v) \/ Disarm(v) \/ ForgetDog(v) \/ ReapDog(v)

Next ==
    \/ \E v \in Emulators : Call(v) \/ Dog(v) \/ \E p \in Pids : RootStarts(v, p)
    \/ \E p \in Pids : OtherStarts(p) \/ EndsByItself(p)
    \/ ExitBegins \/ ExitEnds \/ Killed \/ Fork \/ ForgetParent \/ ChildExits

\* The watchdog and the hook of a forked child run to their ends; nothing else must.
Fairness == (\A v \in Emulators : WF_vars(Dog(v))) /\ WF_vars(ForgetParent)

Spec == Init /\ [][Next]_vars /\ Fairness

-----------------------------------------------------------------------------
(* Properties.                                                             *)

\* A signal that the launcher did not send itself reaches only an x64sc that
\* was armed by a launcher now dead and had not been disarmed by detach(): never the process
\* that took over a process id, a detached emulator, or the emulator of a
\* launcher that still runs (vice_watchdog: "leaves a reused PID alone";
\* _forget_parent_processes: "the parent's emulators are not ours to stop").
OnlyOrphansAreStruck ==
    \A s \in struck : s.by = "dog" /\ s.on \in Emulators /\ s.was = "dead"

\* An x64sc whose arm was written does not outlive a launcher killed by a
\* signal, whatever children the launcher has forked and however long they live.
\* A sudo launch is out of this promise, as the class says.
NoOrphan ==
    \A v \in Emulators :
        (launcher = "dead" /\ phase[v] = "up" /\ wfd[v])
            ~> \A p \in Running(v) : table[p].kind = "root"

\* stop() is thorough: when it has returned no x64sc of the object runs, or
\* the one that does, root's, is named in the warning.
SurvivorsAreNamed ==
    \A v \in Emulators : phase[v] \in {"retire", "idle"} /\ launcher # "dead" /\ proc[v] = NoPid =>
        \A p \in Running(v) : <<p, table[p].born>> \in warned

-----------------------------------------------------------------------------
(* What the two safety properties rest on.                                 *)

Entry == [of : Emulators \union {"nobody", "other"}, kind : {"none", "plain", "sudo", "root"},
          born : Nat, st : {"free", "up", "zombie"}]
Line == [pid : Pids \union {NoPid}, born : Nat]
Calls == {"idle", "pipe", "registered", "launch", "arm", "up", "terminated", "escalated",
          "unregister", "retire", "disarm", "forget", "reap", "detached"}

TypeOK ==
    /\ table \in [Pids -> Entry]
    /\ births \in Nat /\ launcher \in {"alive", "exiting", "dead"}
    /\ child \in {"none", "forked", "running", "gone"}
    /\ childEnds \subseteq Emulators /\ childKnows \subseteq Emulators /\ childLive \subseteq Emulators
    /\ guard \in BOOLEAN /\ live \subseteq Emulators /\ dogs \subseteq Emulators
    /\ phase \in [Emulators -> Calls]
    /\ proc \in [Emulators -> Pids \union {NoPid}] /\ rootPid \in [Emulators -> Pids \union {NoPid}]
    /\ sudo \in [Emulators -> BOOLEAN] /\ wfd \in [Emulators -> BOOLEAN]
    /\ end \in [Emulators -> BOOLEAN]
    /\ pipe \in [Emulators -> Seq(Line)] /\ target \in [Emulators -> Line]
    /\ dog \in [Emulators -> {"none", "reading", "armed", "term", "grace"}]

\* A process is older than the clock, and an object's process is its own.
BornInTime == \A p \in Pids : table[p].born <= births

OwnProcess ==
    launcher # "dead" => \A v \in Emulators : proc[v] # NoPid =>
        /\ table[proc[v]].of = v /\ table[proc[v]].st # "free"
        /\ table[proc[v]].kind = IF sudo[v] THEN "sudo" ELSE "plain"

\* A line of the pipe, and the target taken from one, is of the object's own
\* process, or of one that is gone for good.
Mine(v, line) == line.born <= births /\ (Same(line) => table[line.pid].of = v)

LinesAreMine ==
    \A v \in Emulators : Mine(v, target[v]) /\ \A i \in 1 .. Len(pipe[v]) : Mine(v, pipe[v][i])

\* A watchdog that reads has the launcher at the other end, or a disarm to read
\* yet; one that strikes has neither.
DogIsHeld ==
    \A v \in Emulators :
        /\ phase[v] \in {"idle", "pipe", "registered", "detached"} => dog[v] = "none"
        /\ phase[v] \in {"launch", "arm", "up", "terminated", "escalated", "unregister"} /\ ~wfd[v]
              => dog[v] = "none"
        /\ phase[v] \in {"pipe", "registered"} /\ launcher # "dead" => end[v]
        /\ phase[v] = "registered" => wfd[v]
        /\ dog[v] \in {"reading", "armed"} =>
              IF phase[v] \in {"forget", "reap"}
              THEN pipe[v] # <<>> /\ pipe[v][Len(pipe[v])] = NoTarget
              ELSE end[v] \/ launcher = "dead"
        /\ dog[v] \in {"term", "grace"} => launcher = "dead" /\ phase[v] \notin {"forget", "reap"}

ChildForgot == child = "running" => childLive = {}

StrikeInv == /\ TypeOK /\ BornInTime /\ OwnProcess /\ LinesAreMine
             /\ DogIsHeld /\ ChildForgot /\ OnlyOrphansAreStruck

\* An object has one x64sc of root's at most.  One that runs is the object's own,
\* or under a wrapper that will be seen to run, or is known to stop(), or named.
OneRoot ==
    \A p, q \in Pids :
        table[p].kind = "root" /\ table[q].kind = "root" /\ table[p].of = table[q].of => p = q

NoProcessYet ==
    \A v \in Emulators :
        phase[v] \in {"idle", "pipe", "registered", "launch", "unregister"} => proc[v] = NoPid

Known(v, p) ==
    \/ <<p, table[p].born>> \in warned
    \/ p = proc[v]
    \/ /\ table[p].kind = "root"
       /\ \/ sudo[v] /\ Up(proc[v]) /\ phase[v] # "escalated"
          \/ phase[v] \in {"escalated", "unregister"} /\ rootPid[v] = p

SurvivorsAreKnown ==
    launcher # "dead" => \A v \in Emulators : \A p \in Running(v) : Known(v, p)

ProcessInv == StrikeInv /\ OneRoot /\ NoProcessYet /\ SurvivorsAreKnown
=============================================================================
