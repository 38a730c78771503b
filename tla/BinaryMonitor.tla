--------------------------- MODULE BinaryMonitor ---------------------------
(***************************************************************************)
(* The client of VICE's binary monitor (backends/vice_binary.py) and what  *)
(* drives a program through it: jsr() with its recovery (execute.py), the  *)
(* waiter wait_for_memory() with its confirmed resume (memory.py,          *)
(* screen.py), single_step() and checkpoint_list().                        *)
(*                                                                         *)
(* Two sockets' worth of frames lie between the threads of the client and  *)
(* VICE.  Every command halts the 6510; a command that meets a running one *)
(* is announced by events, and one that meets a CPU stalled in a DMA may   *)
(* leave spare traps, each of which swallows a later EXIT.  A reply can be *)
(* late: its waiter is gone and the frame is met by a later reader.  A     *)
(* frame read in parts is resumed where it was left, so frames are whole   *)
(* here.  Request ids do not wrap within the bounds.  Registers events,    *)
(* which no reader looks at, are not modelled, and of what a reader puts   *)
(* on the queue only stops and jams, the frames the queue is searched for. *)
(***************************************************************************)
EXTENDS Integers, FiniteSets, Sequences, SequencesExt

CONSTANTS
    Threads,        \* callers of one transport
    NoThread,
    JobsOf,         \* the jobs each thread runs
    MaxJobs,        \* bound: jobs started by all threads together
    MaxTimeouts,    \* bound: receive timeouts
    MaxPolls,       \* bound: resumes so far for a waiter to poll once more
    MaxSpare,       \* bound: spare monitor traps at a time
    Attempts,       \* STALE_TRAP_ATTEMPTS
    Stops           \* what may stop the routine besides its RTS: "jam", "own", "trace"

NoneOf == 0         \* no request, no checkpoint

VARIABLES
    mode,           \* the 6510: "run" or "halt" (in the monitor)
    ctx,            \* PC, stack and flags of the 6510
    code,           \* what the trampoline's five bytes hold
    bps,            \* checkpoints on the landing, by number
    spare,          \* spare monitor traps queued in VICE
    ran,            \* history: the routine of the present call has returned
    hijacked,       \* history: the registers jsr() found the 6510 with
    reqs, wire,     \* the binary socket: to VICE, to the client
    text,           \* the text monitor: "none", "asked", "answered"
    lock, gen, queue, ids,           \* the transport's fields
    job, step, part, want, exc,      \* per thread: what it runs, and where
    saved, bp, tries, verdict, \* locals of the calls
    jobs, timeouts                   \* counters for the bounds

machine == <<mode, ctx, code, bps, spare, ran, hijacked>>
socket == <<reqs, wire, text>>
client == <<lock, gen, queue, ids>>
locals == <<saved, bp, tries, verdict>>
callers == <<job, step, part, want, exc, locals>>
vars == <<machine, socket, client, callers, jobs, timeouts>>

Places == {"prog", "scratch", "inside", "landing", "kil"}
Ctx == [at : Places, sp : {0, 1}, fl : {"own", "routine"}]
NoCtx == [at |-> "prog", sp |-> 0, fl |-> "own"]      \* of a program before any call
Event(type) == [type |-> type, id |-> NoneOf]
Reply(req) == [type |-> "reply", id |-> req.id, val |-> ctx]
IsStop(frame) == frame.type \in {"stopped", "jam"}

\* A reader's frame that stays on the queue is marked with the generation.
Queued(frame) == IF IsStop(frame) THEN <<[gen |-> gen, type |-> frame.type]>> ELSE <<>>

Jobs == {"jsr", "jsrRecover", "jsrPlain", "watch", "step", "list", "peek", "text"}
ASSUME MonitorAssumption ==
    /\ NoThread \notin Threads
    /\ JobsOf \in [Threads -> SUBSET Jobs]
    /\ Attempts \in Nat /\ MaxSpare \in Nat /\ MaxSpare < Attempts

IsJsr(t) == job[t] \in {"jsr", "jsrRecover", "jsrPlain"}

\* The command each step sends; the other steps send none.
Command == [rd0 |-> "getregs", wr |-> "memset", ck |-> "ckset", pc |-> "setpc", go |-> "exit",
            rd1 |-> "getregs", del |-> "ckdel", rst |-> "restore", hread |-> "getregs",
            hset |-> "unwind", jamread |-> "getregs", mget |-> "memget", adv |-> "advance",
            list |-> "cklist", cgo |-> "exit"]
Steps == DOMAIN Command \union {"idle", "bump", "scan", "wait", "clisten", "cdone", "ask", "done"}

Init ==
    /\ mode = "run" /\ ctx = NoCtx
    /\ code = "none" /\ bps = {} /\ spare = 0 /\ ran = FALSE /\ hijacked = ctx
    /\ reqs = <<>> /\ wire = <<>> /\ text = "none"
    /\ lock = NoThread /\ gen = 0 /\ queue = <<>> /\ ids = 1
    /\ job = [t \in Threads |-> "none"] /\ step = [t \in Threads |-> "idle"]
    /\ part = [t \in Threads |-> "call"] /\ want = [t \in Threads |-> NoneOf]
    /\ exc = [t \in Threads |-> "none"]
    /\ saved = [t \in Threads |-> ctx] /\ bp = [t \in Threads |-> NoneOf]
    /\ tries = [t \in Threads |-> 0] /\ verdict = [t \in Threads |-> "none"]
    /\ jobs = 0 /\ timeouts = 0

-----------------------------------------------------------------------------
(* VICE (external): the 6510 while it runs, and the monitor.               *)

\* The 6510 halts by itself: what it met, its registers, and that it stopped.
Halt(what) ==
    /\ mode' = "halt"
    /\ wire' = wire \o <<Event(what), Event("stopped")>>

RunTrampoline ==
    /\ mode = "run" /\ ctx.at = "scratch"
    /\ ctx' = IF code = "call" THEN [ctx EXCEPT !.at = "inside", !.sp = 1]
                               ELSE [ctx EXCEPT !.at = "landing"]
    /\ UNCHANGED <<mode, code, bps, spare, ran, hijacked, socket, client, callers, jobs, timeouts>>

RunReturn ==
    /\ mode = "run" /\ ctx.at = "inside"
    /\ ctx' = [ctx EXCEPT !.at = "landing", !.sp = 0]
    /\ ran' = TRUE
    /\ UNCHANGED <<mode, code, bps, spare, hijacked, socket, client, callers, jobs, timeouts>>

\* The routine executes a SEI and goes on, jams, or meets the caller's own
\* checkpoint or tracepoint.
RunInside ==
    /\ mode = "run" /\ ctx.at = "inside"
    /\ \/ ctx.fl # "routine" /\ ctx' = [ctx EXCEPT !.fl = "routine"] /\ UNCHANGED <<mode, wire>>
       \/ "jam" \in Stops /\ ctx' = [ctx EXCEPT !.at = "kil"] /\ UNCHANGED <<mode, wire>>
       \/ "own" \in Stops /\ UNCHANGED ctx /\ Halt("ckpt")
       \/ /\ "trace" \in Stops /\ UNCHANGED <<mode, ctx>>
          /\ ~ \E i \in DOMAIN wire : wire[i].type = "trace"
          /\ wire' = Append(wire, Event("trace"))
    /\ UNCHANGED <<code, bps, spare, ran, hijacked, reqs, text, client, callers, jobs, timeouts>>

RunJam ==
    /\ mode = "run" /\ ctx.at = "kil"
    /\ Halt("jam")
    /\ UNCHANGED <<ctx, code, bps, spare, ran, hijacked, reqs, text, client, callers, jobs, timeouts>>

\* The checkpoint on the landing stops the CPU before the NOP; without one it runs on.
RunLanding ==
    /\ mode = "run" /\ ctx.at = "landing"
    /\ \/ bps # {} /\ Halt("ckpt") /\ UNCHANGED ctx
       \/ bps = {} /\ ctx' = [ctx EXCEPT !.at = "prog"] /\ UNCHANGED <<mode, wire>>
    /\ UNCHANGED <<code, bps, spare, ran, hijacked, reqs, text, client, callers, jobs, timeouts>>

\* What a command that finds the 6510 running announces, and the traps it may leave.
Entry == IF mode = "run" THEN <<Event("stopped")>> ELSE <<>>
Traps == IF mode = "run" THEN spare .. MaxSpare ELSE {spare}

Service ==
    /\ reqs # <<>>
    /\ reqs' = Tail(reqs)
    /\ LET r == Head(reqs) IN \E s \in Traps :
       /\ CASE r.cmd = "exit" ->
                 /\ wire' = wire \o Entry \o <<Reply(r), Event("resumed")>>
                            \o (IF s > 0 THEN <<Event("stopped")>> ELSE <<>>)
                 /\ mode' = IF s > 0 THEN "halt" ELSE "run"
                 /\ spare' = IF s > 0 THEN s - 1 ELSE 0
            [] r.cmd = "advance" ->
                 /\ wire' = wire \o Entry \o <<Reply(r), Event("resumed"), Event("stopped")>>
                 /\ mode' = "halt" /\ spare' = s
            [] r.cmd = "cklist" ->
                 /\ wire' = wire \o Entry
                            \o [i \in 1 .. Cardinality(bps) |-> [Reply(r) EXCEPT !.type = "info"]]
                            \o <<Reply(r)>>
                 /\ mode' = "halt" /\ spare' = s
            [] OTHER -> wire' = wire \o Entry \o <<Reply(r)>> /\ mode' = "halt" /\ spare' = s
       /\ code' = IF r.cmd = "memset" THEN r.code ELSE code
       /\ bps' = CASE r.cmd = "ckset" -> bps \union {r.id}
                   [] r.cmd = "ckdel" -> bps \ {r.bp}
                   [] OTHER -> bps
       /\ ctx' = CASE r.cmd = "setpc" -> [ctx EXCEPT !.at = "scratch"]
                   [] r.cmd = "restore" -> r.regs
                   [] r.cmd = "unwind" -> [r.regs EXCEPT !.at = ctx.at]
                   [] OTHER -> ctx
       /\ hijacked' = IF r.cmd = "setpc" /\ code = "call" THEN ctx ELSE hijacked
       /\ ran' = (ran /\ r.cmd # "setpc")
    /\ UNCHANGED <<text, client, callers, jobs, timeouts>>

\* A line on the text monitor enters the same monitor.
ServiceText ==
    /\ text = "asked" /\ reqs = <<>>
    /\ text' = "answered" /\ mode' = "halt" /\ wire' = wire \o Entry
    /\ \E s \in Traps : spare' = s
    /\ UNCHANGED <<ctx, code, bps, ran, hijacked, reqs, client, callers, jobs, timeouts>>

-----------------------------------------------------------------------------
(* The steps of a call.                                                    *)

Goto(t, s) == step' = [step EXCEPT ![t] = s]

FirstStep(j) == CASE j \in {"jsr", "jsrRecover"} -> "rd0"
                  [] j = "jsrPlain" -> "wr"
                  [] j = "watch" -> "mget"
                  [] j = "step" -> "bump"
                  [] j = "list" -> "list"
                  [] j = "peek" -> "rd0"
                  [] j = "text" -> "ask"

Begin(t) ==
    /\ step[t] \in {"idle", "done"} /\ jobs < MaxJobs
    /\ \E j \in JobsOf[t] :
         /\ job' = [job EXCEPT ![t] = j]
         /\ Goto(t, FirstStep(j))
    /\ part' = [part EXCEPT ![t] = "call"] /\ exc' = [exc EXCEPT ![t] = "none"]
    /\ tries' = [tries EXCEPT ![t] = 0] /\ verdict' = [verdict EXCEPT ![t] = "none"]
    /\ saved' = [saved EXCEPT ![t] = NoCtx] /\ bp' = [bp EXCEPT ![t] = NoneOf]
    /\ jobs' = jobs + 1
    /\ UNCHANGED <<machine, socket, client, want, timeouts>>

\* A call that is not jsr ends; the waiter still owes its resume, and what a
\* resume of its own raises is swallowed: it polls on, or is done.
Finish(t, e) ==
    /\ exc' = IF job[t] = "watch" /\ step[t] \in {"go", "cgo"} THEN exc
                                                           ELSE [exc EXCEPT ![t] = e]
    /\ Goto(t, CASE job[t] = "watch" /\ step[t] = "mget" -> "cgo"
                 [] job[t] = "watch" /\ step[t] = "go" -> "mget"
                 [] OTHER -> "done")
    /\ UNCHANGED part

\* What follows one trampoline round trip that ended with e: the restore, the
\* recovery of a call that timed out, its first look at the registers
\* excepted, or the end.
EndOnce(t, e) ==
    CASE e = "none" /\ part[t] = "call" /\ job[t] # "jsrPlain" ->
           Goto(t, "rst") /\ exc' = [exc EXCEPT ![t] = "none"] /\ UNCHANGED part
      [] e = "timeout" /\ part[t] = "call" /\ job[t] = "jsrRecover" /\ step[t] # "rd0" ->
           Goto(t, "hread") /\ exc' = [exc EXCEPT ![t] = "none"] /\ part' = [part EXCEPT ![t] = "probe"]
      [] OTHER -> Goto(t, "done") /\ exc' = [exc EXCEPT ![t] = e] /\ UNCHANGED part

\* Mutant: the checkpoint is deleted only after a good return.
FailWithoutFinally(t, e) == IF IsJsr(t) THEN EndOnce(t, e) ELSE Finish(t, e)

\* An exception: inside the try the checkpoint is deleted first.  In the
\* recovery's own two commands it is the end of the recovery.
Fail(t, e) ==
    IF ~IsJsr(t) THEN Finish(t, e)
    ELSE IF step[t] \in {"pc", "go", "scan", "wait", "rd1", "jamread"}
         THEN Goto(t, "del") /\ exc' = [exc EXCEPT ![t] = e] /\ UNCHANGED part
         ELSE IF step[t] \in {"hread", "hset"}
              THEN Goto(t, "done") /\ exc' = [exc EXCEPT ![t] = "error"] /\ UNCHANGED part
              ELSE EndOnce(t, e)

Raise(t, e) == Fail(t, e) /\ UNCHANGED <<saved, bp, verdict>>

\* resume() moves the generation before it asks for the lock.
Bump(t) ==
    /\ step[t] = "bump"
    /\ gen' = gen + 1
    /\ Goto(t, IF job[t] = "step" THEN "adv" ELSE "go")
    /\ UNCHANGED <<machine, socket, lock, queue, ids, job, part, want, exc, locals, jobs, timeouts>>

\* _send_and_recv: the lock, then the request, which carries what its command
\* uses of the caller's locals.  _resume_confirmed moves the generation under
\* the lock.
Send(t) ==
    /\ step[t] \in DOMAIN Command /\ want[t] = NoneOf /\ lock = NoThread
    /\ lock' = t /\ ids' = ids + 1
    /\ reqs' = Append(reqs, [id |-> ids, cmd |-> Command[step[t]], code |-> part[t],
                             regs |-> saved[t], bp |-> bp[t]])
    /\ want' = [want EXCEPT ![t] = ids]
    /\ gen' = IF step[t] = "cgo" THEN gen + 1 ELSE gen
    /\ tries' = IF step[t] = "cgo" THEN [tries EXCEPT ![t] = @ + 1] ELSE tries
    /\ UNCHANGED <<machine, wire, text, queue, job, step, part, exc, saved, bp, verdict,
                   jobs, timeouts>>

\* Mutant: any stop counts as the return.
LandedAnywhere(val) == val.at \in Places

\* The routine has returned: the 6510 stands on the landing.
Landed(val) == val.at = "landing"

\* What the caller does with a reply.
Answered(t, val) ==
    CASE step[t] = "rd0" ->
           /\ saved' = (IF IsJsr(t) THEN [saved EXCEPT ![t] = val] ELSE saved)
           /\ UNCHANGED <<bp, verdict>>
           /\ IF IsJsr(t) THEN Goto(t, "wr") /\ UNCHANGED <<exc, part>> ELSE Finish(t, "none")
      [] step[t] = "wr" -> Goto(t, "ck") /\ UNCHANGED <<exc, part, saved, bp, verdict>>
      [] step[t] = "ck" -> /\ Goto(t, "pc") /\ bp' = [bp EXCEPT ![t] = want[t]]
                           /\ UNCHANGED <<exc, part, saved, verdict>>
      [] step[t] = "pc" -> Goto(t, "bump") /\ UNCHANGED <<exc, part, saved, bp, verdict>>
      [] step[t] = "go" -> /\ Goto(t, IF job[t] = "watch" THEN "mget" ELSE "scan")
                           /\ UNCHANGED <<exc, part, saved, bp, verdict>>
      [] step[t] = "adv" -> Goto(t, "scan") /\ UNCHANGED <<exc, part, saved, bp, verdict>>
      [] step[t] = "rd1" ->
           IF Landed(val) THEN Goto(t, "del") /\ UNCHANGED <<exc, part, saved, bp, verdict>>
                                 ELSE Raise(t, "timeout")
      [] step[t] = "del" -> EndOnce(t, exc[t]) /\ UNCHANGED <<saved, bp, verdict>>
      [] step[t] = "rst" -> Goto(t, "done") /\ UNCHANGED <<exc, part, saved, bp, verdict>>
      [] step[t] = "hread" -> Goto(t, "hset") /\ UNCHANGED <<exc, part, saved, bp, verdict>>
      [] step[t] = "hset" -> Goto(t, "wr") /\ UNCHANGED <<exc, part, saved, bp, verdict>>
      [] step[t] = "jamread" -> Raise(t, "error")
      [] step[t] = "list" -> Finish(t, "none") /\ UNCHANGED <<saved, bp, verdict>>
      [] step[t] = "mget" ->         \* a match or the deadline; or another poll
           /\ \E s \in {"cgo", "bump"} : (s = "bump" => gen < MaxPolls) /\ Goto(t, s)
           /\ UNCHANGED <<exc, part, saved, bp, verdict>>

\* checkpoint_list: a frame per checkpoint under the one id, then the count.
MoreFollows(t, f) == step[t] = "list" /\ f.type = "info"

\* _wait_for_response: the reply, or a frame for later.
Receive(t) ==
    /\ want[t] # NoneOf /\ lock = t /\ wire # <<>> /\ step[t] \in DOMAIN Command
    /\ LET f == Head(wire) IN
       IF f.id = want[t]
       THEN /\ UNCHANGED queue
            /\ IF MoreFollows(t, f)
               THEN UNCHANGED <<lock, want, step, part, exc, saved, bp, verdict>>
               ELSE /\ want' = [want EXCEPT ![t] = NoneOf]
                    /\ IF step[t] = "cgo"
                       THEN Goto(t, "clisten") /\ UNCHANGED <<lock, part, exc, saved, bp, verdict>>
                       ELSE lock' = NoThread /\ Answered(t, f.val)
       ELSE /\ queue' = queue \o Queued(f)
            /\ UNCHANGED <<lock, want, step, part, exc, saved, bp, verdict>>
    /\ wire' = Tail(wire)
    /\ UNCHANGED <<machine, reqs, text, gen, ids, job, tries, jobs, timeouts>>

\* The reply does not come in time: the lock is released, the reply may still come.
ReceiveTimesOut(t) ==
    /\ want[t] # NoneOf /\ lock = t /\ timeouts < MaxTimeouts
    /\ timeouts' = timeouts + 1
    /\ lock' = NoThread /\ want' = [want EXCEPT ![t] = NoneOf]
    /\ IF step[t] = "jamread" THEN Raise(t, "error") ELSE Raise(t, "timeout")
    /\ UNCHANGED <<machine, socket, gen, queue, ids, job, tries, jobs>>

-----------------------------------------------------------------------------
(* wait_for_stopped: first the queue, without the lock, then the socket.   *)

\* Mutant: the events of the present generation are purged too.
PrecedeTooEager(k) == /\ \A i \in 1 .. k : queue[i].gen <= gen
                      /\ k < Len(queue) => queue[k + 1].gen > gen

\* The first k events of the queue are those that precede the last resume.
Precede(k) == /\ \A i \in 1 .. k : queue[i].gen < gen
              /\ k < Len(queue) => queue[k + 1].gen >= gen

\* After a stop: jsr() reads the registers, single_step() is done.
Stopped(t) == IF IsJsr(t) THEN Goto(t, "rd1") /\ UNCHANGED <<exc, part>> ELSE Finish(t, "none")

\* What the look at the purged queue q finds: a jam before any stop.
Look(t, q) ==
    LET fresh == {i \in DOMAIN q : q[i].gen >= gen}
        jams == {i \in fresh : q[i].type = "jam"}
        stops == {i \in fresh : q[i].type = "stopped"}
    IN  IF jams # {} THEN queue' = q /\ Goto(t, "jamread") /\ UNCHANGED <<exc, part>>
        ELSE IF stops = {} THEN queue' = q /\ Goto(t, "wait") /\ UNCHANGED <<exc, part>>
        ELSE \E i \in stops : /\ \A j \in stops : i <= j
                              /\ queue' = RemoveAt(q, i)
                              /\ Stopped(t)

\* The look is taken without the lock: what another thread reads meanwhile
\* changes the deque under the iteration, which raises.
Scan(t) ==
    /\ step[t] = "scan"
    /\ \E k \in 0 .. Len(queue) : LET q == SubSeq(queue, k + 1, Len(queue)) IN
         /\ Precede(k)
         /\ \/ Look(t, q)
            \/ lock # NoThread /\ queue' = q /\ Fail(t, "error")
    /\ UNCHANGED <<machine, socket, lock, gen, ids, job, want, locals, jobs, timeouts>>

WaitLock(t) ==
    /\ step[t] = "wait" /\ lock = NoThread
    /\ lock' = t
    /\ UNCHANGED <<machine, socket, gen, queue, ids, callers, jobs, timeouts>>

WaitReceive(t) ==
    /\ step[t] = "wait" /\ lock = t /\ wire # <<>>
    /\ wire' = Tail(wire)
    /\ LET f == Head(wire) IN
       CASE f.type = "stopped" -> lock' = NoThread /\ Stopped(t) /\ UNCHANGED queue
         [] f.type = "jam" -> /\ lock' = NoThread /\ Goto(t, "jamread")
                              /\ UNCHANGED <<exc, part, queue>>
         [] f.type \notin {"stopped", "jam"} /\ f.id = NoneOf ->
              /\ queue' = queue \o Queued(f)
              /\ UNCHANGED <<lock, step, exc, part>>
         [] OTHER -> lock' = NoThread /\ Fail(t, "error") /\ UNCHANGED queue   \* a late reply
    /\ UNCHANGED <<machine, reqs, text, gen, ids, job, want, locals, jobs, timeouts>>

\* A routine that hangs, a stop another thread put on the queue after this
\* one's look at it, or a stop that took too long.
WaitTimesOut(t) ==
    /\ step[t] = "wait" /\ lock = t
    /\ \/ timeouts < MaxTimeouts /\ timeouts' = timeouts + 1
       \/ /\ wire = <<>> /\ reqs = <<>> /\ (mode = "halt" \/ ctx.at = "inside")
          /\ UNCHANGED timeouts
    /\ lock' = NoThread /\ Fail(t, "timeout")
    /\ UNCHANGED <<machine, socket, gen, queue, ids, job, want, locals, jobs>>

-----------------------------------------------------------------------------
(* _resume_confirmed: what follows the EXIT is read under the same lock.   *)

EndWindow(t, v, entries) ==
    /\ verdict' = [verdict EXCEPT ![t] = v]
    /\ queue' = queue \o entries
    /\ Goto(t, "cdone")

\* Mutant: the first quiet moment counts, without listening.
ListenNot(t) ==
    /\ step[t] = "clisten" /\ lock = t
    /\ EndWindow(t, "running", <<>>)
    /\ UNCHANGED <<machine, socket, lock, gen, ids, job, part, want, exc, saved, bp, tries,
                   jobs, timeouts>>

\* One frame in the window, or its end.  VICE writes a re-entry at once with
\* the Resumed event, so the window does not end before those frames.
Listen(t) ==
    /\ step[t] = "clisten" /\ lock = t
    /\ IF wire = <<>> THEN EndWindow(t, "running", <<>>) /\ UNCHANGED wire
       ELSE /\ wire' = Tail(wire)
            /\ LET f == Head(wire) IN
               CASE f.type \in {"ckpt", "jam"} -> EndWindow(t, "stopped", Queued(f))
                 [] f.type = "stopped" -> EndWindow(t, "stale", <<>>)
                 [] OTHER -> UNCHANGED <<queue, verdict, step>>
    /\ UNCHANGED <<machine, reqs, text, lock, gen, ids, job, part, want, exc, saved, bp, tries,
                   jobs, timeouts>>

Confirmed(t) ==
    /\ step[t] = "cdone"
    /\ lock' = NoThread
    /\ Goto(t, IF verdict[t] = "stale" /\ tries[t] < Attempts THEN "cgo" ELSE "done")
    /\ UNCHANGED <<machine, socket, gen, queue, ids, job, part, want, exc, locals, jobs, timeouts>>

-----------------------------------------------------------------------------
(* _text_command: both locks, so that no text command falls into a window. *)

Ask(t) ==
    /\ step[t] = "ask" /\ want[t] = NoneOf /\ lock = NoThread
    /\ lock' = t /\ text' = "asked" /\ want' = [want EXCEPT ![t] = -1]
    /\ UNCHANGED <<machine, reqs, wire, gen, queue, ids, job, step, part, exc, locals, jobs, timeouts>>

AskAnswered(t) ==
    /\ step[t] = "ask" /\ want[t] # NoneOf /\ text = "answered"
    /\ text' = "none" /\ lock' = (IF lock = t THEN NoThread ELSE lock)
    /\ want' = [want EXCEPT ![t] = NoneOf]
    /\ Finish(t, "none")
    /\ UNCHANGED <<machine, reqs, wire, gen, queue, ids, job, locals, jobs, timeouts>>

-----------------------------------------------------------------------------
Vice == RunTrampoline \/ RunReturn \/ RunInside \/ RunJam \/ RunLanding \/ Service \/ ServiceText

Caller(t) == \/ Begin(t) \/ Bump(t) \/ Send(t) \/ Receive(t) \/ ReceiveTimesOut(t)
             \/ Scan(t) \/ WaitLock(t) \/ WaitReceive(t) \/ WaitTimesOut(t)
             \/ Listen(t) \/ Confirmed(t) \/ Ask(t) \/ AskAnswered(t)

\* All jobs are done and VICE has nothing left to do.
Finished == /\ jobs = MaxJobs /\ reqs = <<>> /\ \A t \in Threads : step[t] \in {"idle", "done"}
            /\ UNCHANGED vars

Next == Vice \/ (\E t \in Threads : Caller(t)) \/ Finished

Spec == Init /\ [][Next]_vars

-----------------------------------------------------------------------------
(* Properties.                                                             *)

Frames == [type : {"ckpt", "jam", "stopped", "trace", "resumed"}, id : {NoneOf}]
          \union [type : {"reply", "info"}, id : Nat, val : Ctx]
Requests == [id : Nat \ {NoneOf}, cmd : {Command[s] : s \in DOMAIN Command},
             code : {"call", "probe"}, regs : Ctx, bp : Nat]

MachineOK ==
    /\ mode \in {"run", "halt"} /\ ctx \in Ctx /\ code \in {"none", "call", "probe"}
    /\ bps \subseteq Nat \ {NoneOf} /\ IsFiniteSet(bps)
    /\ spare \in 0 .. MaxSpare /\ ran \in BOOLEAN /\ hijacked \in Ctx

SocketOK ==
    reqs \in Seq(Requests) /\ wire \in Seq(Frames) /\ text \in {"none", "asked", "answered"}

ClientOK ==
    /\ lock \in Threads \union {NoThread} /\ gen \in Nat /\ ids \in Nat \ {NoneOf}
    /\ queue \in Seq([gen : Nat, type : {"stopped", "jam"}]) /\ timeouts \in Nat

LocalsOK ==
    /\ job \in [Threads -> Jobs \union {"none"}] /\ step \in [Threads -> Steps]
    /\ part \in [Threads -> {"call", "probe"}] /\ want \in [Threads -> Nat \union {-1}]
    /\ exc \in [Threads -> {"none", "timeout", "error"}]
    /\ saved \in [Threads -> Ctx] /\ bp \in [Threads -> Nat]
    /\ verdict \in [Threads -> {"none", "running", "stopped", "stale"}]

TypeOK == MachineOK /\ SocketOK /\ ClientOK /\ LocalsOK

\* A stop after a resume reaches whoever waits for it: while jsr() or
\* single_step() looks for the stop of its own resume and the 6510 is halted,
\* the event is on the socket or in the queue, and counts as new
\* (wait_for_stopped, resume: the race of issue #103).
StopIsVisible ==
    \A t \in Threads : step[t] \in {"scan", "wait"} /\ mode = "halt" =>
        \/ \E i \in DOMAIN wire : IsStop(wire[i])
        \/ \E i \in DOMAIN queue : IsStop(queue[i]) /\ queue[i].gen >= gen

\* jsr() tells the truth.  A call that returned ran its routine to the end
\* and, unless told not to, left the 6510 with the PC, stack and flags it had
\* been found with; a recovery that succeeded left the trampoline's return
\* address and the hung frames off the stack and the flags restored.
JsrIsHonest ==
    \A t \in Threads : step[t] = "done" /\ IsJsr(t) /\ exc[t] = "none" =>
        /\ mode = "halt"
        /\ part[t] = "call" => ran /\ (job[t] # "jsrPlain" => ctx = hijacked)
        /\ part[t] = "probe" => ctx = [saved[t] EXCEPT !.at = "landing"]

\* A waiter that says the machine runs is right, as long as it holds the lock:
\* no spare trap has swallowed its EXIT, and if the machine stopped since it
\* was for a checkpoint or a jam, whose event is still to be read.  (A text
\* command that timed out may still halt the machine when it is served late.)
ConfirmedRuns ==
    \A t \in Threads : step[t] = "cdone" /\ verdict[t] = "running" /\ text = "none" =>
        mode = "run" \/ \E i \in DOMAIN wire : wire[i].type \in {"ckpt", "jam"}

\* Between calls no checkpoint of jsr() is left in VICE, however the calls
\* ended, unless a reply was lost.
NoLeakedCheckpoint ==
    (timeouts = 0 /\ \A t \in Threads : step[t] \in {"idle", "done"}) => bps = {}

-----------------------------------------------------------------------------
(* Why they hold.  The transport's lock makes one command at a time a      *)
(* conversation: while its sender waits, the request is the last one, and  *)
(* once VICE has served it, no other is on its way.                        *)

Awaits(t) == want[t] # NoneOf /\ step[t] \in DOMAIN Command
Served(t) == Awaits(t) /\ reqs = <<>>

\* The steps a job takes, as far as they tell jobs apart.
StepsOfJob(t) ==
    /\ step[t] \in {"wr", "ck", "pc", "rd1", "del", "rst", "hread", "hset"} => IsJsr(t)
    /\ step[t] \in {"mget", "clisten", "cdone", "cgo"} => job[t] = "watch"
    /\ step[t] \in {"adv", "list", "ask"} => ~ IsJsr(t)
    /\ bp[t] # NoneOf => IsJsr(t)
    /\ step[t] = "rd0" => part[t] = "call"
    /\ step[t] = "rst" => part[t] = "call" /\ job[t] # "jsrPlain"
    /\ step[t] \in {"hread", "hset"} => part[t] = "probe"

IdsInOrder ==
    /\ \A i \in DOMAIN reqs : reqs[i].id < ids
    /\ \A i \in DOMAIN wire : wire[i].id < ids
    /\ \A t \in Threads : want[t] < ids

LockedWhileWaiting(t) ==
    /\ want[t] # NoneOf \/ step[t] \in {"clisten", "cdone"} => lock = t
    /\ want[t] > NoneOf => step[t] \in DOMAIN Command
    /\ want[t] < NoneOf => step[t] = "ask"

Own(t, r) == /\ r.id = want[t] /\ r.cmd = Command[step[t]]
             /\ r.code = part[t] /\ r.regs = saved[t] /\ r.bp = bp[t]

OwnRequestIsLast(t) ==
    /\ Awaits(t) =>
          /\ reqs # <<>> => Own(t, reqs[Len(reqs)])
          /\ \A i \in DOMAIN reqs : i < Len(reqs) => reqs[i].id # want[t]
          /\ \A i \in DOMAIN wire : wire[i].id = want[t] => reqs = <<>>
    /\ step[t] \in {"clisten", "cdone"} => reqs = <<>>

Conversation ==
    /\ TypeOK /\ IdsInOrder
    /\ \A t \in Threads : StepsOfJob(t) /\ LockedWhileWaiting(t) /\ OwnRequestIsLast(t)

\* A resume is answered before the stop that follows it is announced.
StopFollowsResume(t) ==
    /\ Awaits(t) /\ step[t] \in {"go", "adv", "cgo"} /\ mode = "halt" =>
           \A i \in DOMAIN wire : wire[i].id = want[t] =>
               \E j \in DOMAIN wire : j > i /\ IsStop(wire[j])
    /\ step[t] = "clisten" /\ mode = "halt" => \E j \in DOMAIN wire : IsStop(wire[j])

\* One thread resumes the machine; the others look at it.
Driver(d) == \A t \in Threads \ {d} : JobsOf[t] \subseteq {"peek", "list", "text"}
OneDriver == \E d \in Threads : Driver(d)
OthersLook(d) ==
    \A t \in Threads \ {d} :
        /\ job[t] \in {"none", "peek", "list", "text"}
        /\ step[t] \in {"idle", "rd0", "list", "ask", "done"}

\* As long as no reply was lost, a checkpoint is one that a jsr() sets, or
\* will delete.
Guarded == {"pc", "bump", "go", "scan", "wait", "rd1", "jamread", "del"}
Keeps(t, b) == \/ step[t] = "ck" /\ want[t] = b
               \/ step[t] \in Guarded /\ bp[t] = b
BooksOfCheckpoints ==
    timeouts = 0 =>
        /\ \A i \in DOMAIN reqs : \E t \in Threads : Awaits(t) /\ reqs[i].id = want[t]
        /\ \A b \in bps : \E t \in Threads : Keeps(t, b)
        /\ \A t \in Threads : step[t] = "del" /\ Served(t) => bp[t] \notin bps

\* A command that neither moves the 6510 nor changes what it will run.
Tame(r) == r.cmd \in {"getregs", "memget", "cklist"}

\* A jsr() that has not been disturbed yet.
OnTrack(t) ==
    /\ IsJsr(t)
    /\ \/ step[t] \in {"ck", "pc", "bump", "go", "scan", "wait", "rd1", "rst", "hset"}
       \/ step[t] = "wr" /\ (part[t] = "probe" \/ job[t] # "jsrPlain")
       \/ step[t] \in {"del", "done"} /\ exc[t] = "none"

OnlyOwnIsWild(d) ==
    OnTrack(d) => \A i \in DOMAIN reqs : Tame(reqs[i]) \/ reqs[i].id = want[d]

SameFrames(c, c2) == c.sp = c2.sp /\ c.fl = c2.fl
SavesCaller(t) == part[t] = "call" /\ job[t] # "jsrPlain"

\* Before the trampoline is entered.
AtRest(t) == /\ mode = "halt"
             /\ SavesCaller(t) => ctx = saved[t]
             /\ part[t] = "probe" => SameFrames(ctx, saved[t])

\* From there to its checkpoint, which stands.
Flying(t) ==
    /\ code = part[t] /\ bp[t] \in bps
    /\ SavesCaller(t) => hijacked = saved[t]
    /\ part[t] = "call" =>
          /\ ctx.at \in {"scratch", "inside", "kil", "landing"}
          /\ ctx.at = "landing" => ran
    /\ part[t] = "probe" => ctx.at \in {"scratch", "landing"} /\ SameFrames(ctx, saved[t])

AtLanding(t) ==
    /\ mode = "halt" /\ ctx.at = "landing"
    /\ SavesCaller(t) => hijacked = saved[t]
    /\ part[t] = "call" => ran
    /\ part[t] = "probe" => SameFrames(ctx, saved[t])

HonestEnd(t) ==
    /\ mode = "halt"
    /\ part[t] = "call" => ran /\ (job[t] # "jsrPlain" => ctx = hijacked)
    /\ part[t] = "probe" => ctx = [saved[t] EXCEPT !.at = "landing"]

WhatJsrKnows(t) ==
    IsJsr(t) =>
        /\ step[t] \in {"rd0", "rd1", "hread"} /\ Served(t) => mode = "halt"
        /\ step[t] \in {"rd0", "rd1"} /\ Awaits(t) =>
              \A i \in DOMAIN wire : wire[i].id = want[t] => wire[i].val = ctx
        /\ step[t] = "wr" /\ (OnTrack(t) \/ Served(t)) => AtRest(t)
        /\ step[t] = "wr" /\ Served(t) => code = part[t]
        /\ step[t] = "ck" => AtRest(t) /\ code = part[t]
        /\ step[t] = "ck" /\ Served(t) => want[t] \in bps
        /\ step[t] = "pc" /\ ~Served(t) => AtRest(t) /\ code = part[t] /\ bp[t] \in bps
        /\ step[t] = "pc" /\ Served(t) => Flying(t)
        /\ step[t] \in {"bump", "go", "scan", "wait", "rd1"} => Flying(t)
        /\ step[t] = "del" /\ exc[t] = "none" => AtLanding(t)
        /\ step[t] = "rst" => mode = "halt" /\ ran /\ hijacked = saved[t]
        /\ step[t] = "rst" /\ Served(t) => ctx = saved[t]
        /\ step[t] = "hset" => mode = "halt"
        /\ step[t] = "hset" /\ Served(t) => SameFrames(ctx, saved[t])
        /\ step[t] = "done" /\ exc[t] = "none" => HonestEnd(t)

MonitorInv ==
    /\ Conversation /\ BooksOfCheckpoints /\ ConfirmedRuns
    /\ \A t \in Threads : StopFollowsResume(t)
    /\ \A d \in Threads : Driver(d) =>
          OthersLook(d) /\ StopIsVisible /\ OnlyOwnIsWild(d) /\ WhatJsrKnows(d)
=============================================================================
