------------------------ MODULE BinaryMonitorProofs ------------------------
(* Proofs about the client of VICE's binary monitor, for any number of      *)
(* threads, jobs, time-outs and spare traps.  What a jsr() may conclude and *)
(* what a waiter is told need that one thread at a time resumes the machine *)
(* (OneDriver); the rest holds for threads that do anything.                *)
EXTENDS BinaryMonitor, FiniteSetTheorems, TLAPS

(* Facts about sequences, for the two sockets and the queue.                *)
LEMMA SeqDomain ==
    ASSUME NEW S, NEW s \in Seq(S)
    PROVE  /\ Len(s) \in Nat /\ DOMAIN s = 1 .. Len(s)
           /\ s = <<>> <=> Len(s) = 0
           /\ \A i \in DOMAIN s : s[i] \in S
  OBVIOUS

LEMMA SeqTail ==
    ASSUME NEW S, NEW s \in Seq(S), s # <<>>
    PROVE  /\ Tail(s) \in Seq(S) /\ Len(Tail(s)) = Len(s) - 1
           /\ Len(s) \in Nat /\ Len(s) > 0
           /\ DOMAIN Tail(s) = 1 .. (Len(s) - 1)
           /\ \A i \in 1 .. (Len(s) - 1) : Tail(s)[i] = s[i + 1]
           /\ 1 \in DOMAIN s /\ Head(s) = s[1] /\ Head(s) \in S
  OBVIOUS

(* Concatenation under a name of its own, whose facts are these.            *)
Cat(s, u) == s \o u

Joined(S, w, s, u) ==
    /\ w \in Seq(S) /\ Len(w) = Len(s) + Len(u) /\ DOMAIN w = 1 .. (Len(s) + Len(u))
    /\ \A i \in 1 .. Len(s) : w[i] = s[i]
    /\ \A i \in Len(s) + 1 .. Len(s) + Len(u) : w[i] = u[i - Len(s)]
    /\ Len(s) \in Nat /\ Len(u) \in Nat
    /\ DOMAIN s = 1 .. Len(s) /\ DOMAIN u = 1 .. Len(u)

LEMMA SeqConcat ==
    ASSUME NEW S, NEW s \in Seq(S), NEW u \in Seq(S)
    PROVE  Joined(S, Cat(s, u), s, u) /\ Cat(s, u) \in Seq(S)
  BY DEF Cat, Joined

LEMMA CatAssoc ==
    ASSUME NEW S, NEW s \in Seq(S), NEW u \in Seq(S), NEW v \in Seq(S)
    PROVE  Cat(Cat(s, u), v) = Cat(s, Cat(u, v))
  BY SMT DEF Cat

LEMMA SeqAppend ==
    ASSUME NEW S, NEW s \in Seq(S), NEW e \in S
    PROVE  /\ Append(s, e) \in Seq(S) /\ Len(Append(s, e)) = Len(s) + 1
           /\ DOMAIN Append(s, e) = 1 .. (Len(s) + 1)
           /\ \A i \in 1 .. Len(s) : Append(s, e)[i] = s[i]
           /\ Append(s, e)[Len(s) + 1] = e
           /\ Append(s, e) # <<>>
  OBVIOUS

LEMMA Commands ==
    /\ DOMAIN Command = {"rd0", "wr", "ck", "pc", "go", "rd1", "del", "rst", "hread",
                         "hset", "jamread", "mget", "adv", "list", "cgo"}
    /\ Command["rd0"] = "getregs" /\ Command["wr"] = "memset" /\ Command["ck"] = "ckset"
    /\ Command["pc"] = "setpc" /\ Command["go"] = "exit" /\ Command["rd1"] = "getregs"
    /\ Command["del"] = "ckdel" /\ Command["rst"] = "restore"
    /\ Command["hread"] = "getregs" /\ Command["hset"] = "unwind"
    /\ Command["jamread"] = "getregs" /\ Command["mget"] = "memget"
    /\ Command["adv"] = "advance" /\ Command["list"] = "cklist" /\ Command["cgo"] = "exit"
  BY DEF Command

LEMMA StepNames ==
    Steps = {"rd0", "wr", "ck", "pc", "go", "rd1", "del", "rst", "hread", "hset",
             "jamread", "mget", "adv", "list", "cgo", "idle", "bump", "scan", "wait",
             "clisten", "cdone", "ask", "done"}
  BY Commands DEF Steps

-----------------------------------------------------------------------------
(* What VICE does to the socket: it only adds, and a stop that begins while *)
(* it adds is announced at the end.                                         *)
Grown(s, s2) == Len(s2) >= Len(s) /\ \A i \in DOMAIN s : i \in DOMAIN s2 /\ s2[i] = s[i]

NewStop == \E j \in DOMAIN wire' : j > Len(wire) /\ IsStop(wire'[j])

LEMMA GrowByConcat ==
    ASSUME NEW S, NEW w \in Seq(S), NEW s \in Seq(S), NEW u \in Seq(S), Grown(w, s)
    PROVE  Grown(w, Cat(s, u))
<1>1. Joined(S, Cat(s, u), s, u)
  BY SeqConcat
<1> QED BY <1>1 DEF Grown, Joined

LEMMA GrownItself == ASSUME NEW S, NEW s \in Seq(S) PROVE Grown(s, s)
  BY DEF Grown

LEMMA EventTypes ==
    /\ \A e \in {"ckpt", "jam", "stopped", "trace", "resumed"} :
          Event(e) \in Frames /\ Event(e).id = NoneOf /\ Event(e).type = e
    /\ NoneOf = 0
  BY DEF Event, Frames, NoneOf

LEMMA OneElement == ASSUME NEW S, NEW e \in S PROVE <<e>> \in Seq(S) /\ Len(<<e>>) = 1
  OBVIOUS

Machine == mode \in {"run", "halt"} /\ ctx \in Ctx /\ ran \in BOOLEAN
Running == RunTrampoline \/ RunReturn \/ RunInside \/ RunJam \/ RunLanding

LEMMA CtxFields ==
    /\ \A c \in Ctx : c.at \in Places /\ c.sp \in {0, 1} /\ c.fl \in {"own", "routine"}
    /\ \A c \in Ctx : \A a \in Places : [c EXCEPT !.at = a] \in Ctx
    /\ NoCtx \in Ctx
  BY DEF Ctx, Places, NoCtx

LEMMA HaltWire ==
    ASSUME TypeOK, NEW what \in {"ckpt", "jam"}, Halt(what)
    PROVE  /\ mode' = "halt" /\ wire' \in Seq(Frames) /\ Grown(wire, wire') /\ NewStop
           /\ \A j \in DOMAIN wire' : j > Len(wire) => wire'[j].id = NoneOf
           /\ \E j \in DOMAIN wire' : wire'[j].type \in {"ckpt", "jam"}
<1> DEFINE new == <<Event(what), Event("stopped")>>
<1>1. wire \in Seq(Frames) /\ new \in Seq(Frames) /\ Len(new) = 2
      /\ new[1] = Event(what) /\ new[2] = Event("stopped")
  BY EventTypes DEF TypeOK, MachineOK, SocketOK
<1>2. wire' = Cat(wire, new) /\ mode' = "halt"
  BY DEF Halt, Cat
<1> HIDE DEF new
<1>3. /\ wire' \in Seq(Frames) /\ Len(wire) \in Nat /\ DOMAIN wire' = 1 .. (Len(wire) + 2)
      /\ wire'[Len(wire) + 1] = Event(what) /\ wire'[Len(wire) + 2] = Event("stopped")
  <2>1. Joined(Frames, wire', wire, new)
    BY <1>1, <1>2, SeqConcat
  <2> QED BY <1>1, <2>1 DEF Joined
<1>4. Grown(wire, wire')
  BY <1>1, <1>2, GrowByConcat, GrownItself
<1>5. NewStop
  BY <1>3, EventTypes DEF NewStop, IsStop
<1>6. \A j \in DOMAIN wire' : j > Len(wire) => wire'[j].id = NoneOf
  BY <1>3, EventTypes
<1>7. \E j \in DOMAIN wire' : wire'[j].type \in {"ckpt", "jam"}
  BY <1>3, EventTypes
<1> QED BY <1>2, <1>3, <1>4, <1>5, <1>6, <1>7

(* The 6510 runs: nothing of the client's changes.                          *)
LEMMA RunEffect ==
    ASSUME TypeOK, Running
    PROVE  /\ mode = "run" /\ Machine' /\ wire' \in Seq(Frames) /\ Grown(wire, wire')
           /\ UNCHANGED <<code, bps, spare, hijacked, reqs, text, client, callers,
                          jobs, timeouts>>
           /\ \A j \in DOMAIN wire' : j > Len(wire) => wire'[j].id = NoneOf
           /\ mode' = "halt" => /\ NewStop
                                /\ \E j \in DOMAIN wire' : wire'[j].type \in {"ckpt", "jam"}
<1>0. mode \in {"run", "halt"} /\ ctx \in Ctx /\ ran \in BOOLEAN /\ wire \in Seq(Frames)
  BY DEF TypeOK, MachineOK, SocketOK
<1>1. ASSUME wire' = wire
      PROVE  /\ wire' \in Seq(Frames) /\ Grown(wire, wire')
             /\ \A j \in DOMAIN wire' : j > Len(wire) => wire'[j].id = NoneOf
  BY <1>0, <1>1, GrownItself, SeqDomain
<1>2. ASSUME RunTrampoline \/ RunReturn, mode = "run"
      PROVE  wire' = wire /\ mode' = "run" /\ Machine'
  <2>1. wire' = wire /\ mode' = mode
    BY <1>2 DEF RunTrampoline, RunReturn, socket
  <2>2. ctx' \in Ctx /\ ran' \in BOOLEAN
    BY <1>0, <1>2 DEF RunTrampoline, RunReturn, Ctx, Places
  <2> QED BY <1>2, <2>1, <2>2 DEF Machine
<1>3. CASE RunTrampoline \/ RunReturn
  <2>1. mode = "run"
    BY <1>3 DEF RunTrampoline, RunReturn
  <2>2. UNCHANGED <<code, bps, spare, hijacked, reqs, text, client, callers, jobs, timeouts>>
    BY <1>3 DEF RunTrampoline, RunReturn, socket
  <2> QED BY <1>1, <1>2, <1>3, <2>1, <2>2
<1>4. CASE RunInside
  <2>1. mode = "run" /\ ran' = ran
        /\ UNCHANGED <<code, bps, spare, hijacked, reqs, text, client, callers, jobs, timeouts>>
    BY <1>4 DEF RunInside
  <2>2. ctx' \in Ctx
    BY <1>0, <1>4 DEF RunInside, Ctx, Places
  <2>3. CASE UNCHANGED <<mode, wire>>
    BY <1>0, <1>1, <2>1, <2>2, <2>3 DEF Machine
  <2>4. CASE Halt("ckpt")
    BY <1>0, <2>1, <2>2, <2>4, HaltWire DEF Machine
  <2>5. CASE mode' = mode /\ wire' = Append(wire, Event("trace"))
    <3>1. Event("trace") \in Frames /\ Event("trace").id = NoneOf
      BY EventTypes
    <3>2. wire' \in Seq(Frames) /\ Grown(wire, wire')
          /\ \A j \in DOMAIN wire' : j > Len(wire) => wire'[j].id = NoneOf
      BY <1>0, <2>5, <3>1, SeqAppend, SeqDomain DEF Grown
    <3> QED BY <1>0, <2>1, <2>2, <2>5, <3>2 DEF Machine
  <2> QED BY <1>4, <2>3, <2>4, <2>5 DEF RunInside
<1>5. CASE RunJam
  BY <1>0, <1>5, HaltWire DEF RunJam, Machine
<1>6. CASE RunLanding
  <2>1. mode = "run" /\ ran' = ran
        /\ UNCHANGED <<code, bps, spare, hijacked, reqs, text, client, callers, jobs, timeouts>>
    BY <1>6 DEF RunLanding
  <2>2. CASE Halt("ckpt") /\ UNCHANGED ctx
    BY <1>0, <2>1, <2>2, HaltWire DEF Machine
  <2>3. CASE ctx' = [ctx EXCEPT !.at = "prog"] /\ UNCHANGED <<mode, wire>>
    BY <1>0, <1>1, <2>1, <2>3, CtxFields DEF Machine, Places
  <2> QED BY <1>6, <2>2, <2>3 DEF RunLanding
<1> QED BY <1>3, <1>4, <1>5, <1>6 DEF Running

(* What a served request changes in the 6510 and its memory.                *)
Carried(r) ==
    /\ code' = IF r.cmd = "memset" THEN r.code ELSE code
    /\ bps' = CASE r.cmd = "ckset" -> bps \union {r.id}
                [] r.cmd = "ckdel" -> bps \ {r.bp}
                [] OTHER -> bps
    /\ ctx' = CASE r.cmd = "setpc" -> [ctx EXCEPT !.at = "scratch"]
                [] r.cmd = "restore" -> r.regs
                [] r.cmd = "unwind" -> [r.regs EXCEPT !.at = ctx.at]
                [] OTHER -> ctx
    /\ hijacked' = IF r.cmd = "setpc" /\ code = "call" THEN ctx ELSE hijacked
    /\ ran' = (ran /\ r.cmd # "setpc")
    /\ mode' \in {"run", "halt"}
    /\ r.cmd # "exit" => mode' = "halt"

(* A new frame is an event or answers the request; the answer to a request  *)
(* that resumes comes before the stop that ends the run it began.           *)
Told(r) ==
    /\ wire' \in Seq(Frames) /\ Grown(wire, wire')
    /\ \A j \in DOMAIN wire' : j > Len(wire) =>
          wire'[j].id = NoneOf \/ (wire'[j].id = r.id /\ wire'[j].val = ctx)
    /\ r.cmd \in {"exit", "advance"} /\ mode' = "halt" =>
          /\ Len(wire') > Len(wire) /\ IsStop(wire'[Len(wire')])
          /\ wire'[Len(wire')].id = NoneOf
    /\ r.cmd \notin {"exit", "advance"} /\ mode = "run" => NewStop

LEMMA RequestFields ==
    \A r \in Requests : /\ r.id \in Nat /\ r.id # NoneOf /\ r.bp \in Nat
                        /\ r.code \in {"call", "probe"} /\ r.regs \in Ctx
  BY DEF Requests

(* Announcements: a stop on entry, then what the request adds.              *)
Adds(new, r) ==
    /\ new \in Seq(Frames) /\ wire' = Cat(Cat(wire, Entry), new)
    /\ \A j \in DOMAIN new : new[j].id = NoneOf \/ (new[j].id = r.id /\ new[j].val = ctx)
    /\ r.cmd \in {"exit", "advance"} /\ mode' = "halt" =>
          Len(new) > 0 /\ IsStop(new[Len(new)]) /\ new[Len(new)].id = NoneOf

LEMMA Announce == ASSUME TypeOK, NEW new, NEW r, Adds(new, r) PROVE Told(r)
<1>0. new \in Seq(Frames)
  BY DEF Adds
<1>1. wire \in Seq(Frames) /\ Entry \in Seq(Frames)
  BY EventTypes, OneElement DEF TypeOK, MachineOK, SocketOK, Entry
<1> DEFINE w1 == Cat(wire, Entry)
<1>2. Joined(Frames, w1, wire, Entry) /\ Grown(wire, w1)
  BY <1>1, SeqConcat, GrowByConcat, GrownItself
<1>3. /\ Len(Entry) <= 1
      /\ mode = "run" => Len(Entry) = 1
      /\ Len(Entry) = 1 => Entry[1] = Event("stopped")
  BY DEF Entry
<1> HIDE DEF w1
<1>4. /\ w1 \in Seq(Frames) /\ Len(w1) = Len(wire) + Len(Entry)
      /\ DOMAIN w1 = 1 .. (Len(wire) + Len(Entry))
      /\ Len(wire) \in Nat /\ Len(Entry) \in Nat
      /\ \A j \in DOMAIN w1 : j > Len(wire) => w1[j] = Event("stopped")
  BY <1>2, <1>3 DEF Joined
<1>5a. Joined(Frames, wire', w1, new) /\ Grown(wire, wire')
  <2>1. wire' = Cat(w1, new)
    BY DEF w1, Adds
  <2>2. Grown(wire, wire')
    BY <1>0, <1>1, <1>2, <1>4, <2>1, GrowByConcat
  <2>3. Joined(Frames, wire', w1, new)
    BY <1>4, <2>1, SeqConcat DEF Adds
  <2> QED BY <2>2, <2>3
<1>5. /\ wire' \in Seq(Frames) /\ Len(wire') = Len(w1) + Len(new)
      /\ DOMAIN wire' = 1 .. (Len(w1) + Len(new))
      /\ \A i \in 1 .. Len(w1) : wire'[i] = w1[i]
      /\ \A i \in Len(w1) + 1 .. Len(w1) + Len(new) : wire'[i] = new[i - Len(w1)]
      /\ Len(new) \in Nat /\ DOMAIN new = 1 .. Len(new)
      /\ Grown(wire, wire')
  BY <1>5a DEF Joined
<1>6. ASSUME NEW j \in DOMAIN wire', j > Len(wire)
      PROVE  wire'[j].id = NoneOf \/ (wire'[j].id = r.id /\ wire'[j].val = ctx)
  <2>1. CASE j <= Len(w1)
    <3>1. j \in DOMAIN w1 /\ wire'[j] = w1[j]
      BY <1>4, <1>5, <1>6, <2>1
    <3> QED BY <1>4, <1>6, <3>1, EventTypes
  <2>2. CASE j > Len(w1)
    <3>1. j - Len(w1) \in DOMAIN new /\ wire'[j] = new[j - Len(w1)]
      BY <1>4, <1>5, <1>6, <2>2
    <3> QED BY <3>1 DEF Adds
  <2> QED BY <1>4, <1>5, <1>6, <2>1, <2>2
<1>7. ASSUME r.cmd \in {"exit", "advance"}, mode' = "halt"
      PROVE  /\ Len(wire') > Len(wire) /\ IsStop(wire'[Len(wire')])
             /\ wire'[Len(wire')].id = NoneOf
  <2>1. /\ Len(new) > 0 /\ IsStop(new[Len(new)]) /\ new[Len(new)].id = NoneOf
        /\ Len(w1) \in Nat
    BY <1>4, <1>7 DEF Adds
  <2>2. wire'[Len(w1) + Len(new)] = new[Len(new)]
    BY <1>5, <2>1
  <2> QED BY <1>4, <1>5, <1>7, <2>1, <2>2
<1>8. ASSUME mode = "run" PROVE NewStop
  <2>0. Len(wire) + 1 \in DOMAIN w1 /\ Len(wire) + 1 > Len(wire)
    BY <1>3, <1>4, <1>8
  <2>1. Len(wire) + 1 \in DOMAIN w1 /\ w1[Len(wire) + 1] = Event("stopped")
    BY <1>4, <2>0
  <2>2. Len(wire) + 1 \in DOMAIN wire' /\ wire'[Len(wire) + 1] = Event("stopped")
    BY <1>4, <1>5, <2>1
  <2> QED BY <1>4, <2>2, EventTypes DEF NewStop, IsStop
<1> QED BY <1>5, <1>6, <1>7, <1>8 DEF Told

LEMMA ServiceEffect ==
    ASSUME TypeOK, Service
    PROVE  LET r == Head(reqs)
           IN  /\ reqs # <<>> /\ r \in Requests /\ r = reqs[1] /\ reqs' = Tail(reqs)
               /\ Carried(r) /\ Told(r) /\ spare' \in 0 .. MaxSpare
               /\ UNCHANGED <<text, client, callers, jobs, timeouts>>
<1> DEFINE r == Head(reqs)
<1>1. /\ reqs # <<>> /\ r \in Requests /\ r = reqs[1] /\ reqs' = Tail(reqs)
      /\ wire \in Seq(Frames) /\ mode \in {"run", "halt"} /\ spare \in 0 .. MaxSpare
      /\ ctx \in Ctx /\ MaxSpare \in Nat /\ IsFiniteSet(bps)
      /\ UNCHANGED <<text, client, callers, jobs, timeouts>>
  BY SeqTail, MonitorAssumption DEF Service, TypeOK, MachineOK, SocketOK
<1>2. PICK s \in Traps :
       /\ CASE r.cmd = "exit" ->
                 /\ wire' = wire \o Entry \o <<Reply(r), Event("resumed")>>
                            \o (IF s > 0 THEN <<Event("stopped")>> ELSE <<>>)
                 /\ mode' = IF s > 0 THEN "halt" ELSE "run"
                 /\ spare' = IF s > 0 THEN s - 1 ELSE 0
            [] r.cmd = "advance" ->
                 /\ wire' = wire \o Entry \o <<Reply(r), Event("resumed"), Event("stopped")>>
                 /\ mode' = "halt" /\ spare' = s
            [] r.cmd = "cklist" ->
                 /\ wire' = wire \o Entry
                            \o [i \in 1 .. Cardinality(bps) |-> [Reply(r) EXCEPT !.type = "info"]]
                            \o <<Reply(r)>>
                 /\ mode' = "halt" /\ spare' = s
            [] OTHER -> wire' = wire \o Entry \o <<Reply(r)>> /\ mode' = "halt" /\ spare' = s
  BY DEF Service
<1>3. s \in 0 .. MaxSpare
  BY <1>1, <1>2 DEF Traps
<1>4. Carried(r)
  BY <1>2 DEF Service, Carried
<1>5. spare' \in 0 .. MaxSpare
  BY <1>1, <1>2, <1>3
<1>6. /\ Reply(r) \in Frames /\ Reply(r).id = r.id /\ Reply(r).val = ctx
      /\ [Reply(r) EXCEPT !.type = "info"] \in Frames
      /\ [Reply(r) EXCEPT !.type = "info"].id = r.id
      /\ [Reply(r) EXCEPT !.type = "info"].val = ctx
  BY <1>1, RequestFields DEF Reply, Frames
<1> HIDE DEF r
<1>7. Entry \in Seq(Frames)
  BY EventTypes, OneElement DEF Entry
<1>8. ASSUME r.cmd = "exit" PROVE Told(r)
  <2> DEFINE a == <<Reply(r), Event("resumed")>>
             z == IF s > 0 THEN <<Event("stopped")>> ELSE <<>>
  <2>1. a \in Seq(Frames) /\ z \in Seq(Frames)
    BY <1>6, EventTypes
  <2>2. wire' = Cat(Cat(wire, Entry), Cat(a, z))
    <3>1. wire' = Cat(Cat(Cat(wire, Entry), a), z)
      BY <1>2, <1>8 DEF Cat
    <3>2. Cat(wire, Entry) \in Seq(Frames)
      BY <1>1, <1>7, SeqConcat
    <3> HIDE DEF a, z
    <3> QED BY <2>1, <3>1, <3>2, CatAssoc
  <2>3. mode' = "halt" => s > 0
    BY <1>2, <1>8
  <2>4. Cat(a, z) \in Seq(Frames)
    BY <2>1, SeqConcat
  <2>5. \A j \in DOMAIN Cat(a, z) :
            Cat(a, z)[j] \in {Reply(r), Event("resumed"), Event("stopped")}
    BY <2>1 DEF Cat
  <2>6. s > 0 => Len(Cat(a, z)) = 3 /\ Cat(a, z)[3] = Event("stopped")
    BY <2>1 DEF Cat
  <2>7. \A j \in DOMAIN Cat(a, z) : \/ Cat(a, z)[j].id = NoneOf
                                    \/ Cat(a, z)[j].id = r.id /\ Cat(a, z)[j].val = ctx
    BY <1>6, <2>5, EventTypes
  <2> HIDE DEF a, z
  <2>8. mode' = "halt" => /\ Len(Cat(a, z)) > 0 /\ IsStop(Cat(a, z)[Len(Cat(a, z))])
                          /\ Cat(a, z)[Len(Cat(a, z))].id = NoneOf
    <3> SUFFICES ASSUME mode' = "halt"
                 PROVE  /\ Len(Cat(a, z)) > 0 /\ IsStop(Cat(a, z)[Len(Cat(a, z))])
                        /\ Cat(a, z)[Len(Cat(a, z))].id = NoneOf
      OBVIOUS
    <3>1. Len(Cat(a, z)) = 3 /\ Cat(a, z)[3] = Event("stopped")
      BY <2>3, <2>6
    <3> QED BY <3>1, EventTypes DEF IsStop
  <2>9. Adds(Cat(a, z), r)
    BY <2>2, <2>4, <2>7, <2>8 DEF Adds
  <2> QED BY <2>9, Announce
<1>9. ASSUME r.cmd = "advance" PROVE Told(r)
  <2> DEFINE a == <<Reply(r), Event("resumed"), Event("stopped")>>
  <2>1. a \in Seq(Frames) /\ Len(a) = 3 /\ a[3] = Event("stopped")
        /\ \A j \in DOMAIN a : a[j] \in {Reply(r), Event("resumed"), Event("stopped")}
    BY <1>6, EventTypes
  <2>2. wire' = Cat(Cat(wire, Entry), a)
    BY <1>2, <1>9 DEF Cat
  <2> HIDE DEF a
  <2>3. \A j \in DOMAIN a : a[j].id = NoneOf \/ (a[j].id = r.id /\ a[j].val = ctx)
    BY <1>6, <2>1, EventTypes
  <2>4. Len(a) > 0 /\ IsStop(a[Len(a)]) /\ a[Len(a)].id = NoneOf
    BY <2>1, EventTypes DEF IsStop
  <2>5. Adds(a, r)
    BY <2>1, <2>2, <2>3, <2>4 DEF Adds
  <2> QED BY <2>5, Announce
<1>10. ASSUME r.cmd = "cklist" PROVE Told(r)
  <2> DEFINE a == [i \in 1 .. Cardinality(bps) |-> [Reply(r) EXCEPT !.type = "info"]]
             z == <<Reply(r)>>
  <2>1. a \in Seq(Frames) /\ z \in Seq(Frames)
    <3>1. Cardinality(bps) \in Nat
      BY <1>1, FS_CardinalityType
    <3> QED BY <1>6, <3>1
  <2>2. wire' = Cat(Cat(wire, Entry), Cat(a, z))
    <3>1. wire' = Cat(Cat(Cat(wire, Entry), a), z)
      BY <1>2, <1>10 DEF Cat
    <3>2. Cat(wire, Entry) \in Seq(Frames)
      BY <1>1, <1>7, SeqConcat
    <3> HIDE DEF a, z
    <3> QED BY <2>1, <3>1, <3>2, CatAssoc
  <2>3. Cat(a, z) \in Seq(Frames)
    BY <2>1, SeqConcat
  <2>4. \A j \in DOMAIN Cat(a, z) :
            Cat(a, z)[j] \in {Reply(r), [Reply(r) EXCEPT !.type = "info"]}
    <3>1. Len(a) \in Nat /\ DOMAIN a = 1 .. Len(a)
          /\ \A j \in DOMAIN a : a[j] = [Reply(r) EXCEPT !.type = "info"]
      BY <2>1, SeqDomain
    <3>2. Len(z) = 1 /\ z[1] = Reply(r)
      OBVIOUS
    <3> HIDE DEF a, z
    <3>3. /\ DOMAIN Cat(a, z) = 1 .. (Len(a) + 1)
          /\ \A i \in 1 .. Len(a) : Cat(a, z)[i] = a[i]
          /\ Cat(a, z)[Len(a) + 1] = z[1]
      <4>1. Joined(Frames, Cat(a, z), a, z)
        BY <2>1, SeqConcat
      <4> QED BY <3>2, <4>1 DEF Joined
    <3> QED BY <3>1, <3>2, <3>3
  <2>5. \A j \in DOMAIN Cat(a, z) : Cat(a, z)[j].id = r.id /\ Cat(a, z)[j].val = ctx
    BY <1>6, <2>4
  <2> HIDE DEF a, z
  <2>6. Adds(Cat(a, z), r)
    BY <1>10, <2>2, <2>3, <2>5 DEF Adds
  <2> QED BY <2>6, Announce
<1>11. ASSUME r.cmd \notin {"exit", "advance", "cklist"} PROVE Told(r)
  <2> DEFINE a == <<Reply(r)>>
  <2>1. a \in Seq(Frames) /\ \A j \in DOMAIN a : a[j] = Reply(r)
    BY <1>6
  <2>2. wire' = Cat(Cat(wire, Entry), a)
    BY <1>2, <1>11 DEF Cat
  <2> HIDE DEF a
  <2>3. Adds(a, r)
    BY <1>6, <1>11, <2>1, <2>2 DEF Adds
  <2> QED BY <2>3, Announce
<1>12. Told(r)
  BY <1>8, <1>9, <1>10, <1>11
<1> QED BY <1>1, <1>4, <1>5, <1>12 DEF r

LEMMA TextEffect ==
    ASSUME TypeOK, ServiceText
    PROVE  /\ text = "asked" /\ text' = "answered" /\ mode' = "halt" /\ reqs = <<>>
           /\ wire' \in Seq(Frames) /\ Grown(wire, wire') /\ spare' \in 0 .. MaxSpare
           /\ \A j \in DOMAIN wire' : j > Len(wire) => wire'[j].id = NoneOf
           /\ mode = "run" => NewStop
           /\ UNCHANGED <<ctx, code, bps, ran, hijacked, reqs, client, callers, jobs, timeouts>>
<1>1. /\ wire \in Seq(Frames) /\ Entry \in Seq(Frames) /\ wire' = Cat(wire, Entry)
      /\ MaxSpare \in Nat /\ spare \in 0 .. MaxSpare
  BY EventTypes, OneElement, MonitorAssumption DEF TypeOK, MachineOK, SocketOK, Entry, ServiceText, Cat
<1>2. spare' \in 0 .. MaxSpare
  BY <1>1 DEF ServiceText, Traps
<1>3. Joined(Frames, wire', wire, Entry) /\ Grown(wire, wire')
  BY <1>1, SeqConcat, GrowByConcat, GrownItself
<1>4. /\ Len(Entry) <= 1
      /\ mode = "run" => Len(Entry) = 1
      /\ Len(Entry) = 1 => Entry[1] = Event("stopped")
  BY DEF Entry
<1>5. /\ \A j \in DOMAIN wire' : j > Len(wire) => wire'[j] = Event("stopped")
      /\ wire' \in Seq(Frames)
  BY <1>3, <1>4 DEF Joined
<1>6. ASSUME mode = "run" PROVE NewStop
  <2>1. Len(wire) + 1 \in DOMAIN wire' /\ Len(wire) + 1 > Len(wire)
    BY <1>3, <1>4, <1>6 DEF Joined
  <2> QED BY <1>5, <2>1, EventTypes DEF NewStop, IsStop
<1>7. \A j \in DOMAIN wire' : j > Len(wire) => wire'[j].id = NoneOf
  BY <1>5, EventTypes
<1> QED BY <1>2, <1>3, <1>5, <1>6, <1>7 DEF ServiceText

-----------------------------------------------------------------------------
(* Where a caller goes.                                                     *)
Excs == {"none", "timeout", "error"}
Parts == {"call", "probe"}

Turned(t) ==
    /\ step' \in [Threads -> Steps] /\ part' \in [Threads -> Parts]
    /\ exc' \in [Threads -> Excs]
    /\ \A u \in Threads \ {t} : step'[u] = step[u] /\ part'[u] = part[u] /\ exc'[u] = exc[u]

LEMMA GotoTurns ==
    ASSUME LocalsOK, NEW t \in Threads, NEW s \in Steps, Goto(t, s), UNCHANGED <<exc, part>>
    PROVE  Turned(t) /\ step'[t] = s /\ part'[t] = part[t] /\ exc'[t] = exc[t]
  BY DEF Goto, Turned, LocalsOK, Excs, Parts

Ended(t, e) ==
    /\ Turned(t) /\ part'[t] = part[t]
    /\ job[t] # "watch" => exc'[t] = e
    /\ step'[t] \in {"cgo", "mget", "done"}
    /\ step'[t] = "cgo" => job[t] = "watch" /\ step[t] = "mget"
    /\ step'[t] = "mget" => job[t] = "watch" /\ step[t] = "go"

LEMMA FinishEnds ==
    ASSUME LocalsOK, NEW t \in Threads, NEW e \in Excs, Finish(t, e)
    PROVE  Ended(t, e)
<1>1. "cgo" \in Steps /\ "done" \in Steps /\ "mget" \in Steps
  BY StepNames
<1>2. /\ exc' = exc \/ exc' = [exc EXCEPT ![t] = e]
      /\ job[t] # "watch" => exc' = [exc EXCEPT ![t] = e]
      /\ part' = part
  BY DEF Finish
<1>3. PICK s \in {"cgo", "mget", "done"} :
          /\ Goto(t, s)
          /\ s = "cgo" => job[t] = "watch" /\ step[t] = "mget"
          /\ s = "mget" => job[t] = "watch" /\ step[t] = "go"
  <2>1. CASE job[t] = "watch" /\ step[t] = "mget"
    BY <2>1 DEF Finish
  <2>2. CASE job[t] = "watch" /\ step[t] = "go"
    BY <2>2 DEF Finish
  <2>3. CASE ~ (job[t] = "watch" /\ step[t] = "mget") /\ ~ (job[t] = "watch" /\ step[t] = "go")
    BY <2>3 DEF Finish
  <2> QED BY <2>1, <2>2, <2>3
<1>4. Turned(t) /\ step'[t] = s /\ part'[t] = part[t]
  BY <1>1, <1>2, <1>3 DEF Goto, Turned, LocalsOK, Excs, Parts
<1>5. job[t] # "watch" => exc'[t] = e
  BY <1>2 DEF LocalsOK
<1> QED BY <1>3, <1>4, <1>5 DEF Ended

(* After one round trip of the trampoline that ended with e.                *)
Once(t, e) ==
    /\ Turned(t)
    /\ step'[t] \in {"rst", "hread", "done"}
    /\ step'[t] = "rst" => e = "none" /\ SavesCaller(t) /\ part'[t] = part[t]
    /\ step'[t] = "hread" => e # "none" /\ part'[t] = "probe"
    /\ step'[t] = "done" => exc'[t] = e /\ part'[t] = part[t]
    /\ step'[t] = "done" /\ e = "none" => ~ SavesCaller(t)

LEMMA EndOnceEnds ==
    ASSUME LocalsOK, NEW t \in Threads, NEW e \in Excs, EndOnce(t, e)
    PROVE  Once(t, e)
<1>0. "rst" \in Steps /\ "hread" \in Steps /\ "done" \in Steps
  BY StepNames
<1>1. CASE e = "none" /\ part[t] = "call" /\ job[t] # "jsrPlain"
  <2>1. Goto(t, "rst") /\ exc' = [exc EXCEPT ![t] = "none"] /\ UNCHANGED part
    BY <1>1 DEF EndOnce
  <2> QED BY <1>0, <1>1, <2>1 DEF Once, Turned, Goto, LocalsOK, Excs, Parts, SavesCaller
<1>2. CASE e = "timeout" /\ part[t] = "call" /\ job[t] = "jsrRecover" /\ step[t] # "rd0"
  <2>1. Goto(t, "hread") /\ exc' = [exc EXCEPT ![t] = "none"] /\ part' = [part EXCEPT ![t] = "probe"]
    BY <1>2 DEF EndOnce
  <2> QED BY <1>0, <1>2, <2>1 DEF Once, Turned, Goto, LocalsOK, Excs, Parts
<1>3. CASE /\ ~ (e = "none" /\ part[t] = "call" /\ job[t] # "jsrPlain")
           /\ ~ (e = "timeout" /\ part[t] = "call" /\ job[t] = "jsrRecover" /\ step[t] # "rd0")
  <2>1. Goto(t, "done") /\ exc' = [exc EXCEPT ![t] = e] /\ UNCHANGED part
    BY <1>3 DEF EndOnce
  <2> QED BY <1>0, <1>3, <2>1 DEF Once, Turned, Goto, LocalsOK, Excs, Parts, SavesCaller
<1> QED BY <1>1, <1>2, <1>3

InTry == {"pc", "go", "scan", "wait", "rd1", "jamread"}

(* An exception never looks like a success.                                 *)
Failed(t) ==
    /\ Turned(t)
    /\ ~ IsJsr(t) => /\ step'[t] \in {"cgo", "mget", "done"}
                     /\ step'[t] \in {"cgo", "mget"} => job[t] = "watch"
    /\ IsJsr(t) => step'[t] \in {"del", "done", "hread"}
    /\ IsJsr(t) /\ step[t] \in InTry => step'[t] = "del"
    /\ IsJsr(t) /\ step'[t] # "hread" => exc'[t] # "none"
    /\ step'[t] # "hread" => part'[t] = part[t]
    /\ step'[t] = "hread" => part'[t] = "probe" /\ IsJsr(t)

LEMMA FailFails ==
    ASSUME LocalsOK, NEW t \in Threads, NEW e \in Excs \ {"none"}, Fail(t, e)
    PROVE  Failed(t)
<1>0. "del" \in Steps /\ "done" \in Steps /\ e \in Excs
  BY StepNames
<1>1. CASE ~ IsJsr(t)
  <2>1. Ended(t, e)
    BY <1>0, <1>1, FinishEnds DEF Fail
  <2> QED BY <1>1, <2>1 DEF Ended, Failed
<1>2. CASE IsJsr(t) /\ step[t] \in InTry
  <2>1. Goto(t, "del") /\ exc' = [exc EXCEPT ![t] = e] /\ UNCHANGED part
    BY <1>2 DEF Fail, InTry
  <2> QED BY <1>0, <1>2, <2>1 DEF Failed, Turned, Goto, LocalsOK, Excs, Parts
<1>3. CASE IsJsr(t) /\ step[t] \in {"hread", "hset"}
  <2>1. Goto(t, "done") /\ exc' = [exc EXCEPT ![t] = "error"] /\ UNCHANGED part
    BY <1>3 DEF Fail
  <2> QED BY <1>0, <1>3, <2>1 DEF Failed, Turned, Goto, LocalsOK, Excs, Parts, InTry
<1>4. CASE IsJsr(t) /\ step[t] \notin InTry /\ step[t] \notin {"hread", "hset"}
  <2>1. Once(t, e)
    BY <1>0, <1>4, EndOnceEnds DEF Fail, InTry
  <2> QED BY <1>0, <1>4, <2>1 DEF Once, Failed
<1> QED BY <1>1, <1>2, <1>3, <1>4

(* What a caller does with its reply, step by step.                         *)
SavedOnly(t) ==
    /\ saved' \in [Threads -> Ctx] /\ bp' \in [Threads -> Nat] /\ verdict' = verdict
    /\ \A u \in Threads \ {t} : saved'[u] = saved[u] /\ bp'[u] = bp[u]
    /\ step[t] # "rd0" => saved'[t] = saved[t]
    /\ step[t] # "ck" => bp'[t] = bp[t]

Straight == {"wr", "ck", "pc", "go", "adv", "rst", "hread", "hset", "mget"}

After(t, val) ==
    /\ step[t] = "rd0" => \/ IsJsr(t) /\ step'[t] = "wr" /\ saved'[t] = val /\ part'[t] = part[t]
                          \/ ~ IsJsr(t) /\ Ended(t, "none")
    /\ step[t] \in Straight => part'[t] = part[t] /\ exc'[t] = exc[t]
    /\ step[t] = "wr" => step'[t] = "ck"
    /\ step[t] = "ck" => step'[t] = "pc" /\ bp'[t] = want[t]
    /\ step[t] = "pc" => step'[t] = "bump"
    /\ step[t] = "go" => \/ step'[t] = "mget" /\ job[t] = "watch"
                         \/ step'[t] = "scan" /\ job[t] # "watch"
    /\ step[t] = "adv" => step'[t] = "scan"
    /\ step[t] = "rd1" => \/ /\ Landed(val) /\ step'[t] = "del"
                             /\ part'[t] = part[t] /\ exc'[t] = exc[t]
                          \/ Failed(t)
    /\ step[t] = "del" => Once(t, exc[t])
    /\ step[t] = "rst" => step'[t] = "done"
    /\ step[t] = "hread" => step'[t] = "hset"
    /\ step[t] = "hset" => step'[t] = "wr"
    /\ step[t] = "jamread" => Failed(t)
    /\ step[t] = "list" => Ended(t, "none")
    /\ step[t] = "mget" => step'[t] \in {"cgo", "bump"}

LEMMA AnsweredTurns ==
    ASSUME LocalsOK, NEW t \in Threads, NEW val \in Ctx, want[t] \in Nat,
           step[t] \in DOMAIN Command, step[t] # "cgo", Answered(t, val)
    PROVE  Turned(t) /\ SavedOnly(t) /\ After(t, val)
<1>0. /\ saved \in [Threads -> Ctx] /\ bp \in [Threads -> Nat] /\ exc \in [Threads -> Excs]
      /\ exc[t] \in Excs /\ part[t] \in Parts /\ step \in [Threads -> Steps]
  BY DEF LocalsOK, Excs, Parts
<1>1. /\ \A s \in {"wr", "ck", "pc", "bump", "mget", "scan", "del", "done", "hset", "cgo"} : s \in Steps
      /\ "timeout" \in Excs \ {"none"} /\ "error" \in Excs \ {"none"} /\ "none" \in Excs
  BY StepNames DEF Excs
<1>2. ASSUME UNCHANGED <<saved, bp, verdict>> PROVE SavedOnly(t)
  BY <1>0, <1>2 DEF SavedOnly
<1>3. ASSUME step[t] \in {"wr", "pc", "go", "adv", "rst", "hread", "hset", "mget"}
      PROVE  Turned(t) /\ SavedOnly(t) /\ After(t, val)
  <2>1. PICK s \in Steps :
                /\ Goto(t, s) /\ UNCHANGED <<exc, part, saved, bp, verdict>>
                /\ step[t] = "wr" => s = "ck"
                /\ step[t] = "pc" => s = "bump"
                /\ step[t] = "go" => \/ s = "mget" /\ job[t] = "watch"
                                     \/ s = "scan" /\ job[t] # "watch"
                /\ step[t] = "adv" => s = "scan"
                /\ step[t] = "rst" => s = "done"
                /\ step[t] = "hread" => s = "hset"
                /\ step[t] = "hset" => s = "wr"
                /\ step[t] = "mget" => s \in {"cgo", "bump"}
    BY <1>1, <1>3 DEF Answered
  <2>2. Turned(t) /\ step'[t] = s /\ part'[t] = part[t] /\ exc'[t] = exc[t]
    BY <2>1, GotoTurns
  <2>3. SavedOnly(t)
    BY <1>2, <2>1
  <2> QED BY <1>3, <2>1, <2>2, <2>3 DEF After, Straight
<1>4. CASE step[t] = "rd0"
  <2>1. /\ saved' = (IF IsJsr(t) THEN [saved EXCEPT ![t] = val] ELSE saved)
        /\ UNCHANGED <<bp, verdict>>
        /\ IF IsJsr(t) THEN Goto(t, "wr") /\ UNCHANGED <<exc, part>> ELSE Finish(t, "none")
    BY <1>4 DEF Answered
  <2>2. SavedOnly(t)
    BY <1>0, <1>4, <2>1 DEF SavedOnly
  <2>3. CASE IsJsr(t)
    <3>1. Turned(t) /\ step'[t] = "wr" /\ part'[t] = part[t]
      BY <1>1, <2>1, <2>3, GotoTurns
    <3>2. saved'[t] = val
      BY <1>0, <2>1, <2>3
    <3> QED BY <1>4, <2>2, <2>3, <3>1, <3>2 DEF After, Straight
  <2>4. CASE ~ IsJsr(t)
    <3>1. Ended(t, "none")
      BY <1>1, <2>1, <2>4, FinishEnds
    <3> QED BY <1>4, <2>2, <2>4, <3>1 DEF After, Straight, Ended
  <2> QED BY <2>3, <2>4
<1>5. CASE step[t] = "ck"
  <2>1. Goto(t, "pc") /\ bp' = [bp EXCEPT ![t] = want[t]] /\ UNCHANGED <<exc, part, saved, verdict>>
    BY <1>5 DEF Answered
  <2>2. Turned(t) /\ step'[t] = "pc" /\ part'[t] = part[t] /\ exc'[t] = exc[t]
    BY <1>1, <2>1, GotoTurns
  <2>3. SavedOnly(t) /\ bp'[t] = want[t]
    BY <1>0, <1>5, <2>1 DEF SavedOnly
  <2> QED BY <1>5, <2>2, <2>3 DEF After, Straight
<1>6. CASE step[t] = "rd1"
  <2>1. IF Landed(val) THEN Goto(t, "del") /\ UNCHANGED <<exc, part, saved, bp, verdict>>
                       ELSE Raise(t, "timeout")
    BY <1>6 DEF Answered
  <2>2. CASE Landed(val)
    <3>1. Turned(t) /\ step'[t] = "del" /\ part'[t] = part[t] /\ exc'[t] = exc[t]
      BY <1>1, <2>1, <2>2, GotoTurns
    <3> QED BY <1>2, <1>6, <2>1, <2>2, <3>1 DEF After, Straight
  <2>3. CASE ~ Landed(val)
    <3>1. Failed(t)
      BY <1>1, <2>1, <2>3, FailFails DEF Raise
    <3> QED BY <1>2, <1>6, <2>1, <2>3, <3>1 DEF After, Straight, Raise, Failed
  <2> QED BY <2>2, <2>3
<1>7. CASE step[t] = "del"
  <2>1. EndOnce(t, exc[t]) /\ UNCHANGED <<saved, bp, verdict>>
    BY <1>7 DEF Answered
  <2>2. Once(t, exc[t])
    BY <1>0, <2>1, EndOnceEnds
  <2> QED BY <1>2, <1>7, <2>1, <2>2 DEF After, Straight, Once
<1>8. CASE step[t] = "jamread"
  <2>1. Raise(t, "error")
    BY <1>8 DEF Answered
  <2>2. Failed(t)
    BY <1>1, <2>1, FailFails DEF Raise
  <2> QED BY <1>2, <1>8, <2>1, <2>2 DEF After, Straight, Raise, Failed
<1>9. CASE step[t] = "list"
  <2>1. Finish(t, "none") /\ UNCHANGED <<saved, bp, verdict>>
    BY <1>9 DEF Answered
  <2>2. Ended(t, "none")
    BY <1>1, <2>1, FinishEnds
  <2> QED BY <1>2, <1>9, <2>1, <2>2 DEF After, Straight, Ended
<1> QED BY <1>3, <1>4, <1>5, <1>6, <1>7, <1>8, <1>9, Commands

-----------------------------------------------------------------------------
(* What a step of a thread leaves alone, other than sending a request.      *)
OthersUnmoved(t) ==
    \A u \in Threads \ {t} :
        /\ job'[u] = job[u] /\ step'[u] = step[u] /\ part'[u] = part[u]
        /\ want'[u] = want[u] /\ exc'[u] = exc[u] /\ saved'[u] = saved[u]
        /\ bp'[u] = bp[u] /\ verdict'[u] = verdict[u]

Kept(t) == /\ job'[t] = job[t] /\ step'[t] = step[t] /\ part'[t] = part[t]
           /\ want'[t] = want[t] /\ saved'[t] = saved[t] /\ bp'[t] = bp[t]

Popped(t) == wire # <<>> /\ lock = t /\ wire' = Tail(wire)

Framed(t) ==
    /\ UNCHANGED <<machine, reqs, ids>>
    /\ OthersUnmoved(t) /\ LocalsOK' /\ ClientOK'
    /\ lock' = lock \/ lock \in {t, NoThread}
    /\ wire' = wire \/ Popped(t)
    /\ text' \in {"none", "asked", "answered"}
    /\ text' = text \/ lock \in {t, NoThread}
    /\ want'[t] # NoneOf /\ step'[t] \in DOMAIN Command => Kept(t)
    /\ timeouts' = timeouts \/ timeouts' = timeouts + 1

LEMMA WantNone ==
    ASSUME Conversation, NEW t \in Threads
    PROVE  /\ want[t] \in Nat \union {-1} /\ step[t] \in Steps
           /\ step[t] \in {"idle", "bump", "scan", "wait", "clisten", "cdone", "done"} => want[t] = NoneOf
           /\ step[t] \in DOMAIN Command => want[t] \in Nat
           /\ step[t] = "ask" => want[t] <= 0
<1>1. /\ want[t] \in Nat \union {-1} /\ step[t] \in Steps
      /\ want[t] > NoneOf => step[t] \in DOMAIN Command
      /\ want[t] < NoneOf => step[t] = "ask"
  BY DEF Conversation, TypeOK, LocalsOK, LockedWhileWaiting
<1> QED BY <1>1, Commands DEF NoneOf

LEMMA FirstSteps ==
    ASSUME NEW j \in Jobs
    PROVE  /\ FirstStep(j) \in {"rd0", "wr", "mget", "bump", "list", "ask"}
           /\ FirstStep(j) \in Steps
           /\ FirstStep(j) = "rd0" => j \in {"jsr", "jsrRecover", "peek"}
           /\ FirstStep(j) = "wr" => j = "jsrPlain"
           /\ FirstStep(j) = "mget" => j = "watch"
           /\ FirstStep(j) = "bump" => j = "step"
           /\ FirstStep(j) = "list" => j = "list"
           /\ FirstStep(j) = "ask" => j = "text"
           /\ j \in {"peek", "list", "text"} => FirstStep(j) \in {"rd0", "list", "ask"}
  BY StepNames DEF Jobs, FirstStep

Entries == [gen : Nat, type : {"stopped", "jam"}]

LEMMA QueuedTypes ==
    ASSUME NEW f \in Frames, gen \in Nat
    PROVE  /\ Queued(f) \in Seq(Entries)
           /\ IsStop(f) => /\ Len(Queued(f)) = 1 /\ Queued(f)[1].gen = gen
                           /\ IsStop(Queued(f)[1])
<1>1. CASE IsStop(f)
  <2>1. [gen |-> gen, type |-> f.type] \in Entries
    BY <1>1 DEF Entries, IsStop
  <2>2. Queued(f) = <<[gen |-> gen, type |-> f.type]>>
    BY <1>1 DEF Queued
  <2> QED BY <1>1, <2>1, <2>2, OneElement DEF IsStop
<1>2. CASE ~ IsStop(f)
  BY <1>2 DEF Queued
<1> QED BY <1>1, <1>2

LEMMA WireHead ==
    ASSUME Conversation, wire # <<>>
    PROVE  /\ Head(wire) \in Frames /\ Head(wire) = wire[1] /\ 1 \in DOMAIN wire
           /\ Tail(wire) \in Seq(Frames) /\ DOMAIN wire = 1 .. Len(wire) /\ Len(wire) \in Nat
           /\ DOMAIN Tail(wire) = 1 .. (Len(wire) - 1)
           /\ \A i \in 1 .. (Len(wire) - 1) : Tail(wire)[i] = wire[i + 1]
           /\ Head(wire).id \in Nat
           /\ Head(wire).id # NoneOf => Head(wire).val \in Ctx /\ ~ IsStop(Head(wire))
<1>1. wire \in Seq(Frames)
  BY DEF Conversation, TypeOK, SocketOK
<1>2. Head(wire) \in Frames
  BY <1>1, SeqTail
<1>3. /\ Head(wire).id \in Nat
      /\ Head(wire).id # NoneOf => Head(wire).val \in Ctx /\ ~ IsStop(Head(wire))
  BY <1>2 DEF Frames, NoneOf, IsStop
<1> QED BY <1>1, <1>2, <1>3, SeqTail, SeqDomain

LEMMA BeginFrame ==
    ASSUME Conversation, NEW t \in Threads, Begin(t)
    PROVE  /\ Framed(t)
           /\ \E j \in Jobs : j \in JobsOf[t] /\ job'[t] = j /\ step'[t] = FirstStep(j)
           /\ part'[t] = "call" /\ exc'[t] = "none" /\ bp'[t] = NoneOf /\ want'[t] = NoneOf
           /\ step[t] \in {"idle", "done"}
           /\ UNCHANGED <<socket, client, want, timeouts>>
<1>1. PICK j \in JobsOf[t] : job' = [job EXCEPT ![t] = j] /\ Goto(t, FirstStep(j))
  BY DEF Begin
<1>2. j \in Jobs
  BY MonitorAssumption
<1>3. FirstStep(j) \in Steps
  BY <1>2, FirstSteps
<1>4. LocalsOK /\ SocketOK /\ ClientOK /\ want[t] = NoneOf
  BY WantNone DEF Conversation, TypeOK, Begin
<1>5. LocalsOK'
  BY <1>1, <1>2, <1>3, <1>4, CtxFields DEF Begin, LocalsOK, Goto, NoneOf
<1>6. OthersUnmoved(t)
  BY <1>1, <1>4 DEF Begin, LocalsOK, Goto, OthersUnmoved
<1>7. /\ step'[t] = FirstStep(j) /\ job'[t] = j
      /\ part'[t] = "call" /\ exc'[t] = "none" /\ bp'[t] = NoneOf
  BY <1>1, <1>4 DEF Begin, LocalsOK, Goto
<1>8. UNCHANGED <<machine, socket, client, want, timeouts>> /\ step[t] \in {"idle", "done"}
  BY DEF Begin
<1>9. ClientOK' /\ text' \in {"none", "asked", "answered"} /\ text' = text /\ wire' = wire /\ lock' = lock
      /\ UNCHANGED <<machine, reqs, ids>> /\ want'[t] = NoneOf
  BY <1>4, <1>8 DEF ClientOK, SocketOK, client, socket
<1> QED BY <1>2, <1>1, <1>5, <1>6, <1>7, <1>8, <1>9 DEF Framed

LEMMA TurnedFrame ==
    ASSUME LocalsOK, NEW t \in Threads, Turned(t), job' = job,
           want' \in [Threads -> Nat \union {-1}],
           \A u \in Threads \ {t} : want'[u] = want[u],
           SavedOnly(t) \/ UNCHANGED <<saved, bp, verdict>>
    PROVE  LocalsOK' /\ OthersUnmoved(t)
<1>1. LocalsOK'
  BY DEF LocalsOK, Turned, SavedOnly, Excs, Parts
<1>2. OthersUnmoved(t)
  BY DEF OthersUnmoved, Turned, SavedOnly
<1> QED BY <1>1, <1>2

(* What is gained when t's own call does not change its want.               *)
LEMMA StillFrame ==
    ASSUME Conversation, NEW t \in Threads, LocalsOK', OthersUnmoved(t), ClientOK',
           UNCHANGED <<machine, reqs, ids, text, timeouts>>,
           lock' = lock \/ lock \in {t, NoThread}, wire' = wire \/ Popped(t),
           want'[t] = NoneOf \/ Kept(t)
    PROVE  Framed(t)
<1>1. text' \in {"none", "asked", "answered"}
  BY DEF Conversation, TypeOK, SocketOK
<1> QED BY <1>1 DEF Framed

LEMMA BumpFrame ==
    ASSUME Conversation, NEW t \in Threads, Bump(t)
    PROVE  /\ Framed(t)
           /\ step[t] = "bump" /\ step'[t] \in {"adv", "go"}
           /\ step'[t] = "adv" => job[t] = "step"
           /\ want[t] = NoneOf
           /\ UNCHANGED <<socket, lock, queue, job, part, want, exc, saved, bp, verdict, timeouts>>
<1>1. LocalsOK /\ ClientOK /\ want[t] = NoneOf
  BY WantNone DEF Conversation, TypeOK, Bump
<1>2. PICK s \in {"adv", "go"} : Goto(t, s) /\ (s = "adv" => job[t] = "step")
  BY DEF Bump
<1>3. s \in Steps
  BY StepNames
<1>4. Turned(t) /\ step'[t] = s
  BY <1>1, <1>2, <1>3, GotoTurns DEF Bump
<1>5. UNCHANGED <<machine, socket, lock, queue, ids, job, part, want, exc, saved, bp, verdict, timeouts>>
      /\ gen' = gen + 1 /\ step[t] = "bump"
  BY DEF Bump, locals
<1>6. LocalsOK' /\ OthersUnmoved(t)
  BY <1>1, <1>4, <1>5, TurnedFrame DEF LocalsOK
<1>7. ClientOK'
  BY <1>1, <1>5 DEF ClientOK
<1>8. Framed(t)
  BY <1>1, <1>5, <1>6, <1>7, StillFrame DEF socket
<1> QED BY <1>1, <1>2, <1>4, <1>5, <1>8

(* A stop has been found.                                                   *)
Stays(t) == part'[t] = part[t] /\ exc'[t] = exc[t]

AfterStop(t) ==
    /\ Turned(t)
    /\ \/ IsJsr(t) /\ step'[t] = "rd1" /\ Stays(t)
       \/ ~ IsJsr(t) /\ Ended(t, "none")

LEMMA StoppedTurns ==
    ASSUME LocalsOK, NEW t \in Threads, Stopped(t) PROVE AfterStop(t)
<1>1. "rd1" \in Steps /\ "none" \in Excs
  BY StepNames DEF Excs
<1>2. CASE IsJsr(t)
  BY <1>1, <1>2, GotoTurns DEF Stopped, AfterStop, Stays
<1>3. CASE ~ IsJsr(t)
  BY <1>1, <1>3, FinishEnds DEF Stopped, AfterStop, Ended
<1> QED BY <1>2, <1>3

LEMMA QueueParts ==
    ASSUME NEW q \in Seq(Entries), NEW k \in 0 .. Len(q)
    PROVE  LET p == SubSeq(q, k + 1, Len(q))
           IN  /\ p \in Seq(Entries) /\ DOMAIN p = 1 .. (Len(q) - k) /\ Len(q) \in Nat
               /\ \A i \in 1 .. (Len(q) - k) : p[i] = q[i + k]
  OBVIOUS

LEMMA RemoveTypes ==
    ASSUME NEW q \in Seq(Entries), NEW i \in DOMAIN q
    PROVE  RemoveAt(q, i) \in Seq(Entries)
<1>1. SubSeq(q, 1, i - 1) \in Seq(Entries) /\ SubSeq(q, i + 1, Len(q)) \in Seq(Entries)
  OBVIOUS
<1> QED BY <1>1 DEF RemoveAt

(* A look at the queue that goes on to the socket found nothing new.        *)
Looked(t) ==
    /\ queue' \in Seq(Entries) /\ Turned(t)
    /\ \/ step'[t] \in {"jamread", "wait"} /\ Stays(t)
       \/ AfterStop(t)
       \/ Failed(t)
    /\ step'[t] = "wait" => ~ \E i \in DOMAIN queue : IsStop(queue[i]) /\ queue[i].gen >= gen

LEMMA ScanFrame ==
    ASSUME Conversation, NEW t \in Threads, Scan(t)
    PROVE  /\ Framed(t)
           /\ step[t] = "scan" /\ want[t] = NoneOf
           /\ Looked(t)
           /\ UNCHANGED <<socket, lock, gen, job, want, saved, bp, verdict, timeouts>>
<1>1. LocalsOK /\ ClientOK /\ want[t] = NoneOf /\ step[t] = "scan"
  BY WantNone DEF Conversation, TypeOK, Scan
<1>2. UNCHANGED <<machine, socket, lock, gen, ids, job, want, saved, bp, verdict, timeouts>>
  BY DEF Scan, locals
<1>3. PICK k \in 0 .. Len(queue) :
          /\ Precede(k)
          /\ \/ Look(t, SubSeq(queue, k + 1, Len(queue)))
             \/ queue' = SubSeq(queue, k + 1, Len(queue)) /\ Fail(t, "error")
  BY DEF Scan
<1> DEFINE q == SubSeq(queue, k + 1, Len(queue))
           fresh == {i \in DOMAIN q : q[i].gen >= gen}
           jams == {i \in fresh : q[i].type = "jam"}
           stops == {i \in fresh : q[i].type = "stopped"}
<1>4. queue \in Seq(Entries) /\ gen \in Nat
  BY <1>1 DEF ClientOK, Entries
<1>5a. /\ DOMAIN queue = 1 .. Len(queue) /\ Len(queue) \in Nat
       /\ \A i \in DOMAIN queue : queue[i] \in Entries
  BY <1>4, SeqDomain
<1>5b. /\ q \in Seq(Entries) /\ DOMAIN q = 1 .. (Len(queue) - k)
       /\ \A i \in 1 .. (Len(queue) - k) : q[i] = queue[i + k]
  BY <1>4, QueueParts
<1> HIDE DEF q
<1>5c. \A i \in DOMAIN queue : queue[i].gen \in Nat
  BY <1>5a DEF Entries
<1>5. /\ q \in Seq(Entries) /\ DOMAIN q = 1 .. (Len(queue) - k) /\ Len(queue) \in Nat
      /\ \A i \in 1 .. (Len(queue) - k) : q[i] = queue[i + k]
      /\ DOMAIN queue = 1 .. Len(queue)
      /\ \A i \in DOMAIN queue : queue[i].gen \in Nat
  BY <1>5a, <1>5b, <1>5c
<1>6. ASSUME Look(t, q)
      PROVE  IF jams # {} THEN queue' = q /\ Goto(t, "jamread") /\ UNCHANGED <<exc, part>>
        ELSE IF stops = {} THEN queue' = q /\ Goto(t, "wait") /\ UNCHANGED <<exc, part>>
        ELSE \E i \in stops : /\ \A j \in stops : i <= j
                              /\ queue' = RemoveAt(q, i)
                              /\ Stopped(t)
  BY <1>6 DEF Look
<1>7. \A i \in DOMAIN queue : ~ (queue[i].gen < gen) /\ IsStop(queue[i]) =>
          i - k \in jams \union stops
  <2> SUFFICES ASSUME NEW i \in DOMAIN queue, ~ (queue[i].gen < gen), IsStop(queue[i])
               PROVE  i - k \in jams \union stops
    OBVIOUS
  <2>1. i > k
    BY <1>3, <1>5 DEF Precede
  <2>2. i - k \in DOMAIN q /\ q[i - k] = queue[i]
    <3>1. i \in Nat /\ k \in Nat /\ i <= Len(queue) /\ Len(queue) \in Nat
      BY <1>5
    <3>2. i - k \in 1 .. (Len(queue) - k) /\ (i - k) + k = i
      BY <2>1, <3>1
    <3> QED BY <1>5, <3>2
  <2>3. queue[i].gen \in Nat /\ queue[i].gen >= gen
    BY <1>4, <1>5
  <2> QED BY <2>2, <2>3 DEF IsStop
<1> HIDE DEF jams, stops
<1>8. ASSUME Look(t, q), jams # {} PROVE Looked(t)
  <2>1. queue' = q /\ Goto(t, "jamread") /\ UNCHANGED <<exc, part>> /\ "jamread" \in Steps
    BY <1>6, <1>8, StepNames
  <2>2. Turned(t) /\ step'[t] = "jamread" /\ Stays(t)
    BY <1>1, <2>1, GotoTurns DEF Stays
  <2>3. queue' \in Seq(Entries)
    BY <1>5, <2>1
  <2> QED BY <2>2, <2>3 DEF Looked
<1>9. ASSUME Look(t, q), jams = {}, stops = {} PROVE Looked(t)
  <2>1. queue' = q /\ Goto(t, "wait") /\ UNCHANGED <<exc, part>> /\ "wait" \in Steps
    BY <1>6, <1>9, StepNames
  <2>2. Turned(t) /\ step'[t] = "wait" /\ Stays(t)
    BY <1>1, <2>1, GotoTurns DEF Stays
  <2>3. queue' \in Seq(Entries)
    BY <1>5, <2>1
  <2>4. ~ \E i \in DOMAIN queue : IsStop(queue[i]) /\ queue[i].gen >= gen
    BY <1>4, <1>5, <1>7, <1>9
  <2> QED BY <2>2, <2>3, <2>4 DEF Looked
<1>10. ASSUME Look(t, q), jams = {}, stops # {} PROVE Looked(t)
  <2>1. PICK i \in stops : queue' = RemoveAt(q, i) /\ Stopped(t)
    BY <1>6, <1>10
  <2>2. queue' \in Seq(Entries)
    <3>1. i \in DOMAIN q
      BY DEF stops
    <3> QED BY <1>5, <2>1, <3>1, RemoveTypes
  <2>3. AfterStop(t)
    BY <1>1, <2>1, StoppedTurns
  <2> QED BY <2>2, <2>3 DEF Looked, AfterStop, Ended
<1>11. Looked(t)
  <2>1. CASE Look(t, q)
    BY <1>8, <1>9, <1>10, <2>1
  <2>2. CASE queue' = q /\ Fail(t, "error")
    <3>1. Failed(t)
      BY <1>1, <2>2, FailFails DEF Excs
    <3>2. step'[t] # "wait" /\ Turned(t)
      BY <3>1 DEF Failed
    <3> QED BY <1>5, <2>2, <3>1, <3>2 DEF Looked
  <2> QED BY <1>3, <2>1, <2>2 DEF q
<1>12. LocalsOK' /\ OthersUnmoved(t)
  BY <1>1, <1>2, <1>11, TurnedFrame DEF Looked, LocalsOK
<1>13. ClientOK'
  BY <1>1, <1>2, <1>11 DEF ClientOK, Looked, Entries
<1>14. Framed(t)
  BY <1>1, <1>2, <1>12, <1>13, StillFrame DEF socket
<1> QED BY <1>1, <1>2, <1>11, <1>14

LEMMA WaitLockFrame ==
    ASSUME Conversation, NEW t \in Threads, WaitLock(t)
    PROVE  /\ Framed(t) /\ step[t] = "wait" /\ want[t] = NoneOf
           /\ UNCHANGED <<socket, gen, queue, callers, timeouts>>
<1>1. LocalsOK /\ ClientOK /\ want[t] = NoneOf /\ step[t] = "wait"
  BY WantNone DEF Conversation, TypeOK, WaitLock
<1>2. UNCHANGED <<machine, socket, gen, queue, ids, callers, timeouts>>
      /\ lock = NoThread /\ lock' = t
  BY DEF WaitLock
<1>3. LocalsOK' /\ OthersUnmoved(t)
  BY <1>1, <1>2 DEF LocalsOK, OthersUnmoved, callers, locals
<1>4. ClientOK'
  BY <1>1, <1>2 DEF ClientOK
<1>5. Framed(t)
  BY <1>1, <1>2, <1>3, <1>4, StillFrame DEF socket, callers
<1> QED BY <1>1, <1>2, <1>5

(* A frame on the socket that a waiter for a stop reads: one that it does   *)
(* not look for stays on the queue.                                         *)
Read(t) ==
    /\ Turned(t) /\ queue' \in Seq(Entries)
    /\ \/ step'[t] = "jamread" /\ Stays(t)
       \/ AfterStop(t)
       \/ Failed(t)
       \/ step'[t] = "wait" /\ Stays(t) /\ ~ IsStop(Head(wire)) /\ queue' = queue

LEMMA WaitReceiveFrame ==
    ASSUME Conversation, NEW t \in Threads, WaitReceive(t)
    PROVE  /\ Framed(t) /\ step[t] = "wait" /\ want[t] = NoneOf
           /\ Popped(t) /\ Read(t)
           /\ UNCHANGED <<reqs, text, gen, job, want, saved, bp, verdict, timeouts>>
<1>1. LocalsOK /\ ClientOK /\ want[t] = NoneOf /\ step[t] = "wait" /\ Popped(t)
  BY WantNone DEF Conversation, TypeOK, WaitReceive, Popped
<1>2. UNCHANGED <<machine, reqs, text, gen, ids, job, want, saved, bp, verdict, timeouts>>
  BY DEF WaitReceive, locals
<1>3. /\ "jamread" \in Steps /\ "error" \in Excs \ {"none"} /\ "wait" \in Steps
      /\ step \in [Threads -> Steps] /\ part \in [Threads -> Parts]
      /\ exc \in [Threads -> Excs] /\ queue \in Seq(Entries) /\ gen \in Nat /\ lock = t
  BY <1>1, StepNames DEF Excs, Parts, LocalsOK, ClientOK, Entries, Popped
<1> DEFINE f == Head(wire)
<1>4. f \in Frames
  <2>1. wire # <<>>
    BY <1>1 DEF Popped
  <2> QED BY <2>1, WireHead
<1>5. (CASE f.type = "stopped" -> lock' = NoThread /\ Stopped(t) /\ UNCHANGED queue
          [] f.type = "jam" -> /\ lock' = NoThread /\ Goto(t, "jamread")
                               /\ UNCHANGED <<exc, part, queue>>
          [] f.type \notin {"stopped", "jam"} /\ f.id = NoneOf ->
               /\ queue' = queue \o Queued(f)
               /\ UNCHANGED <<lock, step, exc, part>>
          [] OTHER -> lock' = NoThread /\ Fail(t, "error") /\ UNCHANGED queue)
  BY DEF WaitReceive
<1> HIDE DEF f
<1>6. ASSUME f.type = "stopped" PROVE lock' \in {t, NoThread} /\ Read(t)
  <2>1. lock' = NoThread /\ Stopped(t) /\ UNCHANGED queue
    BY <1>5, <1>6
  <2>2. AfterStop(t)
    BY <1>1, <2>1, StoppedTurns
  <2> QED BY <1>3, <2>1, <2>2 DEF Read, AfterStop
<1>7. ASSUME f.type = "jam" PROVE lock' \in {t, NoThread} /\ Read(t)
  <2>1. lock' = NoThread /\ Goto(t, "jamread") /\ UNCHANGED <<exc, part, queue>>
    BY <1>5, <1>7
  <2>2. Turned(t) /\ step'[t] = "jamread" /\ Stays(t)
    BY <1>1, <1>3, <2>1, GotoTurns DEF Stays
  <2> QED BY <1>3, <2>1, <2>2 DEF Read
<1>8. ASSUME f.type \notin {"stopped", "jam"}, f.id = NoneOf
      PROVE  lock' \in {t, NoThread} /\ Read(t)
  <2>1. queue' = queue \o Queued(f) /\ UNCHANGED <<lock, step, exc, part>>
    BY <1>5, <1>8
  <2>2. queue' \in Seq(Entries)
    <3>1. Queued(f) \in Seq(Entries)
      BY <1>3, <1>4, QueuedTypes
    <3> QED BY <1>3, <2>1, <3>1
  <2>3. Turned(t) /\ step'[t] = "wait" /\ Stays(t)
    BY <1>1, <1>3, <2>1 DEF Turned, Stays
  <2>4. ~ IsStop(Head(wire))
    BY <1>8 DEF IsStop, f
  <2>5. queue' = queue
    <3>1. Queued(f) = <<>>
      BY <2>4 DEF Queued, f
    <3> QED BY <1>3, <2>1, <3>1
  <2> QED BY <1>3, <2>1, <2>2, <2>3, <2>4, <2>5 DEF Read
<1>9. ASSUME f.type \notin {"stopped", "jam"}, f.id # NoneOf
      PROVE  lock' \in {t, NoThread} /\ Read(t)
  <2>1. lock' = NoThread /\ Fail(t, "error") /\ UNCHANGED queue
    BY <1>5, <1>9
  <2>2. Failed(t)
    BY <1>1, <1>3, <2>1, FailFails
  <2> QED BY <1>3, <2>1, <2>2 DEF Read, Failed
<1>10. lock' \in {t, NoThread} /\ Read(t)
  BY <1>6, <1>7, <1>8, <1>9
<1>11. LocalsOK' /\ OthersUnmoved(t)
  BY <1>1, <1>2, <1>10, TurnedFrame DEF Read, LocalsOK
<1>12. ClientOK'
  BY <1>1, <1>2, <1>10 DEF ClientOK, Read, Entries
<1>13. Framed(t)
  BY <1>1, <1>2, <1>3, <1>10, <1>11, <1>12, StillFrame
<1> QED BY <1>1, <1>2, <1>10, <1>13

LEMMA WaitTimesOutFrame ==
    ASSUME Conversation, NEW t \in Threads, WaitTimesOut(t)
    PROVE  /\ Framed(t) /\ step[t] = "wait" /\ want[t] = NoneOf /\ Failed(t)
           /\ UNCHANGED <<socket, gen, queue, job, want, saved, bp, verdict>>
<1>1. LocalsOK /\ ClientOK /\ SocketOK /\ want[t] = NoneOf /\ step[t] = "wait"
  BY WantNone DEF Conversation, TypeOK, WaitTimesOut
<1>2. UNCHANGED <<machine, socket, gen, queue, ids, job, want, saved, bp, verdict>>
      /\ lock' = NoThread
  BY DEF WaitTimesOut, locals
<1>3. "timeout" \in Excs \ {"none"}
  BY DEF Excs
<1>4. Failed(t)
  BY <1>1, <1>3, FailFails DEF WaitTimesOut
<1>5. timeouts' = timeouts \/ timeouts' = timeouts + 1
  BY DEF WaitTimesOut
<1>6. LocalsOK' /\ OthersUnmoved(t)
  BY <1>1, <1>2, <1>4, TurnedFrame DEF Failed, LocalsOK
<1>7. ClientOK'
  BY <1>1, <1>2, <1>5 DEF ClientOK
<1>8. text' \in {"none", "asked", "answered"} /\ text' = text /\ wire' = wire /\ reqs' = reqs
      /\ want'[t] = NoneOf /\ lock = t
  BY <1>1, <1>2 DEF socket, SocketOK, WaitTimesOut
<1>9. UNCHANGED <<machine, reqs, ids>>
  BY <1>2, <1>8
<1>10. Framed(t)
  BY <1>5, <1>6, <1>7, <1>8, <1>9 DEF Framed
<1> QED BY <1>1, <1>2, <1>4, <1>10

(* The window after a confirmed resume: it ends as "running" only when the  *)
(* socket is empty, and goes on after a frame that is no stop.              *)
Listened(t) ==
    /\ queue' \in Seq(Entries) /\ verdict' \in [Threads -> {"none", "running", "stopped", "stale"}]
    /\ \A u \in Threads \ {t} : verdict'[u] = verdict[u]
    /\ \/ step'[t] = "cdone" /\ (verdict'[t] = "running" => wire = <<>>)
       \/ step'[t] = "clisten" /\ wire # <<>> /\ wire' = Tail(wire) /\ ~ IsStop(Head(wire))

LEMMA ListenFrame ==
    ASSUME Conversation, NEW t \in Threads, Listen(t)
    PROVE  /\ Framed(t) /\ step[t] = "clisten" /\ want[t] = NoneOf /\ lock = t
           /\ Turned(t) /\ Stays(t) /\ Listened(t)
           /\ UNCHANGED <<reqs, text, lock, gen, job, want, saved, bp, timeouts>>
<1>1. LocalsOK /\ ClientOK /\ SocketOK /\ want[t] = NoneOf /\ step[t] = "clisten" /\ lock = t
  BY WantNone DEF Conversation, TypeOK, Listen
<1>2. UNCHANGED <<machine, reqs, text, lock, gen, ids, job, part, want, exc, saved, bp, timeouts>>
  BY DEF Listen
<1>3. /\ verdict \in [Threads -> {"none", "running", "stopped", "stale"}]
      /\ queue \in Seq(Entries) /\ gen \in Nat /\ "cdone" \in Steps /\ "clisten" \in Steps
      /\ step \in [Threads -> Steps] /\ part \in [Threads -> Parts] /\ exc \in [Threads -> Excs]
  BY <1>1, StepNames DEF LocalsOK, ClientOK, Entries, Parts, Excs
<1>4. ASSUME NEW v \in {"running", "stopped", "stale"}, NEW e \in Seq(Entries),
             EndWindow(t, v, e), v = "running" => wire = <<>>
      PROVE  step'[t] \in Steps /\ Listened(t) /\ Turned(t)
  <2>1. queue' \in Seq(Entries)
    BY <1>3, <1>4 DEF EndWindow
  <2>2. /\ verdict' \in [Threads -> {"none", "running", "stopped", "stale"}] /\ verdict'[t] = v
        /\ \A u \in Threads \ {t} : verdict'[u] = verdict[u]
    BY <1>3, <1>4 DEF EndWindow
  <2>3. Turned(t) /\ step'[t] = "cdone"
    BY <1>1, <1>2, <1>3, <1>4, GotoTurns DEF EndWindow
  <2> QED BY <1>3, <1>4, <2>1, <2>2, <2>3 DEF Listened
<1>5. <<>> \in Seq(Entries)
  OBVIOUS
<1>6. ASSUME wire = <<>> PROVE Listened(t) /\ Turned(t) /\ wire' = wire
  <2>1. EndWindow(t, "running", <<>>) /\ UNCHANGED wire
    BY <1>6 DEF Listen
  <2> QED BY <1>4, <1>5, <1>6, <2>1
<1>7. ASSUME wire # <<>> PROVE Listened(t) /\ Turned(t) /\ Popped(t)
  <2> DEFINE f == Head(wire)
  <2>1. f \in Frames
    BY <1>7, WireHead
  <2>2. Queued(f) \in Seq(Entries)
    BY <1>3, <2>1, QueuedTypes
  <2>3. wire' = Tail(wire)
    BY <1>7 DEF Listen
  <2>4. (CASE f.type \in {"ckpt", "jam"} -> EndWindow(t, "stopped", Queued(f))
           [] f.type = "stopped" -> EndWindow(t, "stale", <<>>)
           [] OTHER -> UNCHANGED <<queue, verdict, step>>)
    BY <1>7 DEF Listen
  <2> HIDE DEF f
  <2>5. ASSUME f.type \in {"ckpt", "jam"} PROVE Listened(t) /\ Turned(t)
    BY <1>4, <2>2, <2>4, <2>5
  <2>6. ASSUME f.type = "stopped" PROVE Listened(t) /\ Turned(t)
    BY <1>4, <1>5, <2>4, <2>6
  <2>7. ASSUME f.type \notin {"ckpt", "jam", "stopped"} PROVE Listened(t) /\ Turned(t)
    <3>1. UNCHANGED <<queue, verdict, step>>
      BY <2>4, <2>7
    <3>2. Turned(t)
      BY <1>2, <1>3, <3>1 DEF Turned
    <3>3. ~ IsStop(Head(wire))
      BY <2>7 DEF IsStop, f
    <3> QED BY <1>1, <1>3, <1>7, <2>3, <3>1, <3>2, <3>3 DEF Listened
  <2> QED BY <1>1, <1>7, <2>3, <2>5, <2>6, <2>7 DEF Popped
<1>8. Listened(t) /\ Turned(t) /\ (wire' = wire \/ Popped(t))
  BY <1>6, <1>7
<1>9. LocalsOK' /\ OthersUnmoved(t)
  BY <1>1, <1>2, <1>8 DEF Listened, LocalsOK, OthersUnmoved, Turned, Excs, Parts
<1>10. ClientOK'
  BY <1>1, <1>2, <1>8 DEF ClientOK, Listened, Entries
<1>11. Framed(t)
  BY <1>1, <1>2, <1>8, <1>9, <1>10, StillFrame
<1> QED BY <1>1, <1>2, <1>8, <1>11 DEF Stays

LEMMA ConfirmedFrame ==
    ASSUME Conversation, NEW t \in Threads, Confirmed(t)
    PROVE  /\ Framed(t) /\ step[t] = "cdone" /\ want[t] = NoneOf
           /\ step'[t] \in {"cgo", "done"} /\ Turned(t) /\ Stays(t)
           /\ UNCHANGED <<socket, gen, queue, job, want, saved, bp, verdict, timeouts>>
<1>1. LocalsOK /\ ClientOK /\ want[t] = NoneOf /\ step[t] = "cdone" /\ lock = t
  BY WantNone DEF Conversation, TypeOK, Confirmed, LockedWhileWaiting
<1>2. UNCHANGED <<machine, socket, gen, queue, ids, job, part, want, exc, saved, bp, verdict, timeouts>>
      /\ lock' = NoThread
  BY DEF Confirmed, locals
<1>3. PICK s \in {"cgo", "done"} : Goto(t, s)
  BY DEF Confirmed
<1>4. s \in Steps
  BY StepNames
<1>5. Turned(t) /\ step'[t] = s /\ Stays(t)
  BY <1>1, <1>2, <1>3, <1>4, GotoTurns DEF Stays
<1>6. LocalsOK' /\ OthersUnmoved(t)
  BY <1>1, <1>2, <1>5, TurnedFrame DEF LocalsOK
<1>7. ClientOK'
  BY <1>1, <1>2 DEF ClientOK
<1>8. Framed(t)
  BY <1>1, <1>2, <1>6, <1>7, StillFrame DEF socket
<1> QED BY <1>1, <1>2, <1>3, <1>5, <1>8

LEMMA AskFrame ==
    ASSUME Conversation, NEW t \in Threads, Ask(t)
    PROVE  /\ Framed(t) /\ step[t] = "ask" /\ step' = step /\ want'[t] = -1
           /\ lock = NoThread /\ lock' = t /\ text' = "asked"
           /\ UNCHANGED <<reqs, wire, gen, queue, job, part, exc, saved, bp, verdict, timeouts>>
<1>1. LocalsOK /\ ClientOK /\ step[t] = "ask"
  BY DEF Conversation, TypeOK, Ask
<1>2. UNCHANGED <<machine, reqs, wire, gen, queue, ids, job, step, part, exc, saved, bp, verdict, timeouts>>
      /\ lock = NoThread /\ lock' = t /\ text' = "asked" /\ want' = [want EXCEPT ![t] = -1]
  BY DEF Ask, locals
<1>3. want'[t] = -1
  BY <1>1, <1>2 DEF LocalsOK
<1>4. LocalsOK' /\ OthersUnmoved(t)
  BY <1>1, <1>2 DEF LocalsOK, OthersUnmoved
<1>5. ClientOK'
  BY <1>1, <1>2 DEF ClientOK
<1>6. step'[t] \notin DOMAIN Command
  BY <1>1, <1>2, Commands
<1>7. Framed(t)
  BY <1>2, <1>4, <1>5, <1>6 DEF Framed
<1> QED BY <1>1, <1>2, <1>3, <1>7

LEMMA AskAnsweredFrame ==
    ASSUME Conversation, NEW t \in Threads, AskAnswered(t)
    PROVE  /\ Framed(t) /\ step[t] = "ask" /\ want'[t] = NoneOf
           /\ lock = t /\ lock' = NoThread /\ Ended(t, "none") /\ step'[t] = "done"
           /\ UNCHANGED <<reqs, wire, gen, queue, job, saved, bp, verdict, timeouts>>
<1>1. LocalsOK /\ ClientOK /\ step[t] = "ask" /\ want[t] # NoneOf /\ lock = t
  BY DEF Conversation, TypeOK, AskAnswered, LockedWhileWaiting
<1>2. UNCHANGED <<machine, reqs, wire, gen, queue, ids, job, saved, bp, verdict, timeouts>>
      /\ lock' = NoThread /\ text' = "none" /\ want' = [want EXCEPT ![t] = NoneOf]
  BY <1>1 DEF AskAnswered, locals
<1>3. "none" \in Excs
  BY DEF Excs
<1>4. Ended(t, "none")
  BY <1>1, <1>3, FinishEnds DEF AskAnswered
<1>5. /\ want' \in [Threads -> Nat \union {-1}] /\ want'[t] = NoneOf
      /\ \A u \in Threads \ {t} : want'[u] = want[u]
  BY <1>1, <1>2 DEF LocalsOK, NoneOf
<1>6. LocalsOK' /\ OthersUnmoved(t)
  BY <1>1, <1>2, <1>4, <1>5, TurnedFrame DEF Ended
<1>7. ClientOK'
  BY <1>1, <1>2 DEF ClientOK
<1>8. step'[t] = "done"
  BY <1>1, <1>4 DEF Ended
<1>9. Framed(t)
  BY <1>1, <1>2, <1>5, <1>6, <1>7 DEF Framed
<1> QED BY <1>1, <1>2, <1>4, <1>5, <1>8, <1>9

LEMMA ReceiveTimesOutFrame ==
    ASSUME Conversation, NEW t \in Threads, ReceiveTimesOut(t)
    PROVE  /\ Framed(t) /\ want[t] # NoneOf /\ want'[t] = NoneOf /\ lock = t /\ Failed(t)
           /\ timeouts' = timeouts + 1 /\ step[t] \in DOMAIN Command \union {"ask"}
           /\ UNCHANGED <<socket, gen, queue, job, saved, bp, verdict>>
<1>1. LocalsOK /\ ClientOK /\ SocketOK /\ want[t] # NoneOf /\ lock = t
  BY DEF Conversation, TypeOK, ReceiveTimesOut
<1>2. UNCHANGED <<machine, socket, gen, queue, ids, job, saved, bp, verdict>>
      /\ lock' = NoThread /\ timeouts' = timeouts + 1 /\ want' = [want EXCEPT ![t] = NoneOf]
  BY DEF ReceiveTimesOut, Raise
<1>3. "timeout" \in Excs \ {"none"} /\ "error" \in Excs \ {"none"}
  BY DEF Excs
<1>4. Failed(t)
  BY <1>1, <1>3, FailFails DEF ReceiveTimesOut, Raise
<1>5. /\ want' \in [Threads -> Nat \union {-1}] /\ want'[t] = NoneOf
      /\ \A u \in Threads \ {t} : want'[u] = want[u]
  BY <1>1, <1>2 DEF LocalsOK, NoneOf
<1>6. LocalsOK' /\ OthersUnmoved(t)
  BY <1>1, <1>2, <1>4, <1>5, TurnedFrame DEF Failed
<1>7. ClientOK'
  BY <1>1, <1>2 DEF ClientOK
<1>8. text' \in {"none", "asked", "answered"} /\ wire' = wire /\ UNCHANGED <<machine, reqs, ids>>
  BY <1>1, <1>2 DEF socket, SocketOK
<1>9. Framed(t)
  BY <1>1, <1>2, <1>5, <1>6, <1>7, <1>8 DEF Framed
<1>10. step[t] \in DOMAIN Command \union {"ask"}
  BY <1>1, WantNone, Commands, StepNames
<1> QED BY <1>1, <1>2, <1>4, <1>5, <1>9, <1>10

(* A frame that is not the awaited reply, or not the last of it, is kept    *)
(* for later and moves nobody.                                              *)
Passed(t) ==
    /\ UNCHANGED <<lock, want, step, part, exc, saved, bp, verdict>>
    /\ \/ queue' = Cat(queue, Queued(Head(wire)))
       \/ queue' = queue /\ ~ IsStop(Head(wire))

Replied(t) ==
    /\ Head(wire).id = want[t] /\ want'[t] = NoneOf /\ queue' = queue
    /\ Turned(t)
    /\ \/ /\ step[t] = "cgo" /\ step'[t] = "clisten" /\ lock' = lock /\ Stays(t)
          /\ UNCHANGED <<saved, bp, verdict>>
       \/ /\ step[t] # "cgo" /\ lock' = NoThread
          /\ SavedOnly(t) /\ After(t, Head(wire).val)

LEMMA ReceiveFrame ==
    ASSUME Conversation, NEW t \in Threads, Receive(t)
    PROVE  /\ Framed(t) /\ Popped(t) /\ Awaits(t)
           /\ Passed(t) \/ Replied(t)
           /\ UNCHANGED <<reqs, text, gen, job, timeouts>>
<1>1. LocalsOK /\ ClientOK /\ SocketOK /\ want[t] # NoneOf /\ Popped(t) /\ step[t] \in DOMAIN Command
  BY DEF Conversation, TypeOK, Receive, Popped
<1>2. UNCHANGED <<machine, reqs, text, gen, ids, job, timeouts>>
  BY DEF Receive
<1> DEFINE f == Head(wire)
<1>3. wire # <<>> /\ want[t] \in Nat
  BY <1>1, WantNone DEF Popped
<1>4. f \in Frames /\ f.id \in Nat /\ (f.id # NoneOf => f.val \in Ctx /\ ~ IsStop(f))
  BY <1>3, WireHead
<1>5. IF f.id = want[t]
       THEN /\ UNCHANGED queue
            /\ IF MoreFollows(t, f)
               THEN UNCHANGED <<lock, want, step, part, exc, saved, bp, verdict>>
               ELSE /\ want' = [want EXCEPT ![t] = NoneOf]
                    /\ IF step[t] = "cgo"
                       THEN Goto(t, "clisten") /\ UNCHANGED <<lock, part, exc, saved, bp, verdict>>
                       ELSE lock' = NoThread /\ Answered(t, f.val)
       ELSE /\ queue' = queue \o Queued(f)
            /\ UNCHANGED <<lock, want, step, part, exc, saved, bp, verdict>>
  BY DEF Receive
<1> HIDE DEF f
<1>6. queue \in Seq(Entries) /\ gen \in Nat /\ Queued(f) \in Seq(Entries)
  BY <1>1, <1>4, QueuedTypes DEF ClientOK, Entries
<1>7. ASSUME f.id = want[t], MoreFollows(t, f) PROVE Passed(t) /\ queue' \in Seq(Entries)
  <2>1. queue' = queue /\ UNCHANGED <<lock, want, step, part, exc, saved, bp, verdict>>
    BY <1>5, <1>7
  <2>2. ~ IsStop(f)
    BY <1>1, <1>4, <1>7
  <2> QED BY <1>6, <2>1, <2>2 DEF Passed, f
<1>8. ASSUME f.id # want[t] PROVE Passed(t) /\ queue' \in Seq(Entries)
  <2>1. queue' = queue \o Queued(f) /\ UNCHANGED <<lock, want, step, part, exc, saved, bp, verdict>>
    BY <1>5, <1>8
  <2>2. queue' \in Seq(Entries)
    BY <1>6, <2>1
  <2> QED BY <2>1, <2>2 DEF Passed, Cat, f
<1>9. ASSUME f.id = want[t], ~ MoreFollows(t, f)
      PROVE  /\ Replied(t) /\ queue' \in Seq(Entries) /\ OthersUnmoved(t) /\ LocalsOK'
             /\ want'[t] = NoneOf /\ lock' \in {lock, NoThread}
  <2>1. queue' = queue /\ want' = [want EXCEPT ![t] = NoneOf]
    BY <1>5, <1>9
  <2>2. /\ want' \in [Threads -> Nat \union {-1}] /\ want'[t] = NoneOf
        /\ \A u \in Threads \ {t} : want'[u] = want[u]
    BY <1>1, <2>1 DEF LocalsOK, NoneOf
  <2>3. ASSUME step[t] = "cgo"
        PROVE  Replied(t) /\ OthersUnmoved(t) /\ LocalsOK' /\ lock' = lock
    <3>1. Goto(t, "clisten") /\ UNCHANGED <<lock, part, exc, saved, bp, verdict>>
      BY <1>5, <1>9, <2>3
    <3>2. "clisten" \in Steps
      BY StepNames
    <3>3. Turned(t) /\ step'[t] = "clisten" /\ Stays(t)
      BY <1>1, <3>1, <3>2, GotoTurns DEF Stays
    <3>4. LocalsOK' /\ OthersUnmoved(t)
      BY <1>1, <1>2, <2>2, <3>1, <3>3, TurnedFrame
    <3> QED BY <1>9, <2>1, <2>2, <2>3, <3>1, <3>3, <3>4 DEF Replied, f
  <2>4. ASSUME step[t] # "cgo"
        PROVE  Replied(t) /\ OthersUnmoved(t) /\ LocalsOK' /\ lock' = NoThread
    <3>1. lock' = NoThread /\ Answered(t, f.val)
      BY <1>5, <1>9, <2>4
    <3>2. f.val \in Ctx
      BY <1>1, <1>4, <1>9
    <3>3. Turned(t) /\ SavedOnly(t) /\ After(t, f.val)
      BY <1>1, <1>3, <2>4, <3>1, <3>2, AnsweredTurns
    <3>4. LocalsOK' /\ OthersUnmoved(t)
      BY <1>1, <1>2, <2>2, <3>3, TurnedFrame
    <3> QED BY <1>9, <2>1, <2>2, <2>4, <3>1, <3>3, <3>4 DEF Replied, f
  <2> QED BY <1>6, <2>1, <2>2, <2>3, <2>4
<1>10. ASSUME Passed(t), queue' \in Seq(Entries)
       PROVE  Framed(t) /\ Awaits(t) /\ (Passed(t) \/ Replied(t))
  <2>1. UNCHANGED <<lock, want, step, part, exc, saved, bp, verdict>>
    BY <1>10 DEF Passed
  <2>2. LocalsOK' /\ OthersUnmoved(t)
    BY <1>1, <1>2, <2>1 DEF LocalsOK, OthersUnmoved
  <2>3. ClientOK'
    BY <1>1, <1>2, <1>10, <2>1 DEF ClientOK, Entries
  <2>4. Kept(t)
    BY <1>2, <2>1 DEF Kept
  <2>5. Framed(t)
    BY <1>1, <1>2, <2>1, <2>2, <2>3, <2>4, StillFrame
  <2> QED BY <1>1, <1>10, <2>5 DEF Awaits
<1>11. ASSUME Replied(t), queue' \in Seq(Entries), OthersUnmoved(t), LocalsOK',
              want'[t] = NoneOf, lock' \in {lock, NoThread}
       PROVE  Framed(t) /\ Awaits(t) /\ (Passed(t) \/ Replied(t))
  <2>1. ClientOK'
    BY <1>1, <1>2, <1>11 DEF ClientOK, Entries
  <2>2. lock' = lock \/ lock \in {t, NoThread}
    BY <1>1 DEF Popped
  <2>3. Framed(t)
    BY <1>1, <1>2, <1>11, <2>1, <2>2, StillFrame
  <2> QED BY <1>1, <1>11, <2>3 DEF Awaits
<1> QED BY <1>1, <1>2, <1>7, <1>8, <1>9, <1>10, <1>11

-----------------------------------------------------------------------------
(* The conversation.                                                        *)
Sent(t) ==
    /\ want[t] = NoneOf /\ lock = NoThread /\ lock' = t
    /\ ids' = ids + 1 /\ want'[t] = ids /\ OthersUnmoved(t) /\ Stays(t)
    /\ step' = step /\ job' = job /\ saved' = saved /\ bp' = bp
    /\ step[t] \in DOMAIN Command
    /\ gen' = gen \/ step[t] = "cgo"
    /\ reqs' \in Seq(Requests) /\ reqs' # <<>> /\ DOMAIN reqs' = 1 .. (Len(reqs) + 1)
    /\ Len(reqs') = Len(reqs) + 1 /\ Len(reqs) \in Nat /\ DOMAIN reqs = 1 .. Len(reqs)
    /\ \A i \in 1 .. Len(reqs) : reqs'[i] = reqs[i]
    /\ LET r == reqs'[Len(reqs) + 1]
       IN  /\ r.id = ids /\ r.cmd = Command[step[t]] /\ r.code = part[t]
           /\ r.regs = saved[t] /\ r.bp = bp[t]
    /\ UNCHANGED <<machine, wire, text, queue, part, exc, verdict, timeouts>>

LEMMA SendFrame ==
    ASSUME Conversation, NEW t \in Threads, Send(t)
    PROVE  Sent(t) /\ LocalsOK' /\ ClientOK' /\ SocketOK'
<1>1. LocalsOK /\ ClientOK /\ SocketOK /\ want[t] = NoneOf /\ lock = NoThread /\ step[t] \in DOMAIN Command
  BY DEF Conversation, TypeOK, Send
<1>2. /\ UNCHANGED <<machine, wire, text, queue, job, step, part, exc, saved, bp, verdict, timeouts>>
      /\ lock' = t /\ ids' = ids + 1 /\ want' = [want EXCEPT ![t] = ids]
  BY DEF Send
<1> DEFINE r == [id |-> ids, cmd |-> Command[step[t]], code |-> part[t],
                 regs |-> saved[t], bp |-> bp[t]]
<1>3. reqs' = Append(reqs, r)
  BY DEF Send
<1>4. /\ ids \in Nat \ {NoneOf} /\ part[t] \in {"call", "probe"} /\ saved[t] \in Ctx /\ bp[t] \in Nat
      /\ Command[step[t]] \in {Command[s] : s \in DOMAIN Command}
      /\ reqs \in Seq(Requests) /\ gen \in Nat
  BY <1>1 DEF LocalsOK, ClientOK, SocketOK
<1>5. r \in Requests /\ r.id = ids /\ r.cmd = Command[step[t]] /\ r.code = part[t]
      /\ r.regs = saved[t] /\ r.bp = bp[t]
  BY <1>4 DEF Requests
<1> HIDE DEF r
<1>6. /\ reqs' \in Seq(Requests) /\ reqs' # <<>> /\ DOMAIN reqs' = 1 .. (Len(reqs) + 1)
      /\ Len(reqs') = Len(reqs) + 1 /\ Len(reqs) \in Nat /\ DOMAIN reqs = 1 .. Len(reqs)
      /\ \A i \in 1 .. Len(reqs) : reqs'[i] = reqs[i]
      /\ reqs'[Len(reqs) + 1] = r
  BY <1>3, <1>4, <1>5, SeqAppend, SeqDomain
<1>7. /\ want' \in [Threads -> Nat \union {-1}] /\ want'[t] = ids
      /\ \A u \in Threads \ {t} : want'[u] = want[u]
  BY <1>1, <1>2, <1>4 DEF LocalsOK
<1>8. LocalsOK' /\ OthersUnmoved(t)
  BY <1>1, <1>2, <1>7 DEF LocalsOK, OthersUnmoved
<1>9. gen' \in Nat /\ (gen' = gen \/ step[t] = "cgo")
  BY <1>4 DEF Send
<1>10. ClientOK' /\ SocketOK'
  BY <1>1, <1>2, <1>4, <1>6, <1>9 DEF ClientOK, SocketOK, NoneOf
<1> QED BY <1>1, <1>2, <1>5, <1>6, <1>7, <1>8, <1>9, <1>10 DEF Sent, Stays

(* VICE, other than serving a request: it adds events and nothing else.     *)
Events ==
    /\ UNCHANGED <<reqs, client, callers, timeouts>>
    /\ wire' \in Seq(Frames) /\ Grown(wire, wire')
    /\ \A j \in DOMAIN wire' : j > Len(wire) => wire'[j].id = NoneOf
    /\ mode' = "halt" => mode = "halt" \/ NewStop

LEMMA EventsOfVice ==
    ASSUME TypeOK, Running \/ ServiceText PROVE Events
<1>1. mode \in {"run", "halt"}
  BY DEF TypeOK, MachineOK
<1>2. CASE Running
  BY <1>2, RunEffect DEF Events
<1>3. CASE ServiceText
  BY <1>1, <1>3, TextEffect DEF Events
<1> QED BY <1>2, <1>3

LEMMA ViceKeepsTypes ==
    ASSUME TypeOK, Vice PROVE TypeOK'
<1>0. MachineOK /\ SocketOK /\ ClientOK /\ LocalsOK
  BY DEF TypeOK
<1>1. CASE Running
  <2>1. /\ Machine' /\ wire' \in Seq(Frames)
        /\ UNCHANGED <<code, bps, spare, hijacked, reqs, text, client, callers, jobs, timeouts>>
    BY <1>1, RunEffect
  <2>2. MachineOK' /\ SocketOK'
    BY <1>0, <2>1 DEF MachineOK, SocketOK, Machine
  <2>3. ClientOK' /\ LocalsOK'
    BY <1>0, <2>1 DEF ClientOK, LocalsOK, client, callers, locals
  <2> QED BY <2>2, <2>3 DEF TypeOK
<1>2. CASE ServiceText
  <2>1. /\ text' = "answered" /\ mode' = "halt" /\ wire' \in Seq(Frames) /\ spare' \in 0 .. MaxSpare
        /\ UNCHANGED <<ctx, code, bps, ran, hijacked, reqs, client, callers, jobs, timeouts>>
    BY <1>2, TextEffect
  <2>2. MachineOK' /\ SocketOK'
    BY <1>0, <2>1 DEF MachineOK, SocketOK
  <2>3. ClientOK' /\ LocalsOK'
    BY <1>0, <2>1 DEF ClientOK, LocalsOK, client, callers, locals
  <2> QED BY <2>2, <2>3 DEF TypeOK
<1>3. CASE Service
  <2> DEFINE r == Head(reqs)
  <2>1. /\ reqs # <<>> /\ r \in Requests /\ reqs' = Tail(reqs)
        /\ Carried(r) /\ Told(r) /\ spare' \in 0 .. MaxSpare
        /\ UNCHANGED <<text, client, callers, jobs, timeouts>>
    BY <1>3, ServiceEffect
  <2>2. r.id \in Nat \ {NoneOf} /\ r.code \in {"call", "probe"} /\ r.regs \in Ctx
    BY <2>1, RequestFields
  <2> HIDE DEF r
  <2>3. reqs' \in Seq(Requests) /\ wire' \in Seq(Frames)
    BY <1>0, <2>1, SeqTail DEF SocketOK, Told
  <2>4. bps' \subseteq Nat \ {NoneOf} /\ IsFiniteSet(bps')
    <3>1. bps' \in {bps \union {r.id}, bps \ {r.bp}, bps}
      BY <2>1 DEF Carried
    <3>2. IsFiniteSet(bps \union {r.id}) /\ IsFiniteSet(bps \ {r.bp}) /\ bps \subseteq Nat \ {NoneOf}
      BY <1>0, FS_AddElement, FS_RemoveElement DEF MachineOK
    <3> QED BY <1>0, <2>2, <3>1, <3>2 DEF MachineOK
  <2>5. ctx' \in Ctx
    <3>1. ctx \in Ctx /\ ctx.at \in Places /\ "scratch" \in Places
      BY <1>0, CtxFields DEF MachineOK, Places
    <3>2. [ctx EXCEPT !.at = "scratch"] \in Ctx /\ [r.regs EXCEPT !.at = ctx.at] \in Ctx
      BY <2>2, <3>1, CtxFields
    <3> QED BY <2>1, <2>2, <3>1, <3>2 DEF Carried
  <2>6. code' \in {"none", "call", "probe"} /\ hijacked' \in Ctx /\ ran' \in BOOLEAN /\ mode' \in {"run", "halt"}
    BY <1>0, <2>1, <2>2 DEF Carried, MachineOK
  <2>7. MachineOK' /\ SocketOK'
    BY <1>0, <2>1, <2>3, <2>4, <2>5, <2>6 DEF MachineOK, SocketOK
  <2>8. ClientOK' /\ LocalsOK'
    BY <1>0, <2>1 DEF ClientOK, LocalsOK, client, callers, locals
  <2> QED BY <2>7, <2>8 DEF TypeOK
<1> QED BY <1>1, <1>2, <1>3 DEF Vice, Running

(* Wherever a caller goes, its step is one of its job.                      *)
Settled(t) == step'[t] \in {"idle", "jamread", "wait", "scan", "bump", "go", "done"}

LEMMA StepsFit ==
    ASSUME NEW t \in Threads, StepsOfJob(t), UNCHANGED job, bp'[t] = bp[t],
           \/ Settled(t) \/ Ended(t, "none") \/ AfterStop(t) \/ Failed(t)
           \/ (IsJsr(t) /\ Once(t, exc[t]))
           \/ Kept(t)
    PROVE  StepsOfJob(t)'
<1>1. IsJsr(t)' <=> IsJsr(t)
  BY DEF IsJsr
<1>2. bp'[t] # NoneOf => IsJsr(t)'
  BY <1>1 DEF StepsOfJob
<1>3. CASE Settled(t)
  BY <1>1, <1>2, <1>3 DEF Settled, StepsOfJob
<1>4. CASE Ended(t, "none")
  BY <1>1, <1>2, <1>4 DEF Ended, StepsOfJob
<1>5. CASE AfterStop(t)
  BY <1>1, <1>2, <1>5 DEF AfterStop, Ended, StepsOfJob
<1>6. CASE Failed(t)
  BY <1>1, <1>2, <1>6 DEF Failed, StepsOfJob
<1>7. CASE IsJsr(t) /\ Once(t, exc[t])
  BY <1>1, <1>2, <1>7 DEF Once, StepsOfJob, SavesCaller
<1>8. CASE Kept(t)
  BY <1>1, <1>2, <1>8 DEF Kept, StepsOfJob
<1> QED BY <1>3, <1>4, <1>5, <1>6, <1>7, <1>8

(* The window opens with the reply to the EXIT and closes as "running" only *)
(* on an empty socket.                                                      *)
Opened(t) ==
    /\ Popped(t)
    /\ \/ step[t] = "clisten" /\ ~ IsStop(Head(wire))
       \/ step[t] = "cgo" /\ Awaits(t) /\ Head(wire).id = want[t]

Closed(t) == step[t] = "clisten" /\ (verdict'[t] = "running" => wire = <<>>)

Fits(t) ==
    /\ StepsOfJob(t)' /\ LockedWhileWaiting(t)'
    /\ step'[t] \in {"clisten", "cdone"} => reqs = <<>>
    /\ step'[t] = "clisten" => Opened(t)
    /\ step'[t] = "cdone" => Closed(t)

LEMMA FitsQuietly ==
    ASSUME NEW t \in Threads, StepsOfJob(t)', want'[t] = NoneOf,
           step'[t] \notin {"clisten", "cdone"}
    PROVE  Fits(t)
  BY DEF Fits, LockedWhileWaiting, NoneOf

LEMMA CallerFits ==
    ASSUME Conversation, NEW t \in Threads, Caller(t), ~ Send(t)
    PROVE  Framed(t) /\ Fits(t)
<1>0. StepsOfJob(t) /\ LockedWhileWaiting(t) /\ OwnRequestIsLast(t) /\ part \in [Threads -> Parts]
  BY DEF Conversation, TypeOK, LocalsOK, Parts
<1>1. CASE Begin(t)
  <2>1. /\ Framed(t) /\ part'[t] = "call" /\ exc'[t] = "none" /\ bp'[t] = NoneOf /\ want'[t] = NoneOf
        /\ \E j \in Jobs : j \in JobsOf[t] /\ job'[t] = j /\ step'[t] = FirstStep(j)
    BY <1>1, BeginFrame
  <2>2. PICK j \in Jobs : job'[t] = j /\ step'[t] = FirstStep(j)
    BY <2>1
  <2>3. StepsOfJob(t)' /\ step'[t] \notin {"clisten", "cdone"}
    BY <2>1, <2>2, FirstSteps DEF StepsOfJob, IsJsr
  <2> QED BY <2>1, <2>3, FitsQuietly
<1>2. CASE Bump(t)
  <2>1. /\ Framed(t) /\ want[t] = NoneOf /\ UNCHANGED <<job, want, bp>>
        /\ step'[t] \in {"adv", "go"}
        /\ step'[t] = "adv" => job[t] = "step"
    BY <1>2, BumpFrame
  <2>2. StepsOfJob(t)'
    BY <1>0, <2>1 DEF StepsOfJob, IsJsr
  <2> QED BY <2>1, <2>2, FitsQuietly
<1>3. CASE Receive(t)
  <2>1. Framed(t) /\ Popped(t) /\ Awaits(t) /\ job' = job /\ (Passed(t) \/ Replied(t))
    BY <1>3, ReceiveFrame
  <2>2. CASE Passed(t)
    <3>1. Kept(t) /\ lock' = lock /\ bp' = bp
      BY <2>1, <2>2 DEF Passed, Kept
    <3>2. StepsOfJob(t)'
      BY <1>0, <2>1, <3>1, StepsFit
    <3>3. LockedWhileWaiting(t)' /\ step'[t] \notin {"clisten", "cdone"}
      BY <1>0, <2>1, <3>1, Commands DEF LockedWhileWaiting, Kept, Awaits
    <3> QED BY <2>1, <3>2, <3>3 DEF Fits
  <2>3. CASE Replied(t)
    <3>1. want'[t] = NoneOf /\ Head(wire).id = want[t] /\ wire # <<>>
      BY <2>1, <2>3 DEF Replied, Popped
    <3>2. reqs = <<>>
      BY <1>0, <2>1, <3>1, WireHead DEF OwnRequestIsLast
    <3>3. ASSUME step[t] = "cgo" PROVE Fits(t)
      <4>1. step'[t] = "clisten" /\ lock' = lock /\ Stays(t) /\ UNCHANGED <<saved, bp, verdict>>
        BY <2>3, <3>3 DEF Replied
      <4>2. StepsOfJob(t)'
        BY <1>0, <2>1, <3>3, <4>1 DEF StepsOfJob, IsJsr
      <4>3. LockedWhileWaiting(t)'
        BY <2>1, <3>1, <4>1 DEF LockedWhileWaiting, Popped, NoneOf
      <4>4. Opened(t)
        BY <2>1, <3>1, <3>3 DEF Opened
      <4> QED BY <3>2, <4>1, <4>2, <4>3, <4>4 DEF Fits
    <3>4. ASSUME step[t] # "cgo" PROVE Fits(t)
      <4> DEFINE val == Head(wire).val
      <4>1. SavedOnly(t) /\ After(t, val) /\ step[t] \in DOMAIN Command
        BY <2>1, <2>3, <3>4 DEF Replied, Awaits
      <4>2. step[t] # "ck" => bp'[t] = bp[t]
        BY <4>1 DEF SavedOnly
      <4> HIDE DEF val
      <4>3. ASSUME step[t] \in {"rd0"} PROVE StepsOfJob(t)' /\ step'[t] \notin {"clisten", "cdone"}
        <5>1. CASE Ended(t, "none")
          BY <1>0, <2>1, <4>2, <4>3, <5>1, StepsFit DEF Ended
        <5>2. CASE IsJsr(t) /\ step'[t] = "wr" /\ part'[t] = part[t]
          BY <1>0, <2>1, <4>2, <4>3, <5>2 DEF StepsOfJob, IsJsr
        <5> QED BY <4>1, <4>3, <5>1, <5>2 DEF After
      <4>4. ASSUME step[t] \in {"wr", "pc", "go", "adv", "rst", "hread", "hset", "mget"}
            PROVE  StepsOfJob(t)' /\ step'[t] \notin {"clisten", "cdone"}
        <5>1. part'[t] = part[t] /\ bp'[t] = bp[t]
          BY <4>1, <4>2, <4>4 DEF After, Straight
        <5>2. /\ step[t] = "wr" => step'[t] = "ck"
              /\ step[t] = "pc" => step'[t] = "bump"
              /\ step[t] = "go" => \/ step'[t] = "mget" /\ job[t] = "watch"
                                   \/ step'[t] = "scan" /\ job[t] # "watch"
              /\ step[t] = "adv" => step'[t] = "scan"
              /\ step[t] = "rst" => step'[t] = "done"
              /\ step[t] = "hread" => step'[t] = "hset"
              /\ step[t] = "hset" => step'[t] = "wr"
              /\ step[t] = "mget" => step'[t] \in {"cgo", "bump"}
          BY <4>1 DEF After
        <5> QED BY <1>0, <2>1, <4>4, <5>1, <5>2 DEF StepsOfJob, IsJsr
      <4>5. ASSUME step[t] = "ck" PROVE StepsOfJob(t)' /\ step'[t] \notin {"clisten", "cdone"}
        <5>1. step'[t] = "pc" /\ part'[t] = part[t]
          BY <4>1, <4>5 DEF After, Straight
        <5> QED BY <1>0, <2>1, <4>5, <5>1 DEF StepsOfJob, IsJsr
      <4>6. ASSUME step[t] = "rd1" PROVE StepsOfJob(t)' /\ step'[t] \notin {"clisten", "cdone"}
        <5>1. CASE Failed(t)
          BY <1>0, <2>1, <4>2, <4>6, <5>1, StepsFit DEF Failed
        <5>2. CASE step'[t] = "del" /\ part'[t] = part[t]
          BY <1>0, <2>1, <4>2, <4>6, <5>2 DEF StepsOfJob, IsJsr
        <5> QED BY <4>1, <4>6, <5>1, <5>2 DEF After
      <4>7. ASSUME step[t] = "del" PROVE StepsOfJob(t)' /\ step'[t] \notin {"clisten", "cdone"}
        <5>1. IsJsr(t) /\ Once(t, exc[t]) /\ bp'[t] = bp[t]
          BY <1>0, <4>1, <4>2, <4>7 DEF StepsOfJob, After
        <5> QED BY <1>0, <2>1, <5>1, StepsFit DEF Once
      <4>8. ASSUME step[t] \in {"jamread", "list"}
            PROVE  StepsOfJob(t)' /\ step'[t] \notin {"clisten", "cdone"}
        <5>1. (Failed(t) \/ Ended(t, "none")) /\ bp'[t] = bp[t]
          BY <4>1, <4>2, <4>8 DEF After
        <5> QED BY <1>0, <2>1, <5>1, StepsFit DEF Failed, Ended
      <4>9. StepsOfJob(t)' /\ step'[t] \notin {"clisten", "cdone"}
        BY <3>4, <4>1, <4>3, <4>4, <4>5, <4>6, <4>7, <4>8, Commands
      <4> QED BY <3>1, <4>9, FitsQuietly
    <3> QED BY <2>1, <3>3, <3>4
  <2> QED BY <2>1, <2>2, <2>3
<1>4. CASE ReceiveTimesOut(t)
  <2>1. Framed(t) /\ want'[t] = NoneOf /\ Failed(t) /\ UNCHANGED <<job, bp>>
    BY <1>4, ReceiveTimesOutFrame
  <2>2. StepsOfJob(t)' /\ step'[t] \notin {"clisten", "cdone"}
    BY <1>0, <2>1, StepsFit DEF Failed
  <2> QED BY <2>1, <2>2, FitsQuietly
<1>5. CASE Scan(t)
  <2>1. Framed(t) /\ want[t] = NoneOf /\ Looked(t) /\ UNCHANGED <<job, want, bp>>
    BY <1>5, ScanFrame
  <2>2. Settled(t) \/ AfterStop(t) \/ Failed(t)
    BY <2>1 DEF Looked, Settled
  <2>3. StepsOfJob(t)' /\ step'[t] \notin {"clisten", "cdone"}
    BY <1>0, <2>1, <2>2, StepsFit DEF Settled, AfterStop, Ended, Failed
  <2> QED BY <2>1, <2>3, FitsQuietly
<1>6. CASE WaitLock(t)
  <2>1. Framed(t) /\ step[t] = "wait" /\ want[t] = NoneOf /\ UNCHANGED callers
    BY <1>6, WaitLockFrame
  <2>2. UNCHANGED <<job, step, want, bp>>
    BY <2>1 DEF callers, locals
  <2>3. StepsOfJob(t)' /\ step'[t] \notin {"clisten", "cdone"}
    BY <1>0, <2>1, <2>2, StepsFit DEF Settled
  <2> QED BY <2>1, <2>2, <2>3, FitsQuietly
<1>7. CASE WaitReceive(t)
  <2>1. Framed(t) /\ want[t] = NoneOf /\ Read(t) /\ UNCHANGED <<job, want, bp>>
    BY <1>7, WaitReceiveFrame
  <2>2. Settled(t) \/ AfterStop(t) \/ Failed(t)
    BY <2>1 DEF Read, Settled
  <2>3. StepsOfJob(t)' /\ step'[t] \notin {"clisten", "cdone"}
    BY <1>0, <2>1, <2>2, StepsFit DEF Settled, AfterStop, Ended, Failed
  <2> QED BY <2>1, <2>3, FitsQuietly
<1>8. CASE WaitTimesOut(t)
  <2>1. Framed(t) /\ want[t] = NoneOf /\ Failed(t) /\ UNCHANGED <<job, want, bp>>
    BY <1>8, WaitTimesOutFrame
  <2>2. StepsOfJob(t)' /\ step'[t] \notin {"clisten", "cdone"}
    BY <1>0, <2>1, StepsFit DEF Failed
  <2> QED BY <2>1, <2>2, FitsQuietly
<1>9. CASE Listen(t)
  <2>1. /\ Framed(t) /\ step[t] = "clisten" /\ want[t] = NoneOf /\ lock = t /\ lock' = lock
        /\ Listened(t) /\ UNCHANGED <<job, want, bp>> /\ Stays(t)
    BY <1>9, ListenFrame
  <2>2. StepsOfJob(t)'
    BY <1>0, <2>1 DEF Listened, StepsOfJob, IsJsr
  <2>3. LockedWhileWaiting(t)' /\ reqs = <<>>
    BY <1>0, <2>1 DEF LockedWhileWaiting, OwnRequestIsLast, NoneOf
  <2>4. /\ step'[t] = "clisten" => Opened(t)
        /\ step'[t] = "cdone" => Closed(t)
    BY <2>1 DEF Listened, Opened, Closed, Popped
  <2> QED BY <2>1, <2>2, <2>3, <2>4 DEF Fits
<1>10. CASE Confirmed(t)
  <2>1. /\ Framed(t) /\ step[t] = "cdone" /\ want[t] = NoneOf /\ UNCHANGED <<job, want, bp>>
        /\ step'[t] \in {"cgo", "done"} /\ Stays(t)
    BY <1>10, ConfirmedFrame
  <2>2. StepsOfJob(t)'
    BY <1>0, <2>1 DEF StepsOfJob, IsJsr
  <2> QED BY <2>1, <2>2, FitsQuietly
<1>11. CASE Ask(t)
  <2>1. /\ Framed(t) /\ step[t] = "ask" /\ step' = step /\ want'[t] = -1 /\ lock' = t
        /\ UNCHANGED <<job, bp>>
    BY <1>11, AskFrame
  <2>2. StepsOfJob(t)'
    BY <1>0, <2>1 DEF StepsOfJob, IsJsr
  <2>3. LockedWhileWaiting(t)'
    BY <2>1 DEF LockedWhileWaiting, NoneOf
  <2>4. step'[t] \notin {"clisten", "cdone"}
    BY <2>1
  <2> QED BY <2>1, <2>2, <2>3, <2>4 DEF Fits
<1>12. CASE AskAnswered(t)
  <2>1. /\ Framed(t) /\ want'[t] = NoneOf /\ Ended(t, "none") /\ step'[t] = "done"
        /\ UNCHANGED <<job, bp>>
    BY <1>12, AskAnsweredFrame
  <2>2. StepsOfJob(t)'
    BY <1>0, <2>1, StepsFit
  <2> QED BY <2>1, <2>2, FitsQuietly
<1> QED BY <1>1, <1>2, <1>3, <1>4, <1>5, <1>6, <1>7, <1>8, <1>9, <1>10, <1>11, <1>12 DEF Caller

LEMMA PoppedWire ==
    ASSUME Conversation, NEW t \in Threads, wire' = wire \/ Popped(t)
    PROVE  /\ wire' \in Seq(Frames)
           /\ \A i \in DOMAIN wire' : \E j \in DOMAIN wire : wire'[i] = wire[j]
<1>1. wire \in Seq(Frames)
  BY DEF Conversation, TypeOK, SocketOK
<1>2. CASE wire' = wire
  BY <1>1, <1>2
<1>3. CASE Popped(t)
  <2>1. wire # <<>> /\ wire' = Tail(wire)
    BY <1>3 DEF Popped
  <2>2. wire' \in Seq(Frames) /\ DOMAIN wire' = 1 .. (Len(wire) - 1) /\ Len(wire) \in Nat
        /\ DOMAIN wire = 1 .. Len(wire) /\ \A i \in 1 .. (Len(wire) - 1) : wire'[i] = wire[i + 1]
    BY <2>1, WireHead
  <2> QED BY <2>2
<1> QED BY <1>2, <1>3

LEMMA FramedKeepsConversation ==
    ASSUME Conversation, NEW t \in Threads, Framed(t), Fits(t)
    PROVE  Conversation'
<1>1. TypeOK'
  <2>1. MachineOK /\ SocketOK
    BY DEF Conversation, TypeOK
  <2>2. UNCHANGED machine /\ reqs' = reqs /\ wire' \in Seq(Frames)
    BY PoppedWire DEF Framed
  <2>3. MachineOK'
    BY <2>1, <2>2 DEF MachineOK, machine
  <2>4. SocketOK'
    BY <2>1, <2>2 DEF SocketOK, Framed
  <2> QED BY <2>3, <2>4 DEF TypeOK, Framed
<1>2. /\ reqs' = reqs /\ ids' = ids /\ ids \in Nat \ {NoneOf}
      /\ \A i \in DOMAIN wire' : \E j \in DOMAIN wire : wire'[i] = wire[j]
      /\ \A u \in Threads \ {t} : want'[u] = want[u] /\ step'[u] = step[u] /\ job'[u] = job[u]
                                  /\ part'[u] = part[u] /\ saved'[u] = saved[u] /\ bp'[u] = bp[u]
      /\ IdsInOrder
  BY PoppedWire DEF Framed, OthersUnmoved, Conversation, TypeOK, ClientOK
<1>3. ASSUME NEW u \in Threads \ {t} PROVE StepsOfJob(u)' /\ LockedWhileWaiting(u)' /\ OwnRequestIsLast(u)'
  <2>0. StepsOfJob(u) /\ LockedWhileWaiting(u) /\ OwnRequestIsLast(u)
    BY DEF Conversation
  <2>1. StepsOfJob(u)'
    BY <1>2, <2>0 DEF StepsOfJob, IsJsr
  <2>2. LockedWhileWaiting(u)'
    <3>1. want[u] # NoneOf \/ step[u] \in {"clisten", "cdone"} => lock' = u
      BY <2>0, MonitorAssumption DEF LockedWhileWaiting, Framed
    <3> QED BY <1>2, <2>0, <3>1 DEF LockedWhileWaiting
  <2>3. OwnRequestIsLast(u)'
    <3>1. Awaits(u)' <=> Awaits(u)
      BY <1>2 DEF Awaits
    <3>2. Own(u, reqs[Len(reqs)])' <=> Own(u, reqs[Len(reqs)])
      BY <1>2 DEF Own
    <3> QED BY <1>2, <2>0, <3>1, <3>2 DEF OwnRequestIsLast
  <2> QED BY <2>1, <2>2, <2>3
<1>4. OwnRequestIsLast(t)'
  <2>0. OwnRequestIsLast(t)
    BY DEF Conversation
  <2>1. ASSUME Awaits(t)'
        PROVE  Awaits(t) /\ Kept(t)
    BY <2>1 DEF Framed, Awaits, Kept
  <2>2. ASSUME Kept(t) PROVE Own(t, reqs[Len(reqs)])' <=> Own(t, reqs[Len(reqs)])
    BY <1>2, <2>2 DEF Own, Kept
  <2>3. Awaits(t)' =>
              /\ reqs' # <<>> => Own(t, reqs[Len(reqs)])'
              /\ \A i \in DOMAIN reqs' : i < Len(reqs') => reqs'[i].id # want'[t]
              /\ \A i \in DOMAIN wire' : wire'[i].id = want'[t] => reqs' = <<>>
    BY <1>2, <2>0, <2>1, <2>2 DEF OwnRequestIsLast, Kept
  <2> QED BY <1>2, <2>3 DEF OwnRequestIsLast, Fits
<1>5. IdsInOrder'
  <2>1. want'[t] < ids
    <3>1. CASE want'[t] # NoneOf /\ step'[t] \in DOMAIN Command
      BY <1>2, <3>1 DEF Framed, Kept, IdsInOrder
    <3>2. CASE want'[t] = NoneOf
      BY <1>2, <3>2 DEF NoneOf
    <3>3. CASE want'[t] # NoneOf /\ step'[t] \notin DOMAIN Command
      <4>1. want'[t] \in Nat \union {-1}
        BY DEF Framed, LocalsOK
      <4>2. ~ (want'[t] > NoneOf)
        BY <3>3 DEF Fits, LockedWhileWaiting
      <4> QED BY <1>2, <4>1, <4>2 DEF NoneOf
    <3> QED BY <3>1, <3>2, <3>3
  <2> QED BY <1>2, <2>1 DEF IdsInOrder
<1> QED BY <1>1, <1>3, <1>4, <1>5 DEF Conversation, Fits

LEMMA SentKeepsConversation ==
    ASSUME Conversation, NEW t \in Threads, Sent(t), LocalsOK', ClientOK', SocketOK'
    PROVE  Conversation'
<1>1. TypeOK'
  <2>1. MachineOK'
    BY DEF Conversation, TypeOK, MachineOK, Sent, machine
  <2> QED BY <2>1 DEF TypeOK
<1>2. /\ ids \in Nat \ {NoneOf} /\ ids' = ids + 1 /\ want'[t] = ids /\ lock' = t
      /\ UNCHANGED <<wire, step, job, part, saved, bp>>
      /\ \A u \in Threads \ {t} : want'[u] = want[u]
      /\ IdsInOrder /\ lock = NoThread /\ step[t] \in DOMAIN Command
      /\ want \in [Threads -> Nat \union {-1}] /\ reqs \in Seq(Requests) /\ wire \in Seq(Frames)
  BY DEF Sent, OthersUnmoved, Conversation, TypeOK, ClientOK, LocalsOK, SocketOK
<1>3. /\ reqs' # <<>> /\ DOMAIN reqs' = 1 .. (Len(reqs) + 1)
      /\ Len(reqs') = Len(reqs) + 1 /\ Len(reqs) \in Nat /\ DOMAIN reqs = 1 .. Len(reqs)
      /\ \A i \in 1 .. Len(reqs) : reqs'[i] = reqs[i]
      /\ reqs'[Len(reqs) + 1].id = ids
  BY DEF Sent
<1>4. /\ \A i \in DOMAIN reqs : reqs[i].id \in Nat
      /\ \A i \in DOMAIN wire : wire[i].id \in Nat
  <2>1. \A f \in Frames : f.id \in Nat
    BY DEF Frames, NoneOf
  <2> QED BY <1>2, <2>1, SeqDomain, RequestFields
<1>5. IdsInOrder'
  <2>1. \A i \in DOMAIN reqs' : reqs'[i].id < ids'
    BY <1>2, <1>3, <1>4 DEF IdsInOrder
  <2>2. \A i \in DOMAIN wire' : wire'[i].id < ids'
    BY <1>2, <1>4 DEF IdsInOrder
  <2>3. \A u \in Threads : want'[u] < ids'
    BY <1>2 DEF IdsInOrder
  <2> QED BY <2>1, <2>2, <2>3 DEF IdsInOrder
<1>6. ASSUME NEW u \in Threads PROVE StepsOfJob(u)'
  BY <1>2 DEF Conversation, StepsOfJob, IsJsr
<1>7. ASSUME NEW u \in Threads \ {t}
      PROVE  want[u] = NoneOf /\ step[u] \notin {"clisten", "cdone"}
  BY <1>2, MonitorAssumption DEF Conversation, LockedWhileWaiting
<1>8. ASSUME NEW u \in Threads PROVE LockedWhileWaiting(u)'
  <2>1. CASE u = t
    BY <1>2, <2>1, Commands DEF LockedWhileWaiting, NoneOf
  <2>2. CASE u # t
    BY <1>2, <1>7, <2>2 DEF LockedWhileWaiting, NoneOf
  <2> QED BY <2>1, <2>2
<1>9. OwnRequestIsLast(t)'
  <2>1. Own(t, reqs[Len(reqs)])'
    BY <1>2, <1>3 DEF Own, Sent
  <2>2. \A i \in DOMAIN reqs' : i < Len(reqs') => reqs'[i].id # want'[t]
    BY <1>2, <1>3, <1>4 DEF IdsInOrder
  <2>3. \A i \in DOMAIN wire' : wire'[i].id # want'[t]
    BY <1>2, <1>4 DEF IdsInOrder
  <2>4. step'[t] \notin {"clisten", "cdone"}
    BY <1>2, Commands
  <2> QED BY <2>1, <2>2, <2>3, <2>4 DEF OwnRequestIsLast
<1>10. ASSUME NEW u \in Threads \ {t} PROVE OwnRequestIsLast(u)'
  BY <1>2, <1>7 DEF OwnRequestIsLast, Awaits
<1> QED BY <1>1, <1>5, <1>6, <1>8, <1>9, <1>10 DEF Conversation

LEMMA EventsKeepConversation ==
    ASSUME Conversation, TypeOK', Events
    PROVE  Conversation'
<1>1. /\ UNCHANGED <<reqs, ids, lock, job, step, part, want, saved, bp>>
      /\ ids \in Nat \ {NoneOf}
  BY DEF Events, client, callers, locals, Conversation, TypeOK, ClientOK
<1>2. \A i \in DOMAIN wire' : wire'[i].id = NoneOf \/ \E j \in DOMAIN wire : wire'[i] = wire[j]
  <2>1. wire \in Seq(Frames) /\ wire' \in Seq(Frames)
    BY DEF Conversation, TypeOK, SocketOK, Events
  <2> QED BY <2>1, SeqDomain DEF Events, Grown
<1>3. IdsInOrder'
  BY <1>1, <1>2 DEF Conversation, IdsInOrder, NoneOf
<1>4. ASSUME NEW t \in Threads PROVE StepsOfJob(t)' /\ LockedWhileWaiting(t)' /\ OwnRequestIsLast(t)'
  <2>0. StepsOfJob(t) /\ LockedWhileWaiting(t) /\ OwnRequestIsLast(t)
    BY DEF Conversation
  <2>1. StepsOfJob(t)' /\ LockedWhileWaiting(t)'
    BY <1>1, <2>0 DEF StepsOfJob, IsJsr, LockedWhileWaiting
  <2>2. Awaits(t) <=> Awaits(t)'
    BY <1>1 DEF Awaits
  <2>3. Own(t, reqs[Len(reqs)])' <=> Own(t, reqs[Len(reqs)])
    BY <1>1 DEF Own
  <2>4. Awaits(t) => \A i \in DOMAIN wire' : wire'[i].id = want[t] => reqs = <<>>
    BY <1>2, <2>0 DEF OwnRequestIsLast, Awaits
  <2>5. OwnRequestIsLast(t)'
    BY <1>1, <2>0, <2>2, <2>3, <2>4 DEF OwnRequestIsLast
  <2> QED BY <2>1, <2>5
<1> QED BY <1>3, <1>4 DEF Conversation

(* What is known of the request that VICE serves.                           *)
Answers(t) == Awaits(t) /\ Head(reqs).id = want[t]

LEMMA ServedRequest ==
    ASSUME Conversation, reqs # <<>>, NEW t \in Threads
    PROVE  /\ Answers(t) => Own(t, Head(reqs)) /\ Tail(reqs) = <<>>
           /\ Awaits(t) /\ ~ Answers(t) => Tail(reqs) # <<>>
           /\ Awaits(t) => \A i \in DOMAIN wire : wire[i].id # want[t]
           /\ step[t] \notin {"clisten", "cdone"}
<1>1. reqs \in Seq(Requests) /\ OwnRequestIsLast(t)
  BY DEF Conversation, TypeOK, SocketOK
<1>2. /\ Head(reqs) = reqs[1] /\ Len(reqs) \in Nat /\ Len(reqs) > 0
      /\ DOMAIN reqs = 1 .. Len(reqs) /\ Len(Tail(reqs)) = Len(reqs) - 1
      /\ Tail(reqs) \in Seq(Requests)
      /\ Tail(reqs) = <<>> <=> Len(Tail(reqs)) = 0
  BY <1>1, SeqTail, SeqDomain
<1>3. Answers(t) => Len(reqs) = 1
  BY <1>1, <1>2 DEF Answers, OwnRequestIsLast
<1>4. Answers(t) => Own(t, Head(reqs)) /\ Tail(reqs) = <<>>
  BY <1>1, <1>2, <1>3 DEF Answers, OwnRequestIsLast
<1>5. Awaits(t) /\ Len(reqs) = 1 => Answers(t)
  BY <1>1, <1>2 DEF Answers, OwnRequestIsLast, Own
<1> QED BY <1>1, <1>2, <1>4, <1>5 DEF OwnRequestIsLast

LEMMA ServiceKeepsConversation ==
    ASSUME Conversation, TypeOK', Service
    PROVE  Conversation'
<1> DEFINE r == Head(reqs)
<1>1. /\ reqs # <<>> /\ r \in Requests /\ r = reqs[1] /\ reqs' = Tail(reqs) /\ Told(r)
      /\ UNCHANGED <<client, callers>>
  BY ServiceEffect DEF Conversation
<1>2. UNCHANGED <<ids, lock, job, step, part, want, saved, bp>> /\ ids \in Nat \ {NoneOf}
  BY <1>1 DEF client, callers, locals, Conversation, TypeOK, ClientOK
<1>3. /\ DOMAIN reqs = 1 .. Len(reqs) /\ Len(reqs) \in Nat /\ Len(reqs) > 0
      /\ DOMAIN reqs' = 1 .. (Len(reqs) - 1) /\ Len(reqs') = Len(reqs) - 1
      /\ \A i \in 1 .. (Len(reqs) - 1) : reqs'[i] = reqs[i + 1]
      /\ reqs' # <<>> <=> Len(reqs) > 1
  <2>1. reqs \in Seq(Requests)
    BY DEF Conversation, TypeOK, SocketOK
  <2>2. /\ DOMAIN reqs = 1 .. Len(reqs) /\ Len(reqs) \in Nat /\ Len(reqs) > 0
        /\ reqs' \in Seq(Requests) /\ Len(reqs') = Len(reqs) - 1
        /\ \A i \in 1 .. (Len(reqs) - 1) : reqs'[i] = reqs[i + 1]
    BY <1>1, <2>1, SeqTail, SeqDomain
  <2>3. DOMAIN reqs' = 1 .. Len(reqs') /\ (reqs' = <<>> <=> Len(reqs') = 0)
    BY <2>2, SeqDomain
  <2> QED BY <2>2, <2>3
<1>4. \A i \in DOMAIN wire' : \/ wire'[i].id \in {NoneOf, r.id}
                              \/ \E j \in DOMAIN wire : wire'[i] = wire[j]
  <2>1. wire \in Seq(Frames) /\ wire' \in Seq(Frames)
    BY <1>1 DEF Conversation, TypeOK, SocketOK, Told
  <2> QED BY <1>1, <2>1, SeqDomain DEF Told, Grown
<1>5. r.id < ids
  BY <1>1, <1>3 DEF Conversation, IdsInOrder
<1>6. IdsInOrder'
  <2>1. \A i \in DOMAIN reqs' : reqs'[i].id < ids'
    BY <1>2, <1>3 DEF Conversation, IdsInOrder
  <2>2. \A i \in DOMAIN wire' : wire'[i].id < ids'
    BY <1>2, <1>4, <1>5 DEF Conversation, IdsInOrder, NoneOf
  <2> QED BY <1>2, <2>1, <2>2 DEF Conversation, IdsInOrder
<1>7. ASSUME NEW t \in Threads PROVE StepsOfJob(t)' /\ LockedWhileWaiting(t)' /\ OwnRequestIsLast(t)'
  <2>0. StepsOfJob(t) /\ LockedWhileWaiting(t) /\ OwnRequestIsLast(t)
    BY DEF Conversation
  <2>1. StepsOfJob(t)' /\ LockedWhileWaiting(t)'
    BY <1>2, <2>0 DEF StepsOfJob, IsJsr, LockedWhileWaiting
  <2>2. Awaits(t) <=> Awaits(t)'
    BY <1>2 DEF Awaits
  <2>3. /\ Answers(t) => reqs' = <<>>
        /\ Awaits(t) => \A i \in DOMAIN wire : wire[i].id # want[t]
        /\ step[t] \notin {"clisten", "cdone"}
    BY <1>1, ServedRequest
  <2>4. Awaits(t) => \A i \in DOMAIN wire' : wire'[i].id = want[t] => reqs' = <<>>
    BY <1>4, <2>3 DEF Answers, Awaits
  <2>5. Awaits(t) => \A i \in DOMAIN reqs' : i < Len(reqs') => reqs'[i].id # want[t]
    BY <1>3, <2>0 DEF OwnRequestIsLast
  <2>6. Awaits(t) /\ reqs' # <<>> => Own(t, reqs[Len(reqs)])'
    <3>1. reqs' # <<>> => reqs'[Len(reqs')] = reqs[Len(reqs)]
      BY <1>3
    <3>2. Awaits(t) => Own(t, reqs[Len(reqs)])
      BY <1>1, <2>0 DEF OwnRequestIsLast
    <3> QED BY <1>2, <3>1, <3>2 DEF Own
  <2>7. OwnRequestIsLast(t)'
    BY <1>2, <2>2, <2>3, <2>4, <2>5, <2>6 DEF OwnRequestIsLast
  <2> QED BY <2>1, <2>7
<1> QED BY <1>6, <1>7 DEF Conversation

LEMMA StepConversation ==
    ASSUME Conversation, [Next]_vars PROVE Conversation'
<1>1. CASE Vice
  <2>1. TypeOK /\ TypeOK'
    BY <1>1, ViceKeepsTypes DEF Conversation
  <2>2. CASE Service
    BY <2>1, <2>2, ServiceKeepsConversation
  <2>3. CASE Running \/ ServiceText
    BY <2>1, <2>3, EventsOfVice, EventsKeepConversation
  <2> QED BY <1>1, <2>2, <2>3 DEF Vice, Running
<1>2. ASSUME NEW t \in Threads, Caller(t) PROVE Conversation'
  <2>1. CASE Send(t)
    BY <2>1, SendFrame, SentKeepsConversation
  <2>2. CASE ~ Send(t)
    BY <1>2, <2>2, CallerFits, FramedKeepsConversation
  <2> QED BY <2>1, <2>2
<1>3. CASE UNCHANGED vars
  BY <1>3 DEF vars, machine, socket, client, callers, locals, Conversation, TypeOK, MachineOK, SocketOK, ClientOK,
     LocalsOK, IdsInOrder, StepsOfJob, LockedWhileWaiting, OwnRequestIsLast, IsJsr, Awaits, Own
<1> QED BY <1>1, <1>2, <1>3 DEF Next, Finished

LEMMA InitConversation ==
    ASSUME Init PROVE Conversation
<1>1. NoCtx \in Ctx /\ "idle" \in Steps
  BY CtxFields, StepNames
<1>2. MachineOK
  <2>1. /\ mode = "run" /\ ctx = NoCtx /\ code = "none" /\ bps = {} /\ spare = 0
        /\ ran = FALSE /\ hijacked = ctx
    BY DEF Init
  <2>2. IsFiniteSet(bps) /\ bps \subseteq Nat \ {NoneOf}
    BY <2>1, FS_EmptySet
  <2>3. spare \in 0 .. MaxSpare
    BY <2>1, MonitorAssumption
  <2> QED BY <1>1, <2>1, <2>2, <2>3 DEF MachineOK
<1>3. SocketOK /\ ClientOK
  BY DEF Init, SocketOK, ClientOK, NoneOf
<1>4. LocalsOK
  BY <1>1 DEF Init, LocalsOK, NoneOf
<1>5. IdsInOrder
  BY DEF Init, IdsInOrder, NoneOf
<1>6. ASSUME NEW t \in Threads PROVE StepsOfJob(t) /\ LockedWhileWaiting(t) /\ OwnRequestIsLast(t)
  <2>1. step[t] = "idle" /\ want[t] = NoneOf /\ bp[t] = NoneOf /\ reqs = <<>>
    BY DEF Init
  <2> QED BY <2>1 DEF StepsOfJob, LockedWhileWaiting, OwnRequestIsLast, Awaits, NoneOf
<1> QED BY <1>2, <1>3, <1>4, <1>5, <1>6 DEF Conversation, TypeOK

-----------------------------------------------------------------------------
(* A stop that is announced after the reply of a resume.                    *)
StopAfter(w, id) == \A i \in DOMAIN w : w[i].id = id => \E j \in DOMAIN w : j > i /\ IsStop(w[j])
AnyStop(w) == \E j \in DOMAIN w : IsStop(w[j])

LEMMA StopsStay ==
    ASSUME wire \in Seq(Frames), wire' \in Seq(Frames), Grown(wire, wire'),
           \A j \in DOMAIN wire' : j > Len(wire) => wire'[j].id = NoneOf,
           NEW id \in Nat \ {NoneOf}
    PROVE  /\ StopAfter(wire, id) \/ NewStop => StopAfter(wire', id)
           /\ AnyStop(wire) \/ NewStop => AnyStop(wire')
<1>1. DOMAIN wire = 1 .. Len(wire) /\ Len(wire) \in Nat /\ DOMAIN wire' = 1 .. Len(wire')
      /\ Len(wire') \in Nat
  BY SeqDomain
<1>2. \A i \in DOMAIN wire' : wire'[i].id = id => i \in DOMAIN wire /\ wire[i].id = id
  BY <1>1 DEF Grown
<1>3. ASSUME StopAfter(wire, id) PROVE StopAfter(wire', id)
  BY <1>2, <1>3 DEF StopAfter, Grown
<1>4. ASSUME NewStop PROVE StopAfter(wire', id) /\ AnyStop(wire')
  BY <1>1, <1>2, <1>4 DEF StopAfter, AnyStop, NewStop
<1>5. ASSUME AnyStop(wire) PROVE AnyStop(wire')
  BY <1>5 DEF AnyStop, Grown
<1> QED BY <1>3, <1>4, <1>5

LEMMA StopFollows ==
    ASSUME NEW t \in Threads
    PROVE  StopFollowsResume(t) <=>
              /\ Awaits(t) /\ step[t] \in {"go", "adv", "cgo"} /\ mode = "halt" => StopAfter(wire, want[t])
              /\ step[t] = "clisten" /\ mode = "halt" => AnyStop(wire)
  BY DEF StopFollowsResume, StopAfter, AnyStop

LEMMA StopFollowsPrimed ==
    ASSUME NEW t \in Threads
    PROVE  StopFollowsResume(t)' <=>
              /\ Awaits(t)' /\ step'[t] \in {"go", "adv", "cgo"} /\ mode' = "halt" => StopAfter(wire', want'[t])
              /\ step'[t] = "clisten" /\ mode' = "halt" => AnyStop(wire')
  BY DEF StopFollowsResume, StopAfter, AnyStop

LEMMA EventsKeepStops ==
    ASSUME Conversation, Events, NEW t \in Threads, StopFollowsResume(t)
    PROVE  StopFollowsResume(t)'
<1>1. /\ wire \in Seq(Frames) /\ wire' \in Seq(Frames) /\ Grown(wire, wire')
      /\ \A j \in DOMAIN wire' : j > Len(wire) => wire'[j].id = NoneOf
      /\ mode' = "halt" => mode = "halt" \/ NewStop
      /\ UNCHANGED <<step, want>>
  BY DEF Conversation, TypeOK, SocketOK, Events, callers
<1>2. Awaits(t)' <=> Awaits(t)
  BY <1>1 DEF Awaits
<1>3. Awaits(t) => want[t] \in Nat \ {NoneOf}
  BY WantNone DEF Awaits
<1>4. step[t] = "clisten" /\ mode' = "halt" => AnyStop(wire')
  <2>1. 1 \in Nat \ {NoneOf}
    BY DEF NoneOf
  <2> QED BY <1>1, <2>1, StopFollows, StopsStay
<1>5. Awaits(t) /\ step[t] \in {"go", "adv", "cgo"} /\ mode' = "halt" => StopAfter(wire', want[t])
  BY <1>1, <1>3, StopFollows, StopsStay
<1> QED BY <1>1, <1>2, <1>4, <1>5, StopFollowsPrimed

LEMMA ServiceKeepsStops ==
    ASSUME Conversation, Service, NEW t \in Threads, StopFollowsResume(t)
    PROVE  StopFollowsResume(t)'
<1> DEFINE r == Head(reqs)
<1>1. /\ reqs # <<>> /\ Told(r) /\ UNCHANGED <<callers>>
  BY ServiceEffect DEF Conversation
<1>2. UNCHANGED <<step, want>> /\ step[t] \notin {"clisten", "cdone"}
      /\ (Answers(t) => Own(t, r))
      /\ (Awaits(t) => \A i \in DOMAIN wire : wire[i].id # want[t])
  BY <1>1, ServedRequest DEF callers
<1>3. Awaits(t)' <=> Awaits(t)
  BY <1>2 DEF Awaits
<1>4. wire \in Seq(Frames)
  BY DEF Conversation, TypeOK, SocketOK
<1>5. ASSUME Awaits(t), step[t] \in {"go", "adv", "cgo"}, mode' = "halt"
      PROVE  StopAfter(wire', want[t])
  <2>1. CASE Answers(t)
    <3>1. r.cmd \in {"exit", "advance"}
      BY <1>2, <1>5, <2>1, Commands DEF Own
    <3>2. IsStop(wire'[Len(wire')]) /\ wire'[Len(wire')].id = NoneOf /\ wire' \in Seq(Frames)
          /\ Len(wire') > Len(wire)
      BY <1>1, <1>5, <3>1 DEF Told
    <3>3. Len(wire') \in DOMAIN wire' /\ DOMAIN wire' = 1 .. Len(wire') /\ Len(wire') \in Nat
      BY <1>4, <3>2, SeqDomain
    <3>4. ASSUME NEW i \in DOMAIN wire', wire'[i].id = want[t] PROVE Len(wire') > i
      BY <1>5, <3>2, <3>3, <3>4 DEF Awaits
    <3> QED BY <3>2, <3>3, <3>4 DEF StopAfter
  <2>2. CASE ~ Answers(t)
    <3>1. \A i \in DOMAIN wire' : wire'[i].id # want[t]
      <4>1. \A i \in DOMAIN wire' : wire'[i].id \in {NoneOf, r.id} \/ (i \in DOMAIN wire /\ wire'[i] = wire[i])
        <5>1. wire' \in Seq(Frames)
          BY <1>1 DEF Told
        <5>2. /\ DOMAIN wire = 1 .. Len(wire) /\ Len(wire) \in Nat
              /\ DOMAIN wire' = 1 .. Len(wire') /\ Len(wire') \in Nat
          BY <1>4, <5>1, SeqDomain
        <5>3. \A i \in DOMAIN wire' : i > Len(wire) => wire'[i].id \in {NoneOf, r.id}
          BY <1>1 DEF Told
        <5>4. \A i \in DOMAIN wire : wire'[i] = wire[i]
          BY <1>1 DEF Told, Grown
        <5>5. ASSUME NEW i \in DOMAIN wire'
              PROVE  wire'[i].id \in {NoneOf, r.id} \/ (i \in DOMAIN wire /\ wire'[i] = wire[i])
          <6>1. CASE i \in DOMAIN wire
            BY <5>4, <6>1
          <6>2. CASE i > Len(wire)
            <7>1. wire'[i].id \in {NoneOf, r.id}
              BY <5>3, <6>2
            <7> QED BY <7>1
          <6> QED BY <5>2, <6>1, <6>2
        <5> QED BY <5>5
      <4> QED BY <1>2, <1>5, <2>2, <4>1 DEF Answers, Awaits
    <3> QED BY <3>1 DEF StopAfter
  <2> QED BY <2>1, <2>2
<1> QED BY <1>2, <1>3, <1>5, StopFollowsPrimed

LEMMA SentKeepsStops ==
    ASSUME Conversation, NEW u \in Threads, Sent(u), NEW t \in Threads, StopFollowsResume(t)
    PROVE  StopFollowsResume(t)'
<1>1. UNCHANGED <<wire, mode, step>> /\ step[u] \in DOMAIN Command
  BY DEF Sent, machine
<1>2. CASE t = u
  <2>1. \A i \in DOMAIN wire : wire[i].id # want'[t]
    <3>1. \A i \in DOMAIN wire : wire[i].id \in Nat /\ wire[i].id < ids
      <4>1. wire \in Seq(Frames) /\ \A f \in Frames : f.id \in Nat
        BY DEF Conversation, TypeOK, SocketOK, Frames, NoneOf
      <4> QED BY <4>1, SeqDomain DEF Conversation, IdsInOrder
    <3> QED BY <1>2, <3>1 DEF Sent, Conversation, TypeOK, ClientOK
  <2>2. StopAfter(wire', want'[t])
    BY <1>1, <2>1 DEF StopAfter
  <2>3. step'[t] # "clisten"
    BY <1>1, <1>2, Commands
  <2> QED BY <2>2, <2>3, StopFollowsPrimed
<1>3. CASE t # u
  <2>1. want'[t] = want[t]
    BY <1>3 DEF Sent, OthersUnmoved
  <2>2. Awaits(t)' <=> Awaits(t)
    BY <1>1, <2>1 DEF Awaits
  <2> QED BY <1>1, <2>1, <2>2, StopFollows, StopFollowsPrimed
<1> QED BY <1>2, <1>3

LEMMA FramedKeepsStops ==
    ASSUME Conversation, NEW u \in Threads, Framed(u), Fits(u), NEW t \in Threads, StopFollowsResume(t)
    PROVE  StopFollowsResume(t)'
<1>0. LockedWhileWaiting(t) /\ mode' = mode /\ (wire' = wire \/ Popped(u))
  BY DEF Conversation, Framed, machine
<1>1. CASE t # u
  <2>1. want'[t] = want[t] /\ step'[t] = step[t]
    BY <1>1 DEF Framed, OthersUnmoved
  <2>2. Awaits(t)' <=> Awaits(t)
    BY <2>1 DEF Awaits
  <2>3. Awaits(t) \/ step[t] = "clisten" => wire' = wire
    BY <1>0, <1>1 DEF LockedWhileWaiting, Awaits, Popped
  <2> QED BY <1>0, <2>1, <2>2, <2>3, StopFollows, StopFollowsPrimed
<1>2. CASE t = u
  <2>1. Awaits(t)' => Awaits(t) /\ Kept(t)
    BY <1>2 DEF Framed, Awaits, Kept
  <2>2. wire # <<>> =>
           /\ Head(wire) = wire[1] /\ 1 \in DOMAIN wire
           /\ DOMAIN Tail(wire) = 1 .. (Len(wire) - 1) /\ Len(wire) \in Nat /\ DOMAIN wire = 1 .. Len(wire)
           /\ \A i \in 1 .. (Len(wire) - 1) : Tail(wire)[i] = wire[i + 1]
    BY WireHead
  <2>3. ASSUME NEW id, Popped(t), StopAfter(wire, id) PROVE StopAfter(wire', id)
    <3>1. wire # <<>> /\ wire' = Tail(wire)
      BY <2>3 DEF Popped
    <3>2. ASSUME NEW i \in DOMAIN wire', wire'[i].id = id
          PROVE  \E j \in DOMAIN wire' : j > i /\ IsStop(wire'[j])
      <4>1. i + 1 \in DOMAIN wire /\ wire[i + 1].id = id /\ i \in Nat
        BY <2>2, <3>1, <3>2
      <4>2. PICK j \in DOMAIN wire : j > i + 1 /\ IsStop(wire[j])
        BY <2>3, <4>1 DEF StopAfter
      <4>3. j - 1 \in DOMAIN wire' /\ j - 1 > i /\ wire'[j - 1] = wire[j]
        BY <2>2, <3>1, <4>1, <4>2
      <4> QED BY <4>2, <4>3
    <3> QED BY <3>2 DEF StopAfter
  <2>4. ASSUME Awaits(t)', step'[t] \in {"go", "adv", "cgo"}, mode' = "halt"
        PROVE  StopAfter(wire', want'[t])
    <3>1. want'[t] = want[t] /\ StopAfter(wire, want[t])
      BY <1>0, <2>1, <2>4, StopFollows DEF Kept
    <3> QED BY <1>0, <1>2, <2>3, <3>1
  <2>5. ASSUME step'[t] = "clisten", mode' = "halt" PROVE AnyStop(wire')
    <3>1. Opened(t) /\ wire # <<>> /\ wire' = Tail(wire)
      BY <1>2, <2>5 DEF Fits, Opened, Popped
    <3>2. \E j \in DOMAIN wire : j > 1 /\ IsStop(wire[j])
      <4>1. CASE step[t] = "clisten" /\ ~ IsStop(Head(wire))
        <5>1. PICK j \in DOMAIN wire : IsStop(wire[j])
          BY <1>0, <2>5, <4>1, StopFollows DEF AnyStop
        <5>2. j # 1 /\ j \in Nat /\ j >= 1
          BY <2>2, <3>1, <4>1, <5>1
        <5> QED BY <5>1, <5>2
      <4>2. CASE step[t] = "cgo" /\ Awaits(t) /\ Head(wire).id = want[t]
        <5>1. StopAfter(wire, want[t])
          BY <1>0, <2>5, <4>2, StopFollows
        <5> QED BY <2>2, <3>1, <4>2, <5>1 DEF StopAfter
      <4> QED BY <3>1, <4>1, <4>2 DEF Opened
    <3>3. PICK j \in DOMAIN wire : j > 1 /\ IsStop(wire[j])
      BY <3>2
    <3>4. j - 1 \in DOMAIN wire' /\ wire'[j - 1] = wire[j]
      BY <2>2, <3>1, <3>3
    <3> QED BY <3>3, <3>4 DEF AnyStop
  <2> QED BY <2>4, <2>5, StopFollowsPrimed
<1> QED BY <1>1, <1>2

(* A waiter's "running".                                                    *)
LEMMA StepConfirmed ==
    ASSUME Conversation, \A t \in Threads : StopFollowsResume(t), ConfirmedRuns, [Next]_vars
    PROVE  ConfirmedRuns'
<1> DEFINE Seen(w) == \E i \in DOMAIN w : w[i].type \in {"ckpt", "jam"}
<1> SUFFICES ASSUME NEW t \in Threads, step'[t] = "cdone", verdict'[t] = "running", text' = "none"
             PROVE  mode' = "run" \/ Seen(wire')
  BY DEF ConfirmedRuns
<1>0. step[t] = "cdone" => reqs = <<>> /\ lock = t
  BY DEF Conversation, OwnRequestIsLast, LockedWhileWaiting
<1>1. step[t] = "cdone" /\ verdict[t] = "running" /\ text = "none" => mode = "run" \/ Seen(wire)
  BY DEF ConfirmedRuns
<1>2. mode \in {"run", "halt"} /\ wire \in Seq(Frames)
  BY DEF Conversation, TypeOK, MachineOK, SocketOK
<1>3. CASE Running
  <2>1. /\ mode' \in {"run", "halt"}
        /\ mode' = "halt" => Seen(wire')
    BY <1>3, RunEffect DEF Machine, Conversation
  <2> QED BY <2>1
<1>4. CASE ServiceText
  BY <1>4 DEF ServiceText
<1>5. CASE Service
  <2>1. reqs # <<>> /\ step' = step
    BY <1>5 DEF Service, callers
  <2> QED BY <1>0, <2>1
<1>6. ASSUME NEW u \in Threads, Send(u) PROVE FALSE
  <2>1. lock = NoThread /\ step' = step
    BY <1>6 DEF Send
  <2> QED BY <1>0, <2>1, MonitorAssumption
<1>7. ASSUME NEW u \in Threads, Caller(u), ~ Send(u) PROVE mode' = "run" \/ Seen(wire')
  <2>1. Framed(u) /\ Fits(u)
    BY <1>7, CallerFits
  <2>2. mode' = mode
    BY <2>1 DEF Framed, machine
  <2>3. CASE u = t
    <3>1. step[t] = "clisten" /\ wire = <<>>
      BY <2>1, <2>3 DEF Fits, Closed
    <3>2. DOMAIN wire = {}
      BY <3>1
    <3>3. mode # "halt"
      BY <3>1, <3>2, StopFollows DEF AnyStop
    <3> QED BY <1>2, <2>2, <3>3
  <2>4. CASE u # t
    <3>1. step[t] = "cdone" /\ verdict[t] = "running"
      BY <2>1, <2>4 DEF Framed, OthersUnmoved
    <3>2. text = text' /\ wire' = wire
      BY <1>0, <2>1, <2>4, <3>1, MonitorAssumption DEF Framed, Popped
    <3> QED BY <1>1, <2>2, <3>1, <3>2
  <2> QED BY <2>3, <2>4
<1>8. CASE UNCHANGED vars
  BY <1>1, <1>8 DEF vars, machine, socket, callers, locals
<1> QED BY <1>3, <1>4, <1>5, <1>6, <1>7, <1>8 DEF Next, Vice, Running, Finished

LEMMA StepStops ==
    ASSUME Conversation, \A t \in Threads : StopFollowsResume(t), [Next]_vars
    PROVE  \A t \in Threads : StopFollowsResume(t)'
<1> SUFFICES ASSUME NEW t \in Threads PROVE StopFollowsResume(t)'
  OBVIOUS
<1>1. CASE Running \/ ServiceText
  BY <1>1, EventsOfVice, EventsKeepStops DEF Conversation
<1>2. CASE Service
  BY <1>2, ServiceKeepsStops
<1>3. ASSUME NEW u \in Threads, Caller(u) PROVE StopFollowsResume(t)'
  <2>1. CASE Send(u)
    BY <2>1, SendFrame, SentKeepsStops
  <2>2. CASE ~ Send(u)
    BY <1>3, <2>2, CallerFits, FramedKeepsStops
  <2> QED BY <2>1, <2>2
<1>4. CASE UNCHANGED vars
  <2>1. UNCHANGED <<wire, mode, step, want>>
    BY <1>4 DEF vars, machine, socket, callers
  <2>2. Awaits(t)' <=> Awaits(t)
    BY <2>1 DEF Awaits
  <2> QED BY <2>1, <2>2, StopFollows, StopFollowsPrimed
<1> QED BY <1>1, <1>2, <1>3, <1>4 DEF Next, Vice, Running, Finished

-----------------------------------------------------------------------------
(* The books of checkpoints.                                                *)
Settles(t) ==
    /\ Awaits(t) => Kept(t) \/ reqs = <<>>
    /\ \A b \in bps : Keeps(t, b) => Keeps(t, b)'

LEMMA SettlesIdly ==
    ASSUME NEW t \in Threads, want[t] = NoneOf,
           \A b \in bps : Keeps(t, b) => Keeps(t, b)'
    PROVE  Settles(t)
  BY DEF Settles, Awaits

LEMMA CallerSettles ==
    ASSUME Conversation, NEW t \in Threads, Caller(t), ~ Send(t), timeouts' = timeouts,
           step[t] = "del" /\ Served(t) => bp[t] \notin bps
    PROVE  Settles(t)
<1>0. /\ StepsOfJob(t) /\ LockedWhileWaiting(t) /\ OwnRequestIsLast(t)
      /\ \A b \in bps : b # NoneOf
      /\ timeouts \in Nat
  BY DEF Conversation, TypeOK, MachineOK, ClientOK
<1>1. CASE Begin(t)
  <2>1. step[t] \in {"idle", "done"} /\ want[t] = NoneOf
    BY <1>1, WantNone, BeginFrame
  <2> QED BY <2>1, SettlesIdly DEF Keeps, Guarded
<1>2. CASE Bump(t)
  <2>1. /\ want[t] = NoneOf /\ UNCHANGED bp /\ step'[t] \in {"adv", "go"}
        /\ step[t] = "bump" /\ (step'[t] = "adv" => job[t] = "step")
    BY <1>2, BumpFrame
  <2>2. ASSUME NEW b \in bps, Keeps(t, b) PROVE Keeps(t, b)'
    <3>1. bp[t] = b /\ IsJsr(t)
      BY <1>0, <2>1, <2>2 DEF Keeps, StepsOfJob
    <3> QED BY <2>1, <3>1 DEF IsJsr, Keeps, Guarded
  <2> QED BY <2>1, <2>2, SettlesIdly
<1>3. CASE Receive(t)
  <2>1. Framed(t) /\ Popped(t) /\ Awaits(t) /\ job' = job /\ (Passed(t) \/ Replied(t))
    BY <1>3, ReceiveFrame
  <2>2. CASE Passed(t)
    <3>1. Kept(t) /\ step' = step /\ want' = want /\ bp' = bp
      BY <2>1, <2>2 DEF Passed, Kept
    <3> QED BY <3>1 DEF Settles, Keeps
  <2>3. CASE Replied(t)
    <3>1. want'[t] = NoneOf /\ Head(wire).id = want[t] /\ wire # <<>>
      BY <2>1, <2>3 DEF Replied, Popped
    <3>2. reqs = <<>>
      BY <1>0, <2>1, <3>1, WireHead DEF OwnRequestIsLast
    <3>3. ASSUME NEW b \in bps, Keeps(t, b) PROVE Keeps(t, b)'
      <4>0. step[t] \in {"ck"} \union Guarded /\ (step[t] # "ck" => bp[t] = b) /\ step[t] # "cgo"
        BY <3>3 DEF Keeps, Guarded
      <4> DEFINE val == Head(wire).val
      <4>1. SavedOnly(t) /\ After(t, val) /\ step[t] \in DOMAIN Command
        BY <2>1, <2>3, <4>0 DEF Replied, Awaits
      <4> HIDE DEF val
      <4>2. step[t] # "ck" => bp'[t] = bp[t]
        BY <4>1 DEF SavedOnly
      <4>3. step[t] # "ck" => IsJsr(t)
        BY <1>0, <4>0 DEF StepsOfJob
      <4>4. CASE step[t] = "ck"
        <5>1. step'[t] = "pc" /\ bp'[t] = want[t]
          BY <4>1, <4>4 DEF After
        <5> QED BY <3>3, <4>4, <5>1 DEF Keeps, Guarded
      <4>5. CASE step[t] \in {"pc", "go"}
        <5>1. step'[t] \in {"bump", "scan"}
          BY <4>1, <4>3, <4>5 DEF After, IsJsr
        <5> QED BY <4>0, <4>2, <4>5, <5>1 DEF Keeps, Guarded
      <4>6. CASE step[t] \in {"rd1", "jamread"}
        <5>1. step'[t] = "del"
          BY <4>1, <4>3, <4>6 DEF After, Failed, InTry
        <5> QED BY <4>0, <4>2, <4>6, <5>1 DEF Keeps, Guarded
      <4>7. step[t] # "del"
        BY <2>1, <3>2, <3>3, <4>0 DEF Served
      <4> QED BY <4>0, <4>1, <4>4, <4>5, <4>6, <4>7, Commands DEF Guarded
    <3> QED BY <3>2, <3>3 DEF Settles
  <2> QED BY <2>1, <2>2, <2>3
<1>4. CASE ReceiveTimesOut(t)
  BY <1>0, <1>4, ReceiveTimesOutFrame
<1>5. CASE Scan(t)
  <2>1. want[t] = NoneOf /\ Looked(t) /\ UNCHANGED <<job, want, bp>> /\ step[t] = "scan"
    BY <1>5, ScanFrame
  <2>2. ASSUME NEW b \in bps, Keeps(t, b) PROVE Keeps(t, b)'
    <3>1. bp[t] = b /\ IsJsr(t)
      BY <1>0, <2>1, <2>2 DEF Keeps, StepsOfJob
    <3>2. step'[t] \in {"jamread", "wait", "rd1", "del"}
      BY <2>1, <3>1 DEF Looked, AfterStop, Failed, InTry
    <3> QED BY <2>1, <3>1, <3>2 DEF Keeps, Guarded
  <2> QED BY <2>1, <2>2, SettlesIdly
<1>6. CASE WaitLock(t)
  <2>1. want[t] = NoneOf /\ UNCHANGED <<step, want, bp>>
    BY <1>6, WaitLockFrame DEF callers, locals
  <2> QED BY <2>1, SettlesIdly DEF Keeps
<1>7. CASE WaitReceive(t) \/ WaitTimesOut(t)
  <2>1. want[t] = NoneOf /\ (Read(t) \/ Failed(t)) /\ UNCHANGED <<job, want, bp>> /\ step[t] = "wait"
    BY <1>7, WaitReceiveFrame, WaitTimesOutFrame
  <2>2. ASSUME NEW b \in bps, Keeps(t, b) PROVE Keeps(t, b)'
    <3>1. bp[t] = b /\ IsJsr(t)
      BY <1>0, <2>1, <2>2 DEF Keeps, StepsOfJob
    <3>2. step'[t] \in {"jamread", "wait", "rd1", "del"}
      BY <2>1, <3>1 DEF Read, AfterStop, Failed, InTry
    <3> QED BY <2>1, <3>1, <3>2 DEF Keeps, Guarded
  <2> QED BY <2>1, <2>2, SettlesIdly
<1>8. CASE Listen(t) \/ Confirmed(t)
  <2>1. want[t] = NoneOf /\ step[t] \in {"clisten", "cdone"}
    BY <1>8, ListenFrame, ConfirmedFrame
  <2> QED BY <2>1, SettlesIdly DEF Keeps, Guarded
<1>9. CASE Ask(t) \/ AskAnswered(t)
  <2>1. step[t] = "ask"
    BY <1>9 DEF Ask, AskAnswered
  <2> QED BY <2>1, Commands DEF Settles, Awaits, Keeps, Guarded
<1> QED BY <1>1, <1>2, <1>3, <1>4, <1>5, <1>6, <1>7, <1>8, <1>9 DEF Caller

LEMMA StepBooks ==
    ASSUME Conversation, BooksOfCheckpoints, [Next]_vars
    PROVE  BooksOfCheckpoints'
<1>0. timeouts \in Nat /\ wire \in Seq(Frames) /\ reqs \in Seq(Requests) /\ bps \subseteq Nat \ {NoneOf}
  BY DEF Conversation, TypeOK, ClientOK, SocketOK, MachineOK
<1>1. CASE UNCHANGED <<timeouts, bps, reqs, step, want, bp>>
  <2>1. \A t \in Threads : /\ Awaits(t)' <=> Awaits(t)
                           /\ Served(t)' <=> Served(t)
    BY <1>1 DEF Awaits, Served
  <2>2. \A t \in Threads : \A b \in bps : Keeps(t, b)' <=> Keeps(t, b)
    BY <1>1 DEF Keeps
  <2> QED BY <1>1, <2>1, <2>2 DEF BooksOfCheckpoints
<1>2. CASE Running \/ ServiceText
  <2>1. UNCHANGED <<timeouts, bps, reqs, step, want, bp>>
    BY <1>2, RunEffect, TextEffect DEF Conversation, callers, locals
  <2> QED BY <1>1, <2>1
<1>3. CASE Service
  <2> DEFINE r == Head(reqs)
  <2>1. /\ reqs # <<>> /\ r = reqs[1] /\ reqs' = Tail(reqs) /\ Carried(r) /\ 1 \in DOMAIN reqs
        /\ UNCHANGED <<step, want, bp, timeouts>>
    BY <1>0, <1>3, ServiceEffect, SeqTail DEF Conversation, callers, locals
  <2> SUFFICES ASSUME timeouts = 0 PROVE BooksOfCheckpoints'
    BY <2>1 DEF BooksOfCheckpoints
  <2>2. PICK t \in Threads : Awaits(t) /\ r.id = want[t]
    BY <2>1 DEF BooksOfCheckpoints
  <2>3. Own(t, r) /\ reqs' = <<>>
    BY <2>1, <2>2, ServedRequest DEF Answers
  <2>4. r.cmd = Command[step[t]] /\ r.bp = bp[t] /\ step[t] \in DOMAIN Command
    BY <2>2, <2>3 DEF Own, Awaits
  <2> HIDE DEF r
  <2>5. \A b \in bps' : \E u \in Threads : Keeps(u, b)'
    <3> SUFFICES ASSUME NEW b \in bps' PROVE \E u \in Threads : Keeps(u, b)'
      OBVIOUS
    <3>1. CASE b \in bps
      <4>1. PICK u \in Threads : Keeps(u, b)
        BY <3>1 DEF BooksOfCheckpoints
      <4>2. Keeps(u, b)'
        BY <2>1, <4>1 DEF Keeps
      <4> QED BY <4>2
    <3>2. CASE b \notin bps
      <4>1. r.cmd = "ckset" /\ b = r.id
        BY <2>1, <3>2 DEF Carried
      <4>2. step[t] = "ck"
        BY <2>4, <4>1, Commands
      <4>3. Keeps(t, b)'
        BY <2>1, <2>2, <4>1, <4>2 DEF Keeps
      <4> QED BY <4>3
    <3> QED BY <3>1, <3>2
  <2>6. ASSUME NEW u \in Threads, step'[u] = "del", Served(u)' PROVE bp'[u] \notin bps'
    <3>1. Awaits(u)
      BY <2>1, <2>6 DEF Served, Awaits
    <3>2. u = t
      BY <2>2, <3>1 DEF Conversation, LockedWhileWaiting, Awaits
    <3>3. r.cmd = "ckdel"
      BY <2>1, <2>4, <2>6, <3>2, Commands
    <3> QED BY <2>1, <2>4, <3>2, <3>3 DEF Carried
  <2>7. DOMAIN reqs' = {}
    BY <2>3
  <2> QED BY <2>5, <2>6, <2>7 DEF BooksOfCheckpoints
<1>4. ASSUME NEW t \in Threads, Send(t) PROVE BooksOfCheckpoints'
  <2>1. Sent(t)
    BY <1>4, SendFrame
  <2>2. UNCHANGED <<timeouts, bps, step, bp>> /\ lock = NoThread /\ want[t] = NoneOf
    BY <2>1 DEF Sent, machine
  <2> SUFFICES ASSUME timeouts = 0 PROVE BooksOfCheckpoints'
    BY <2>2 DEF BooksOfCheckpoints
  <2>3. \A u \in Threads : ~ Awaits(u)
    BY <2>2, MonitorAssumption DEF Conversation, LockedWhileWaiting, Awaits
  <2>4. DOMAIN reqs = {}
    BY <2>3 DEF BooksOfCheckpoints
  <2>5. Len(reqs) = 0
    BY <1>0, <2>4, SeqDomain
  <2>6. \A i \in DOMAIN reqs' : \E u \in Threads : Awaits(u)' /\ reqs'[i].id = want'[u]
    <3>1. Awaits(t)'
      <4>1. want'[t] # NoneOf
        BY <2>1 DEF Sent, Conversation, TypeOK, ClientOK
      <4> QED BY <2>1, <4>1 DEF Sent, Awaits
    <3>2. DOMAIN reqs' = 1 .. 1 /\ reqs'[1].id = want'[t]
      BY <2>1, <2>5 DEF Sent
    <3> QED BY <3>1, <3>2
  <2>7. ASSUME NEW b \in bps PROVE \E u \in Threads : Keeps(u, b)'
    <3>1. PICK u \in Threads : Keeps(u, b)
      BY DEF BooksOfCheckpoints
    <3>2. (want[u] = NoneOf /\ b # NoneOf) \/ u # t
      BY <1>0, <2>2
    <3>3. Keeps(u, b)'
      BY <2>1, <2>2, <3>1, <3>2 DEF Keeps, Sent, OthersUnmoved
    <3> QED BY <3>3
  <2>8. \A u \in Threads : ~ Served(u)'
    BY <2>1 DEF Sent, Served
  <2> QED BY <2>2, <2>6, <2>7, <2>8 DEF BooksOfCheckpoints
<1>5. ASSUME NEW t \in Threads, Caller(t), ~ Send(t) PROVE BooksOfCheckpoints'
  <2>1. Framed(t)
    BY <1>5, CallerFits
  <2>2. UNCHANGED <<reqs, bps>> /\ (timeouts' = timeouts \/ timeouts' = timeouts + 1)
        /\ \A u \in Threads \ {t} : step'[u] = step[u] /\ want'[u] = want[u] /\ bp'[u] = bp[u]
    BY <2>1 DEF Framed, machine, OthersUnmoved
  <2> SUFFICES ASSUME timeouts = 0, timeouts' = timeouts PROVE BooksOfCheckpoints'
    BY <1>0, <2>2 DEF BooksOfCheckpoints
  <2>3. Settles(t)
    BY <1>5, CallerSettles DEF BooksOfCheckpoints
  <2>4. \A u \in Threads \ {t} : /\ Awaits(u)' <=> Awaits(u)
                                 /\ Served(u)' <=> Served(u)
    BY <2>2 DEF Awaits, Served
  <2>5. ASSUME NEW i \in DOMAIN reqs' PROVE \E u \in Threads : Awaits(u)' /\ reqs'[i].id = want'[u]
    <3>1. PICK u \in Threads : Awaits(u) /\ reqs[i].id = want[u]
      BY <2>2, <2>5 DEF BooksOfCheckpoints
    <3>2. CASE u = t
      <4>1. reqs # <<>>
        BY <2>2, <2>5
      <4>2. Kept(t)
        BY <2>3, <3>1, <3>2, <4>1 DEF Settles
      <4>3. Awaits(t)'
        BY <3>1, <3>2, <4>2 DEF Awaits, Kept
      <4> QED BY <2>2, <3>1, <3>2, <4>2, <4>3 DEF Kept
    <3>3. CASE u # t
      BY <2>2, <2>4, <3>1, <3>3
    <3> QED BY <3>2, <3>3
  <2>6. ASSUME NEW b \in bps PROVE \E u \in Threads : Keeps(u, b)'
    <3>1. PICK u \in Threads : Keeps(u, b)
      BY DEF BooksOfCheckpoints
    <3>2. CASE u = t
      BY <2>3, <3>1, <3>2 DEF Settles
    <3>3. CASE u # t
      <4>1. Keeps(u, b)'
        BY <2>2, <3>1, <3>3 DEF Keeps
      <4> QED BY <4>1
    <3> QED BY <3>2, <3>3
  <2>7. ASSUME NEW u \in Threads, step'[u] = "del", Served(u)' PROVE bp'[u] \notin bps'
    <3>1. CASE u = t
      <4>1. Kept(t)
        BY <2>1, <2>7, <3>1 DEF Framed, Served, Awaits
      <4>2. step[t] = "del" /\ Served(t) /\ bp'[t] = bp[t]
        BY <2>2, <2>7, <3>1, <4>1 DEF Kept, Served, Awaits
      <4> QED BY <2>2, <3>1, <4>2 DEF BooksOfCheckpoints
    <3>2. CASE u # t
      BY <2>2, <2>4, <2>7, <3>2 DEF BooksOfCheckpoints
    <3> QED BY <3>1, <3>2
  <2> QED BY <2>2, <2>5, <2>6, <2>7 DEF BooksOfCheckpoints
<1>6. CASE UNCHANGED vars
  <2>1. UNCHANGED <<timeouts, bps, reqs, step, want, bp>>
    BY <1>6 DEF vars, machine, socket, callers, locals
  <2> QED BY <1>1, <2>1
<1> QED BY <1>2, <1>3, <1>4, <1>5, <1>6 DEF Next, Vice, Running, Finished

-----------------------------------------------------------------------------
(* With one driver: the others look at the machine.                         *)
LEMMA OthersAreNotJsr ==
    ASSUME NEW d \in Threads, OthersLook(d), NEW t \in Threads \ {d}
    PROVE  ~ IsJsr(t) /\ job[t] # "watch" /\ step[t] \in {"idle", "rd0", "list", "ask", "done"}
  BY DEF OthersLook, IsJsr

LEMMA StepOthersLook ==
    ASSUME Conversation, NEW d \in Threads, Driver(d), OthersLook(d), [Next]_vars
    PROVE  OthersLook(d)'
<1>1. CASE UNCHANGED <<job, step>>
  BY <1>1 DEF OthersLook
<1>2. CASE Vice
  <2>1. UNCHANGED callers
    BY <1>2 DEF Vice, RunTrampoline, RunReturn, RunInside, RunJam, RunLanding, Service, ServiceText
  <2> QED BY <1>1, <2>1 DEF callers
<1>3. ASSUME NEW t \in Threads, Caller(t), ~ Send(t) PROVE OthersLook(d)'
  <2>1. Framed(t) /\ Fits(t)
    BY <1>3, CallerFits
  <2>2. \A u \in Threads \ {t} : job'[u] = job[u] /\ step'[u] = step[u]
    BY <2>1 DEF Framed, OthersUnmoved
  <2>3. CASE t = d
    BY <2>2, <2>3 DEF OthersLook
  <2>4. CASE t # d
    <3>0. ~ IsJsr(t) /\ job[t] # "watch" /\ step[t] \in {"idle", "rd0", "list", "ask", "done"}
      BY <2>4, OthersAreNotJsr
    <3>1. CASE Begin(t)
      <4>1. \E j \in Jobs : j \in JobsOf[t] /\ job'[t] = j /\ step'[t] = FirstStep(j)
        BY <3>1, BeginFrame
      <4>2. PICK j \in Jobs : j \in JobsOf[t] /\ job'[t] = j /\ step'[t] = FirstStep(j)
        BY <4>1
      <4>3. j \in {"peek", "list", "text"}
        BY <2>4, <4>2 DEF Driver
      <4>4. step'[t] \in {"rd0", "list", "ask"}
        BY <4>2, <4>3, FirstSteps
      <4> QED BY <2>2, <4>2, <4>3, <4>4 DEF OthersLook
    <3>2. CASE Receive(t)
      <4>1. job' = job /\ (Passed(t) \/ Replied(t)) /\ Awaits(t)
        BY <3>2, ReceiveFrame
      <4>2. CASE Passed(t)
        BY <1>1, <4>1, <4>2 DEF Passed
      <4>3. CASE Replied(t)
        <5>1. step[t] \in {"rd0", "list"} /\ step[t] # "cgo"
          BY <3>0, <4>1, Commands DEF Awaits
        <5>2. Ended(t, "none")
          BY <3>0, <4>3, <5>1 DEF Replied, After
        <5>3. step'[t] = "done"
          BY <3>0, <5>2 DEF Ended
        <5> QED BY <2>2, <4>1, <5>3 DEF OthersLook
      <4> QED BY <4>1, <4>2, <4>3
    <3>3. CASE ReceiveTimesOut(t)
      <4>1. job' = job /\ Failed(t)
        BY <3>3, ReceiveTimesOutFrame
      <4>2. step'[t] = "done"
        BY <3>0, <4>1 DEF Failed
      <4> QED BY <2>2, <4>1, <4>2 DEF OthersLook
    <3>4. CASE Ask(t)
      BY <1>1, <3>4 DEF Ask
    <3>5. CASE AskAnswered(t)
      <4>1. job' = job /\ step'[t] = "done"
        BY <3>5, AskAnsweredFrame
      <4> QED BY <2>2, <4>1 DEF OthersLook
    <3>6. ~ (Bump(t) \/ Scan(t) \/ WaitLock(t) \/ WaitReceive(t) \/ WaitTimesOut(t) \/ Listen(t) \/ Confirmed(t))
      BY <3>0 DEF Bump, Scan, WaitLock, WaitReceive, WaitTimesOut, Listen, Confirmed
    <3> QED BY <1>3, <3>1, <3>2, <3>3, <3>4, <3>5, <3>6 DEF Caller
  <2> QED BY <2>3, <2>4
<1>4. ASSUME NEW t \in Threads, Send(t) PROVE OthersLook(d)'
  BY <1>1, <1>4 DEF Send
<1>5. CASE UNCHANGED vars
  BY <1>1, <1>5 DEF vars, callers
<1> QED BY <1>2, <1>3, <1>4, <1>5 DEF Next, Finished

(* What the others can do to the driver: read frames it will look for, and  *)
(* keep the stops on the queue.                                             *)
FreshStop(q, g) == \E i \in DOMAIN q : IsStop(q[i]) /\ q[i].gen >= g

Overheard == \/ wire' = wire /\ queue' = queue
             \/ /\ wire # <<>> /\ wire' = Tail(wire)
                /\ \/ queue' = Cat(queue, Queued(Head(wire)))
                   \/ queue' = queue /\ ~ IsStop(Head(wire))

LEMMA OthersOverhear ==
    ASSUME Conversation, NEW d \in Threads, OthersLook(d), NEW t \in Threads \ {d}, Caller(t), ~ Send(t)
    PROVE  Overheard /\ gen' = gen
<1>0. step[t] \in {"idle", "rd0", "list", "ask", "done"}
  BY OthersAreNotJsr
<1>1. CASE Begin(t) \/ ReceiveTimesOut(t) \/ Ask(t) \/ AskAnswered(t)
  BY <1>1 DEF Begin, ReceiveTimesOut, Ask, AskAnswered, Overheard, client, socket
<1>2. CASE Receive(t)
  <2>1. gen' = gen /\ (Passed(t) \/ Replied(t)) /\ Popped(t) /\ Awaits(t)
    BY <1>2, ReceiveFrame
  <2>2. CASE Passed(t)
    BY <2>1, <2>2 DEF Passed, Popped, Overheard
  <2>3. CASE Replied(t)
    <3>1. queue' = queue /\ Head(wire).id # NoneOf /\ wire # <<>> /\ wire' = Tail(wire)
      BY <2>1, <2>3 DEF Replied, Awaits, Popped
    <3>2. ~ IsStop(Head(wire))
      BY <3>1, WireHead
    <3> QED BY <2>1, <3>1, <3>2 DEF Overheard
  <2> QED BY <2>1, <2>2, <2>3
<1>3. ~ (Bump(t) \/ Scan(t) \/ WaitLock(t) \/ WaitReceive(t) \/ WaitTimesOut(t) \/ Listen(t) \/ Confirmed(t))
  BY <1>0 DEF Bump, Scan, WaitLock, WaitReceive, WaitTimesOut, Listen, Confirmed
<1> QED BY <1>1, <1>2, <1>3 DEF Caller

LEMMA StopInTail ==
    ASSUME Conversation, wire # <<>>, wire' = Tail(wire), NEW j \in DOMAIN wire, j > 1, IsStop(wire[j])
    PROVE  AnyStop(wire')
<1>1. j - 1 \in DOMAIN wire' /\ wire'[j - 1] = wire[j]
  BY WireHead
<1> QED BY <1>1 DEF AnyStop

LEMMA OverheardKeepsStops ==
    ASSUME Conversation, Overheard, AnyStop(wire) \/ FreshStop(queue, gen)
    PROVE  AnyStop(wire') \/ FreshStop(queue', gen)
<1>0. queue \in Seq(Entries) /\ gen \in Nat
  BY DEF Conversation, TypeOK, ClientOK, Entries
<1>1. CASE wire' = wire /\ queue' = queue
  BY <1>1
<1>2. CASE wire # <<>> /\ wire' = Tail(wire)
  <2>0. Head(wire) = wire[1] /\ Head(wire) \in Frames
    BY <1>2, WireHead
  <2>1. ASSUME AnyStop(wire), ~ IsStop(Head(wire)) PROVE AnyStop(wire')
    <3>1. PICK j \in DOMAIN wire : IsStop(wire[j])
      BY <2>1 DEF AnyStop
    <3>2. j > 1
      BY <1>2, <2>0, <2>1, <3>1, WireHead
    <3> QED BY <1>2, <3>1, <3>2, StopInTail
  <2>2. CASE queue' = queue /\ ~ IsStop(Head(wire))
    BY <2>1, <2>2
  <2>3. CASE queue' = Cat(queue, Queued(Head(wire)))
    <3> DEFINE u == Queued(Head(wire))
    <3>1. u \in Seq(Entries)
      BY <1>0, <2>0, QueuedTypes
    <3>2. IsStop(Head(wire)) => Len(u) = 1 /\ u[1].gen = gen /\ IsStop(u[1])
      BY <1>0, <2>0, QueuedTypes
    <3>3. queue' = Cat(queue, u)
      BY <2>3
    <3> HIDE DEF u
    <3>4. Joined(Entries, queue', queue, u)
      BY <1>0, <3>1, <3>3, SeqConcat
    <3>5. ASSUME FreshStop(queue, gen) PROVE FreshStop(queue', gen)
      <4>1. PICK i \in DOMAIN queue : IsStop(queue[i]) /\ queue[i].gen >= gen
        BY <3>5 DEF FreshStop
      <4>2. i \in DOMAIN queue' /\ queue'[i] = queue[i]
        BY <3>4, <4>1 DEF Joined
      <4> QED BY <4>1, <4>2 DEF FreshStop
    <3>6. ASSUME IsStop(Head(wire)) PROVE FreshStop(queue', gen)
      <4>1. Len(queue) + 1 \in DOMAIN queue' /\ queue'[Len(queue) + 1] = u[1]
        BY <3>2, <3>4, <3>6 DEF Joined
      <4> QED BY <1>0, <3>2, <3>6, <4>1 DEF FreshStop
    <3> QED BY <2>1, <3>5, <3>6
  <2> QED BY <1>2, <2>2, <2>3, <2>1 DEF Overheard
<1> QED BY <1>1, <1>2 DEF Overheard

Seen == AnyStop(wire) \/ FreshStop(queue, gen)

LEMMA VisibleToDriver ==
    ASSUME NEW d \in Threads, OthersLook(d)
    PROVE  StopIsVisible <=> (step[d] \in {"scan", "wait"} /\ mode = "halt" => Seen)
<1>1. \A t \in Threads : t = d \/ step[t] \notin {"scan", "wait"}
  BY OthersAreNotJsr
<1>2. StopIsVisible <=> \A t \in Threads : step[t] \in {"scan", "wait"} /\ mode = "halt" => Seen
  BY DEF StopIsVisible, Seen, AnyStop, FreshStop
<1> QED BY <1>1, <1>2

LEMMA VisibleToDriverPrimed ==
    ASSUME NEW d \in Threads, OthersLook(d)',
           step'[d] \in {"scan", "wait"} /\ mode' = "halt" => Seen'
    PROVE  StopIsVisible'
<1>1. \A t \in Threads : t = d \/ step'[t] \notin {"scan", "wait"}
  BY DEF OthersLook
<1>2. StopIsVisible' <=> \A t \in Threads : step'[t] \in {"scan", "wait"} /\ mode' = "halt" => Seen'
  BY DEF StopIsVisible, Seen, AnyStop, FreshStop
<1> QED BY <1>1, <1>2

(* The driver begins to look for a stop with the reply to its resume.       *)
LEMMA LooksAfterResume ==
    ASSUME Conversation, NEW d \in Threads, Receive(d), step'[d] \in {"scan", "wait"}
    PROVE  Popped(d) /\ Awaits(d) /\ step[d] \in {"go", "adv"} /\ Head(wire).id = want[d]
           /\ queue' = queue /\ gen' = gen
<1>1. Popped(d) /\ Awaits(d) /\ (Passed(d) \/ Replied(d)) /\ gen' = gen
  BY ReceiveFrame
<1>2. step[d] \in DOMAIN Command
  BY <1>1 DEF Awaits
<1>3. ~ Passed(d)
  BY <1>2, Commands DEF Passed
<1>4. Replied(d)
  BY <1>1, <1>3
<1>5. step[d] # "cgo" /\ After(d, Head(wire).val)
  BY <1>4 DEF Replied
<1>6. step[d] \in {"go", "adv"}
  <2>1. ~ (Ended(d, "none") \/ Failed(d) \/ Once(d, exc[d]))
    BY DEF Ended, Failed, Once
  <2> QED BY <1>2, <1>5, <2>1, Commands DEF After
<1> QED BY <1>1, <1>4, <1>6 DEF Replied

LEMMA DriverKeepsStops ==
    ASSUME Conversation, NEW d \in Threads, StopFollowsResume(d), Caller(d), ~ Send(d),
           step[d] \in {"scan", "wait"} /\ mode = "halt" => Seen,
           step'[d] \in {"scan", "wait"}, mode' = "halt"
    PROVE  Seen'
<1>0. mode = "halt"
  BY CallerFits DEF Framed, machine
<1>1. CASE Begin(d)
  <2>1. PICK j \in Jobs : step'[d] = FirstStep(j)
    BY <1>1, BeginFrame
  <2> QED BY <2>1, FirstSteps
<1>2. CASE Bump(d)
  BY <1>2, BumpFrame
<1>3. CASE Receive(d)
  <2>1. Popped(d) /\ Awaits(d) /\ step[d] \in {"go", "adv"} /\ Head(wire).id = want[d]
    BY <1>3, LooksAfterResume
  <2>2. StopAfter(wire, want[d])
    BY <1>0, <2>1, StopFollows
  <2>3. wire # <<>> /\ wire' = Tail(wire)
    BY <2>1 DEF Popped
  <2>4. 1 \in DOMAIN wire /\ wire[1].id = want[d]
    BY <2>1, <2>3, WireHead
  <2>5. PICK j \in DOMAIN wire : j > 1 /\ IsStop(wire[j])
    BY <2>2, <2>4 DEF StopAfter
  <2> QED BY <2>3, <2>5, StopInTail DEF Seen
<1>4. CASE ReceiveTimesOut(d) \/ WaitTimesOut(d)
  <2>1. Failed(d)
    BY <1>4, ReceiveTimesOutFrame, WaitTimesOutFrame
  <2> QED BY <2>1 DEF Failed
<1>5. CASE Scan(d)
  <2>1. step[d] = "scan" /\ Looked(d) /\ UNCHANGED <<socket, gen>>
    BY <1>5, ScanFrame
  <2>2. step'[d] = "wait" /\ ~ FreshStop(queue, gen)
    BY <2>1 DEF Looked, AfterStop, Ended, Failed, FreshStop
  <2>3. AnyStop(wire)
    BY <1>0, <2>1, <2>2 DEF Seen
  <2> QED BY <2>1, <2>3 DEF Seen, socket
<1>6. CASE WaitLock(d)
  BY <1>0, <1>6, WaitLockFrame DEF Seen, socket
<1>7. CASE WaitReceive(d)
  <2>1. Popped(d) /\ Read(d) /\ gen' = gen /\ step[d] = "wait"
    BY <1>7, WaitReceiveFrame
  <2>2. ~ IsStop(Head(wire)) /\ queue' = queue
    BY <2>1 DEF Read, AfterStop, Ended, Failed
  <2>3. Overheard
    BY <2>1, <2>2 DEF Popped, Overheard
  <2> QED BY <1>0, <2>1, <2>3, OverheardKeepsStops DEF Seen
<1>8. CASE Listen(d)
  BY <1>8, ListenFrame DEF Listened
<1>9. CASE Confirmed(d)
  BY <1>9, ConfirmedFrame
<1>10. CASE Ask(d)
  BY <1>10, AskFrame
<1>11. CASE AskAnswered(d)
  BY <1>11, AskAnsweredFrame
<1> QED BY <1>1, <1>2, <1>3, <1>4, <1>5, <1>6, <1>7, <1>8, <1>9, <1>10, <1>11 DEF Caller

LEMMA StepVisible ==
    ASSUME Conversation, NEW d \in Threads, OthersLook(d), OthersLook(d)', StopFollowsResume(d),
           StopIsVisible, [Next]_vars
    PROVE  StopIsVisible'
<1> SUFFICES ASSUME step'[d] \in {"scan", "wait"}, mode' = "halt" PROVE Seen'
  BY VisibleToDriverPrimed
<1>0. /\ step[d] \in {"scan", "wait"} /\ mode = "halt" => Seen
      /\ wire \in Seq(Frames) /\ mode \in {"run", "halt"}
  BY VisibleToDriver DEF Conversation, TypeOK, MachineOK, SocketOK
<1>1. CASE Running \/ ServiceText
  <2>1. Events /\ UNCHANGED <<step, queue, gen>>
    BY <1>1, EventsOfVice DEF Conversation, Events, callers, client
  <2>2. 1 \in Nat \ {NoneOf}
    BY DEF NoneOf
  <2>3. AnyStop(wire) \/ NewStop => AnyStop(wire')
    BY <1>0, <2>1, <2>2, StopsStay DEF Events
  <2> QED BY <1>0, <2>1, <2>3 DEF Events, Seen
<1>2. CASE Service
  <2> DEFINE r == Head(reqs)
  <2>1. Told(r) /\ UNCHANGED <<step, queue, gen>>
    BY <1>2, ServiceEffect DEF Conversation, callers, client
  <2>2. mode = "halt" => Seen
    BY <1>0, <2>1
  <2>3. AnyStop(wire) => AnyStop(wire')
    BY <2>1 DEF Told, Grown, AnyStop
  <2>4. CASE mode = "halt"
    BY <2>1, <2>2, <2>3, <2>4 DEF Seen
  <2>5. CASE mode = "run"
    <3>1. CASE r.cmd \in {"exit", "advance"}
      <4>1. Len(wire') > Len(wire) /\ IsStop(wire'[Len(wire')]) /\ wire' \in Seq(Frames)
        BY <2>1, <3>1 DEF Told
      <4>2. Len(wire') \in DOMAIN wire'
        BY <1>0, <4>1, SeqDomain
      <4> QED BY <4>1, <4>2 DEF Seen, AnyStop
    <3>2. CASE r.cmd \notin {"exit", "advance"}
      BY <2>1, <2>5, <3>2 DEF Told, NewStop, Seen, AnyStop
    <3> QED BY <3>1, <3>2
  <2> QED BY <1>0, <2>4, <2>5
<1>3. ASSUME NEW t \in Threads, Send(t) PROVE Seen'
  <2>1. Sent(t)
    BY <1>3, SendFrame
  <2>2. t # d
    BY <2>1, Commands DEF Sent
  <2>3. gen' = gen
    BY <2>1, <2>2, OthersAreNotJsr DEF Sent
  <2>4. UNCHANGED <<wire, queue, step, mode>>
    BY <2>1 DEF Sent, machine
  <2> QED BY <1>0, <2>3, <2>4 DEF Seen
<1>4. ASSUME NEW t \in Threads, Caller(t), ~ Send(t) PROVE Seen'
  <2>1. CASE t = d
    BY <1>0, <1>4, <2>1, DriverKeepsStops
  <2>2. CASE t # d
    <3>1. Overheard /\ gen' = gen
      BY <1>4, <2>2, OthersOverhear
    <3>2. step'[d] = step[d] /\ mode' = mode
      BY <1>4, <2>2, CallerFits DEF Framed, OthersUnmoved, machine
    <3> QED BY <1>0, <3>1, <3>2, OverheardKeepsStops DEF Seen
  <2> QED BY <2>1, <2>2
<1>5. CASE UNCHANGED vars
  BY <1>0, <1>5 DEF vars, machine, socket, client, callers, Seen
<1> QED BY <1>1, <1>2, <1>3, <1>4, <1>5 DEF Next, Vice, Running, Finished

-----------------------------------------------------------------------------
(* An undisturbed jsr() and the requests that are still on their way.       *)
SameCall(t) == /\ job'[t] = job[t] /\ step'[t] = step[t] /\ part'[t] = part[t]
               /\ exc'[t] = exc[t] /\ saved'[t] = saved[t] /\ bp'[t] = bp[t]

LEMMA TrackSame ==
    ASSUME NEW t \in Threads, SameCall(t)
    PROVE  /\ OnTrack(t)' <=> OnTrack(t)
           /\ IsJsr(t)' <=> IsJsr(t)
           /\ SavesCaller(t)' <=> SavesCaller(t)
  BY DEF SameCall, OnTrack, IsJsr, SavesCaller

(* A failure is a disturbance; so the driver is on its track after a step   *)
(* of its own when it was before, or has just had its reply.                *)
LEMMA StaysOnTrack ==
    ASSUME Conversation, NEW d \in Threads, Caller(d), ~ Send(d), OnTrack(d)'
    PROVE  reqs = <<>> \/ (OnTrack(d) /\ want'[d] = want[d])
<1>0. StepsOfJob(d) /\ OwnRequestIsLast(d)
  BY DEF Conversation
<1>1. ASSUME Begin(d) PROVE FALSE
  <2>1. /\ part'[d] = "call"
        /\ \E j \in Jobs : j \in JobsOf[d] /\ job'[d] = j /\ step'[d] = FirstStep(j)
    BY <1>1, BeginFrame
  <2>2. PICK j \in Jobs : job'[d] = j /\ step'[d] = FirstStep(j)
    BY <2>1
  <2>3. /\ step'[d] \in {"rd0", "wr", "mget", "bump", "list", "ask"}
        /\ step'[d] = "wr" => job'[d] = "jsrPlain"
        /\ step'[d] = "bump" => job'[d] = "step"
    BY <2>2, FirstSteps
  <2> QED BY <2>1, <2>3 DEF OnTrack, IsJsr
<1>2. CASE Bump(d)
  <2>1. step[d] = "bump" /\ UNCHANGED <<job, want>>
    BY <1>2, BumpFrame
  <2> QED BY <2>1 DEF OnTrack, IsJsr
<1>3. CASE Receive(d)
  <2>1. Popped(d) /\ Awaits(d) /\ (Passed(d) \/ Replied(d)) /\ job' = job
    BY <1>3, ReceiveFrame
  <2>2. CASE Passed(d)
    <3>1. SameCall(d) /\ want' = want
      BY <2>1, <2>2 DEF Passed, SameCall
    <3> QED BY <3>1, TrackSame
  <2>3. CASE Replied(d)
    <3>1. Head(wire).id = want[d] /\ Head(wire) = wire[1] /\ 1 \in DOMAIN wire
      BY <2>1, <2>3, WireHead DEF Replied, Popped
    <3> QED BY <1>0, <2>1, <3>1 DEF OwnRequestIsLast
  <2> QED BY <2>1, <2>2, <2>3
<1>4. ASSUME Failed(d), job' = job PROVE FALSE
  <2>1. IsJsr(d)' <=> IsJsr(d)
    BY <1>4 DEF IsJsr
  <2> QED BY <1>4, <2>1 DEF Failed, OnTrack
<1>5. ASSUME ReceiveTimesOut(d) \/ WaitTimesOut(d) PROVE FALSE
  BY <1>4, <1>5, ReceiveTimesOutFrame, WaitTimesOutFrame
<1>6. CASE Scan(d) \/ WaitLock(d) \/ WaitReceive(d)
  <2>1. step[d] \in {"scan", "wait"} /\ UNCHANGED <<job, want>>
    BY <1>6, ScanFrame, WaitLockFrame, WaitReceiveFrame DEF callers
  <2> QED BY <2>1 DEF OnTrack, IsJsr
<1>7. ASSUME Listen(d) \/ Confirmed(d) \/ Ask(d) \/ AskAnswered(d) PROVE FALSE
  <2>1. step[d] \in {"clisten", "cdone", "ask"} /\ job' = job
    BY <1>7, ListenFrame, ConfirmedFrame, AskFrame, AskAnsweredFrame
  <2>2. ~ IsJsr(d)
    BY <1>0, <2>1 DEF StepsOfJob, IsJsr
  <2> QED BY <2>1, <2>2 DEF OnTrack, IsJsr
<1> QED BY <1>1, <1>2, <1>3, <1>5, <1>6, <1>7 DEF Caller

LEMMA StepWild ==
    ASSUME Conversation, NEW d \in Threads, OthersLook(d), OnlyOwnIsWild(d), [Next]_vars
    PROVE  OnlyOwnIsWild(d)'
<1> SUFFICES ASSUME OnTrack(d)', NEW i \in DOMAIN reqs'
             PROVE  Tame(reqs'[i]) \/ reqs'[i].id = want'[d]
  BY DEF OnlyOwnIsWild, Tame
<1>0. reqs \in Seq(Requests)
  BY DEF Conversation, TypeOK, SocketOK
<1>1. ASSUME OnTrack(d), NEW j \in DOMAIN reqs PROVE Tame(reqs[j]) \/ reqs[j].id = want[d]
  BY <1>1 DEF OnlyOwnIsWild
<1>2. ASSUME OnTrack(d), want'[d] = want[d], reqs' = reqs
      PROVE  Tame(reqs'[i]) \/ reqs'[i].id = want'[d]
  BY <1>1, <1>2
<1>3. CASE Running \/ ServiceText
  <2>1. UNCHANGED callers /\ reqs' = reqs
    BY <1>3, RunEffect, TextEffect DEF Conversation
  <2>2. OnTrack(d) /\ want' = want
    BY <2>1, TrackSame DEF SameCall, callers, locals
  <2> QED BY <1>2, <2>1, <2>2
<1>4. CASE Service
  <2>1. UNCHANGED callers /\ reqs' = Tail(reqs) /\ reqs # <<>>
    BY <1>4, ServiceEffect DEF Conversation
  <2>2. OnTrack(d) /\ want' = want
    BY <2>1, TrackSame DEF SameCall, callers, locals
  <2>3. i + 1 \in DOMAIN reqs /\ reqs'[i] = reqs[i + 1]
    BY <1>0, <2>1, SeqTail, SeqDomain
  <2> QED BY <1>1, <2>2, <2>3
<1>5. ASSUME NEW t \in Threads, Send(t) PROVE Tame(reqs'[i]) \/ reqs'[i].id = want'[d]
  <2>1. Sent(t)
    BY <1>5, SendFrame
  <2>2. SameCall(d)
    BY <2>1 DEF Sent, SameCall, OthersUnmoved
  <2>3. OnTrack(d)
    BY <2>2, TrackSame
  <2>4. i \in 1 .. Len(reqs) + 1 /\ Len(reqs) \in Nat /\ DOMAIN reqs = 1 .. Len(reqs)
    BY <2>1 DEF Sent
  <2>5. CASE i = Len(reqs) + 1
    <3>1. CASE t = d
      BY <2>1, <2>5, <3>1 DEF Sent
    <3>2. CASE t # d
      <4>1. step[t] \in {"rd0", "list"}
        BY <2>1, <3>2, OthersAreNotJsr, Commands DEF Sent
      <4>2. reqs'[i].cmd \in {"getregs", "cklist"}
        BY <2>1, <2>5, <4>1, Commands DEF Sent
      <4> QED BY <4>2 DEF Tame
    <3> QED BY <3>1, <3>2
  <2>6. CASE i \in 1 .. Len(reqs)
    <3>1. reqs'[i] = reqs[i] /\ reqs[i] \in Requests
      BY <1>0, <2>1, <2>4, <2>6 DEF Sent
    <3>2. Tame(reqs[i]) \/ reqs[i].id = want[d]
      BY <1>1, <2>3, <2>4, <2>6
    <3>3. CASE t = d
      <4>1. want[d] = NoneOf /\ reqs[i].id # NoneOf
        BY <2>1, <3>1, <3>3, RequestFields DEF Sent
      <4> QED BY <3>1, <3>2, <4>1
    <3>4. CASE t # d
      BY <2>1, <3>1, <3>2, <3>4 DEF Sent, OthersUnmoved
    <3> QED BY <3>3, <3>4
  <2> QED BY <2>4, <2>5, <2>6
<1>6. ASSUME NEW t \in Threads, Caller(t), ~ Send(t)
      PROVE  Tame(reqs'[i]) \/ reqs'[i].id = want'[d]
  <2>1. Framed(t)
    BY <1>6, CallerFits
  <2>2. reqs' = reqs
    BY <2>1 DEF Framed
  <2>3. CASE t = d
    <3>1. reqs # <<>>
      BY <1>0, <2>2, SeqDomain
    <3>2. OnTrack(d) /\ want'[d] = want[d]
      BY <1>6, <2>3, <3>1, StaysOnTrack
    <3> QED BY <1>2, <2>2, <3>2
  <2>4. CASE t # d
    <3>1. SameCall(d) /\ want'[d] = want[d]
      BY <2>1, <2>4 DEF Framed, OthersUnmoved, SameCall
    <3> QED BY <1>2, <2>2, <3>1, TrackSame
  <2> QED BY <2>3, <2>4
<1>7. CASE UNCHANGED vars
  <2>1. SameCall(d) /\ want' = want /\ reqs' = reqs
    BY <1>7 DEF vars, callers, locals, socket, SameCall
  <2> QED BY <1>2, <2>1, TrackSame
<1> QED BY <1>3, <1>4, <1>5, <1>6, <1>7 DEF Next, Vice, Running, Finished

-----------------------------------------------------------------------------
(* What jsr() knows of the machine.                                         *)

(* What it knows stays true while nobody moves the 6510 or writes to its    *)
(* memory, even if the monitor is entered.                                  *)
Still == /\ UNCHANGED <<ctx, code, bps, ran, hijacked>>
         /\ mode' = mode \/ mode' = "halt"

LEMMA StillKnown ==
    ASSUME NEW t \in Threads, Still, SameCall(t)
    PROVE  /\ AtRest(t) => AtRest(t)'
           /\ Flying(t) => Flying(t)'
           /\ AtLanding(t) => AtLanding(t)'
           /\ HonestEnd(t) => HonestEnd(t)'
<1>1. SavesCaller(t)' <=> SavesCaller(t)
  BY TrackSame
<1>2. UNCHANGED <<ctx, code, bps, ran, hijacked>> /\ (mode = "halt" => mode' = "halt")
  BY DEF Still
<1>3. job'[t] = job[t] /\ part'[t] = part[t] /\ saved'[t] = saved[t] /\ bp'[t] = bp[t]
  BY DEF SameCall
<1> QED BY <1>1, <1>2, <1>3 DEF AtRest, Flying, AtLanding, HonestEnd, SameFrames

(* A step that leaves the call, its answers and the machine alone.          *)
Quiet(t) ==
    /\ Still /\ SameCall(t) /\ want'[t] = want[t]
    /\ Served(t)' <=> Served(t)
    /\ \A i \in DOMAIN wire' : wire'[i].id = want[t] /\ want[t] # NoneOf =>
          \E j \in DOMAIN wire : wire'[i] = wire[j]

LEMMA QuietKnows ==
    ASSUME NEW t \in Threads, Quiet(t), WhatJsrKnows(t)
    PROVE  WhatJsrKnows(t)'
<1> SUFFICES ASSUME IsJsr(t)' PROVE WhatJsrKnows(t)'
  BY DEF WhatJsrKnows
<1>1. /\ IsJsr(t) /\ Still /\ want'[t] = want[t] /\ step'[t] = step[t] /\ part'[t] = part[t]
      /\ exc'[t] = exc[t] /\ saved'[t] = saved[t] /\ bp'[t] = bp[t]
      /\ OnTrack(t)' <=> OnTrack(t)
      /\ Served(t)' <=> Served(t)
      /\ Awaits(t)' <=> Awaits(t)
  BY TrackSame DEF Quiet, SameCall, Awaits
<1>2. /\ AtRest(t) => AtRest(t)'
      /\ Flying(t) => Flying(t)'
      /\ AtLanding(t) => AtLanding(t)'
      /\ HonestEnd(t) => HonestEnd(t)'
  BY StillKnown DEF Quiet
<1>3. UNCHANGED <<ctx, code, bps, ran, hijacked>> /\ (mode = "halt" => mode' = "halt")
  BY <1>1 DEF Still
<1>4. /\ step[t] \in {"rd0", "rd1", "hread"} /\ Served(t) => mode = "halt"
      /\ step[t] = "wr" /\ (OnTrack(t) \/ Served(t)) => AtRest(t)
      /\ step[t] = "wr" /\ Served(t) => code = part[t]
      /\ step[t] = "ck" => AtRest(t) /\ code = part[t]
      /\ step[t] = "ck" /\ Served(t) => want[t] \in bps
      /\ step[t] = "pc" /\ ~Served(t) => AtRest(t) /\ code = part[t] /\ bp[t] \in bps
      /\ step[t] = "pc" /\ Served(t) => Flying(t)
      /\ step[t] \in {"bump", "go", "scan", "wait", "rd1"} => Flying(t)
      /\ step[t] = "del" /\ exc[t] = "none" => AtLanding(t)
      /\ step[t] = "rst" => mode = "halt" /\ ran /\ hijacked = saved[t]
      /\ step[t] = "rst" /\ Served(t) => ctx = saved[t]
      /\ step[t] = "hset" => mode = "halt"
      /\ step[t] = "hset" /\ Served(t) => SameFrames(ctx, saved[t])
      /\ step[t] = "done" /\ exc[t] = "none" => HonestEnd(t)
  BY <1>1 DEF WhatJsrKnows
<1>5. step'[t] \in {"rd0", "rd1"} /\ Awaits(t)' =>
         \A i \in DOMAIN wire' : wire'[i].id = want'[t] => wire'[i].val = ctx'
  <2>1. step[t] \in {"rd0", "rd1"} /\ Awaits(t) =>
           \A i \in DOMAIN wire : wire[i].id = want[t] => wire[i].val = ctx
    BY <1>1 DEF WhatJsrKnows
  <2> QED BY <1>1, <1>3, <2>1 DEF Quiet, Awaits
<1> QED BY <1>1, <1>2, <1>3, <1>4, <1>5 DEF WhatJsrKnows, SameFrames

(* A call that waits for no reply.                                          *)
KnowsFree(t) ==
    IsJsr(t) =>
        /\ step[t] = "wr" /\ OnTrack(t) => AtRest(t)
        /\ step[t] = "ck" => AtRest(t) /\ code = part[t]
        /\ step[t] = "pc" => AtRest(t) /\ code = part[t] /\ bp[t] \in bps
        /\ step[t] \in {"bump", "go", "scan", "wait", "rd1"} => Flying(t)
        /\ step[t] = "del" /\ exc[t] = "none" => AtLanding(t)
        /\ step[t] = "rst" => mode = "halt" /\ ran /\ hijacked = saved[t]
        /\ step[t] = "hset" => mode = "halt"
        /\ step[t] = "done" /\ exc[t] = "none" => HonestEnd(t)

LEMMA FreeKnows ==
    ASSUME NEW t \in Threads, want'[t] = NoneOf, KnowsFree(t)'
    PROVE  WhatJsrKnows(t)'
<1>1. ~ Awaits(t)' /\ ~ Served(t)'
  BY DEF Awaits, Served
<1> QED BY <1>1 DEF WhatJsrKnows, KnowsFree

(* A failed call claims nothing.                                            *)
LEMMA FailedKnows ==
    ASSUME NEW t \in Threads, Failed(t), job' = job, want'[t] = NoneOf
    PROVE  WhatJsrKnows(t)'
<1>1. IsJsr(t)' <=> IsJsr(t)
  BY DEF IsJsr
<1>2. KnowsFree(t)'
  BY <1>1 DEF Failed, KnowsFree
<1> QED BY <1>2, FreeKnows

(* The routine runs to its checkpoint and no further.                       *)
LEMMA RunFlying ==
    ASSUME Conversation, NEW t \in Threads, Running, Flying(t)
    PROVE  Flying(t)'
<1>1. UNCHANGED <<code, bps, hijacked, callers>> /\ ctx \in Ctx /\ mode = "run"
  BY RunEffect DEF Conversation, TypeOK, MachineOK
<1>2. /\ UNCHANGED <<job, part, saved, bp>>
      /\ SavesCaller(t)' <=> SavesCaller(t)
  BY <1>1 DEF callers, locals, SavesCaller
<1>3. code = part[t] /\ bp[t] \in bps /\ (SavesCaller(t) => hijacked = saved[t])
  BY DEF Flying
<1>4. ASSUME part[t] = "call"
      PROVE  /\ ctx'.at \in {"scratch", "inside", "kil", "landing"}
             /\ ctx'.at = "landing" => ran'
  <2>1. ctx.at \in {"scratch", "inside", "kil", "landing"} /\ (ctx.at = "landing" => ran)
    BY <1>4 DEF Flying
  <2>2. CASE RunTrampoline
    <3>1. ctx' = [ctx EXCEPT !.at = "inside", !.sp = 1]
      BY <1>3, <1>4, <2>2 DEF RunTrampoline
    <3> QED BY <1>1, <3>1 DEF Ctx
  <2>3. CASE RunReturn
    BY <1>1, <2>3 DEF RunReturn, Ctx
  <2>4. CASE RunInside
    <3>1. /\ ctx.at = "inside"
          /\ \/ ctx' = [ctx EXCEPT !.fl = "routine"]
             \/ ctx' = [ctx EXCEPT !.at = "kil"]
             \/ ctx' = ctx
      BY <2>4 DEF RunInside
    <3> QED BY <1>1, <3>1 DEF Ctx
  <2>5. CASE RunJam
    BY <2>1, <2>5 DEF RunJam
  <2>6. CASE RunLanding
    <3>1. ctx' = ctx /\ ran' = ran
      BY <1>3, <2>6 DEF RunLanding
    <3> QED BY <2>1, <3>1
  <2> QED BY <2>2, <2>3, <2>4, <2>5, <2>6 DEF Running
<1>5. ASSUME part[t] = "probe"
      PROVE  ctx'.at \in {"scratch", "landing"} /\ SameFrames(ctx', saved[t])
  <2>1. ctx.at \in {"scratch", "landing"} /\ SameFrames(ctx, saved[t])
    BY <1>5 DEF Flying
  <2>2. CASE RunTrampoline
    <3>1. ctx' = [ctx EXCEPT !.at = "landing"]
      BY <1>3, <1>5, <2>2 DEF RunTrampoline
    <3> QED BY <1>1, <2>1, <3>1 DEF Ctx, SameFrames
  <2>3. CASE RunLanding
    <3>1. ctx' = ctx
      BY <1>3, <2>3 DEF RunLanding
    <3> QED BY <2>1, <3>1
  <2>4. ~ (RunReturn \/ RunInside \/ RunJam)
    BY <2>1 DEF RunReturn, RunInside, RunJam
  <2> QED BY <2>2, <2>3, <2>4 DEF Running
<1> QED BY <1>1, <1>2, <1>3, <1>4, <1>5 DEF Flying, SameFrames

LEMMA RunningKnows ==
    ASSUME Conversation, NEW t \in Threads, Running, WhatJsrKnows(t)
    PROVE  WhatJsrKnows(t)'
<1>1. /\ mode = "run" /\ UNCHANGED <<reqs, callers>> /\ wire' \in Seq(Frames) /\ Grown(wire, wire')
      /\ \A j \in DOMAIN wire' : j > Len(wire) => wire'[j].id = NoneOf
  BY RunEffect DEF Conversation
<1>2. SameCall(t) /\ want' = want
  BY <1>1 DEF SameCall, callers, locals
<1>3. /\ step'[t] = step[t] /\ exc'[t] = exc[t]
      /\ IsJsr(t)' <=> IsJsr(t)
      /\ OnTrack(t)' <=> OnTrack(t)
      /\ Served(t)' <=> Served(t)
      /\ Awaits(t)' <=> Awaits(t)
  BY <1>1, <1>2, TrackSame DEF SameCall, Awaits, Served
<1> SUFFICES ASSUME IsJsr(t) PROVE WhatJsrKnows(t)'
  BY <1>3 DEF WhatJsrKnows
<1>4. /\ ~ (step[t] \in {"rd0", "rd1", "hread"} /\ Served(t))
      /\ ~ (step[t] = "wr" /\ (OnTrack(t) \/ Served(t)))
      /\ step[t] # "ck" /\ step[t] # "rst" /\ step[t] # "hset"
      /\ step[t] = "pc" => Served(t) /\ Flying(t)
      /\ step[t] \in {"bump", "go", "scan", "wait", "rd1"} => Flying(t)
      /\ ~ (step[t] \in {"del", "done"} /\ exc[t] = "none")
  BY <1>1 DEF WhatJsrKnows, AtRest, AtLanding, HonestEnd
<1>5. Flying(t) => Flying(t)'
  BY RunFlying
<1>6. ASSUME step[t] \in {"rd0", "rd1"}, Awaits(t), NEW i \in DOMAIN wire', wire'[i].id = want[t]
      PROVE  FALSE
  <2>1. reqs # <<>> /\ OwnRequestIsLast(t) /\ wire \in Seq(Frames)
    BY <1>4, <1>6 DEF Served, Conversation, TypeOK, SocketOK
  <2>2. \A j \in DOMAIN wire : wire[j].id # want[t]
    BY <1>6, <2>1 DEF OwnRequestIsLast
  <2>3. i \in DOMAIN wire \/ i > Len(wire)
    BY <1>1, <2>1, SeqDomain
  <2> QED BY <1>1, <1>6, <2>2, <2>3 DEF Grown, Awaits
<1> QED BY <1>2, <1>3, <1>4, <1>5, <1>6 DEF WhatJsrKnows

(* The service of somebody else's request.                                  *)
LEMMA OtherServiceKnows ==
    ASSUME Conversation, NEW t \in Threads, OnlyOwnIsWild(t), Service, ~ Answers(t), WhatJsrKnows(t)
    PROVE  WhatJsrKnows(t)'
<1> DEFINE r == Head(reqs)
<1>1. /\ reqs # <<>> /\ r \in Requests /\ r = reqs[1] /\ reqs' = Tail(reqs) /\ Carried(r) /\ Told(r)
      /\ UNCHANGED callers
  BY ServiceEffect DEF Conversation
<1>2. SameCall(t) /\ want' = want
  BY <1>1 DEF SameCall, callers, locals
<1>3. /\ Awaits(t) => reqs' # <<>>
      /\ Awaits(t) => \A i \in DOMAIN wire : wire[i].id # want[t]
  BY <1>1, ServedRequest
<1>4. /\ Awaits(t)' <=> Awaits(t)
      /\ ~ Served(t)' /\ ~ Served(t)
      /\ step'[t] = step[t] /\ exc'[t] = exc[t]
      /\ IsJsr(t)' <=> IsJsr(t)
      /\ OnTrack(t)' <=> OnTrack(t)
  BY <1>1, <1>2, <1>3, TrackSame DEF Awaits, Served, SameCall
<1> SUFFICES ASSUME IsJsr(t) PROVE WhatJsrKnows(t)'
  BY <1>4 DEF WhatJsrKnows
<1>5. r.id # NoneOf /\ 1 \in DOMAIN reqs
  <2>1. reqs \in Seq(Requests)
    BY DEF Conversation, TypeOK, SocketOK
  <2> QED BY <1>1, <2>1, RequestFields, SeqTail
<1>6. r.id # want[t]
  <2>1. CASE Awaits(t)
    BY <2>1 DEF Answers
  <2>2. CASE ~ Awaits(t)
    <3>1. want[t] = NoneOf
      <4>1. step[t] # "ask"
        BY DEF Conversation, StepsOfJob
      <4>2. step[t] \notin DOMAIN Command => want[t] = NoneOf
        BY <4>1, WantNone DEF Conversation, LockedWhileWaiting, NoneOf
      <4> QED BY <2>2, <4>2 DEF Awaits
    <3> QED BY <1>5, <3>1
  <2> QED BY <2>1, <2>2
<1>7. ASSUME NEW i \in DOMAIN wire', wire'[i].id = want[t], want[t] # NoneOf
      PROVE  i \in DOMAIN wire /\ wire'[i] = wire[i]
  <2>1. wire \in Seq(Frames) /\ wire' \in Seq(Frames)
    BY <1>1 DEF Conversation, TypeOK, SocketOK, Told
  <2>2. i \in DOMAIN wire \/ i > Len(wire)
    BY <2>1, SeqDomain
  <2>3. ~ (i > Len(wire))
    BY <1>1, <1>6, <1>7 DEF Told
  <2> QED BY <1>1, <2>2, <2>3 DEF Told, Grown
<1> HIDE DEF r
<1>8. CASE OnTrack(t)
  <2>1. Tame(r)
    BY <1>1, <1>5, <1>6, <1>8 DEF OnlyOwnIsWild
  <2>2. Still
    <3>1. r.cmd \in {"getregs", "memget", "cklist"}
      BY <2>1 DEF Tame
    <3>2. ran \in BOOLEAN
      BY DEF Conversation, TypeOK, MachineOK
    <3> QED BY <1>1, <3>1, <3>2 DEF Carried, Still
  <2>3. Quiet(t)
    BY <1>2, <1>4, <1>7, <2>2 DEF Quiet
  <2> QED BY <2>3, QuietKnows
<1>9. CASE ~ OnTrack(t)
  <2>1. /\ step[t] \notin {"ck", "pc", "bump", "go", "scan", "wait", "rd1", "rst", "hset"}
        /\ ~ (step[t] \in {"del", "done"} /\ exc[t] = "none")
    BY <1>9 DEF OnTrack
  <2>2. ASSUME Awaits(t), NEW i \in DOMAIN wire', wire'[i].id = want[t] PROVE FALSE
    BY <1>3, <1>7, <2>2 DEF Awaits
  <2> QED BY <1>2, <1>4, <1>9, <2>1, <2>2 DEF WhatJsrKnows
<1> QED BY <1>8, <1>9

(* The service of its own.                                                  *)
LEMMA OwnServiceKnows ==
    ASSUME Conversation, NEW t \in Threads, Service, Answers(t), WhatJsrKnows(t)
    PROVE  WhatJsrKnows(t)'
<1> DEFINE r == Head(reqs)
<1>1. /\ reqs # <<>> /\ r \in Requests /\ reqs' = Tail(reqs) /\ Carried(r) /\ Told(r)
      /\ UNCHANGED callers
  BY ServiceEffect DEF Conversation
<1>2. SameCall(t) /\ want' = want
  BY <1>1 DEF SameCall, callers, locals
<1>3. /\ Awaits(t) /\ Own(t, r) /\ reqs' = <<>>
      /\ \A i \in DOMAIN wire : wire[i].id # want[t]
  BY <1>1, ServedRequest DEF Answers
<1>4. /\ Awaits(t)' /\ Served(t)' /\ ~ Served(t)
      /\ step'[t] = step[t] /\ exc'[t] = exc[t] /\ part'[t] = part[t] /\ saved'[t] = saved[t]
      /\ bp'[t] = bp[t] /\ want'[t] = want[t] /\ job'[t] = job[t]
      /\ IsJsr(t)' <=> IsJsr(t)
      /\ OnTrack(t)' <=> OnTrack(t)
      /\ SavesCaller(t)' <=> SavesCaller(t)
  BY <1>1, <1>2, <1>3, TrackSame DEF Awaits, Served, SameCall
<1> SUFFICES ASSUME IsJsr(t) PROVE WhatJsrKnows(t)'
  BY <1>4 DEF WhatJsrKnows
<1>5. /\ r.id = want[t] /\ r.cmd = Command[step[t]] /\ r.code = part[t] /\ r.regs = saved[t]
      /\ r.bp = bp[t] /\ want[t] # NoneOf /\ step[t] \in DOMAIN Command
  BY <1>3 DEF Own, Awaits
<1>6. ASSUME NEW i \in DOMAIN wire', wire'[i].id = want'[t] PROVE wire'[i].val = ctx
  <2>1. wire \in Seq(Frames) /\ wire' \in Seq(Frames)
    BY <1>1 DEF Conversation, TypeOK, SocketOK, Told
  <2>2. i \in DOMAIN wire \/ i > Len(wire)
    BY <2>1, SeqDomain
  <2>3. i \notin DOMAIN wire
    BY <1>1, <1>3, <1>4, <1>6 DEF Told, Grown
  <2> QED BY <1>1, <1>4, <1>5, <1>6, <2>2, <2>3 DEF Told
<1>7. ran \in BOOLEAN /\ ctx \in Ctx /\ saved[t] \in Ctx /\ part[t] \in Parts
  BY DEF Conversation, TypeOK, MachineOK, LocalsOK, Parts
<1> HIDE DEF r
<1>8. r.cmd # "exit" => mode' = "halt"
  BY <1>1 DEF Carried
<1>9. CASE step[t] \in {"rd0", "rd1", "hread", "jamread"}
  <2>1. r.cmd = "getregs"
    BY <1>5, <1>9, Commands
  <2>2. Still /\ mode' = "halt" /\ ctx' = ctx
    BY <1>1, <1>7, <2>1 DEF Carried, Still
  <2>3. step[t] = "rd1" => Flying(t)'
    BY <1>2, <2>2, StillKnown DEF WhatJsrKnows
  <2> QED BY <1>4, <1>6, <1>9, <2>2, <2>3 DEF WhatJsrKnows
<1>10. CASE step[t] = "wr"
  <2>1. r.cmd = "memset"
    BY <1>5, <1>10, Commands
  <2>2. mode' = "halt" /\ ctx' = ctx /\ code' = part[t]
    BY <1>1, <1>5, <2>1 DEF Carried
  <2>3. OnTrack(t) => AtRest(t)
    BY <1>10 DEF WhatJsrKnows
  <2>4. ~ OnTrack(t) => ~ SavesCaller(t) /\ part[t] # "probe"
    BY <1>10 DEF OnTrack, SavesCaller
  <2>5. AtRest(t)'
    BY <1>4, <2>2, <2>3, <2>4 DEF AtRest, SameFrames
  <2> QED BY <1>4, <1>10, <2>2, <2>5 DEF WhatJsrKnows
<1>11. CASE step[t] = "ck"
  <2>1. r.cmd = "ckset"
    BY <1>5, <1>11, Commands
  <2>2. mode' = "halt" /\ ctx' = ctx /\ code' = code /\ want[t] \in bps'
    BY <1>1, <1>5, <2>1 DEF Carried
  <2>3. AtRest(t) /\ code = part[t]
    BY <1>11 DEF WhatJsrKnows
  <2>4. AtRest(t)'
    BY <1>4, <2>2, <2>3 DEF AtRest, SameFrames
  <2> QED BY <1>4, <1>11, <2>2, <2>3, <2>4 DEF WhatJsrKnows
<1>12. CASE step[t] = "pc"
  <2>1. r.cmd = "setpc"
    BY <1>5, <1>12, Commands
  <2>2. /\ ctx' = [ctx EXCEPT !.at = "scratch"] /\ code' = code /\ bps' = bps
        /\ hijacked' = IF code = "call" THEN ctx ELSE hijacked
    BY <1>1, <2>1 DEF Carried
  <2>3. AtRest(t) /\ code = part[t] /\ bp[t] \in bps
    BY <1>4, <1>12 DEF WhatJsrKnows
  <2>4. ctx'.at = "scratch" /\ ctx'.sp = ctx.sp /\ ctx'.fl = ctx.fl
    BY <1>7, <2>2 DEF Ctx
  <2>5. SavesCaller(t) => hijacked' = saved[t]
    BY <2>2, <2>3 DEF AtRest, SavesCaller
  <2>6. part[t] = "probe" => SameFrames(ctx', saved[t])
    BY <2>3, <2>4 DEF AtRest, SameFrames
  <2>7. Flying(t)'
    BY <1>4, <2>2, <2>3, <2>4, <2>5, <2>6 DEF Flying, SameFrames
  <2> QED BY <1>4, <1>12, <2>7 DEF WhatJsrKnows
<1>13. CASE step[t] = "go"
  <2>1. r.cmd = "exit"
    BY <1>5, <1>13, Commands
  <2>2. UNCHANGED <<ctx, code, bps, ran, hijacked>>
    BY <1>1, <1>7, <2>1 DEF Carried
  <2>3. Flying(t)
    BY <1>13 DEF WhatJsrKnows
  <2>4. Flying(t)'
    BY <1>4, <2>2, <2>3 DEF Flying, SameFrames
  <2> QED BY <1>4, <1>13, <2>4 DEF WhatJsrKnows
<1>14. CASE step[t] = "del"
  <2>1. r.cmd = "ckdel"
    BY <1>5, <1>14, Commands
  <2>2. mode' = "halt" /\ UNCHANGED <<ctx, ran, hijacked>>
    BY <1>1, <1>7, <2>1 DEF Carried
  <2>3. AtLanding(t) => AtLanding(t)'
    BY <1>4, <2>2 DEF AtLanding, SameFrames
  <2> QED BY <1>4, <1>14, <2>3 DEF WhatJsrKnows
<1>15. CASE step[t] = "rst"
  <2>1. r.cmd = "restore"
    BY <1>5, <1>15, Commands
  <2>2. mode' = "halt" /\ ctx' = saved[t] /\ UNCHANGED <<ran, hijacked>>
    BY <1>1, <1>5, <1>7, <2>1 DEF Carried
  <2> QED BY <1>4, <1>15, <2>2 DEF WhatJsrKnows
<1>16. CASE step[t] = "hset"
  <2>1. r.cmd = "unwind"
    BY <1>5, <1>16, Commands
  <2>2. mode' = "halt" /\ ctx' = [saved[t] EXCEPT !.at = ctx.at]
    BY <1>1, <1>5, <2>1 DEF Carried
  <2>3. ctx'.sp = saved[t].sp /\ ctx'.fl = saved[t].fl
    BY <1>7, <2>2 DEF Ctx
  <2> QED BY <1>4, <1>16, <2>2, <2>3 DEF WhatJsrKnows, SameFrames
<1>17. step[t] \notin {"mget", "adv", "list", "cgo"}
  BY DEF Conversation, StepsOfJob, IsJsr
<1> QED BY <1>5, <1>9, <1>10, <1>11, <1>12, <1>13, <1>14, <1>15, <1>16, <1>17, Commands

LEMMA SentKnows ==
    ASSUME Conversation, NEW t \in Threads, Sent(t), WhatJsrKnows(t)
    PROVE  WhatJsrKnows(t)'
<1>1. /\ want[t] = NoneOf /\ reqs' # <<>> /\ want'[t] = ids
      /\ UNCHANGED <<mode, ctx, code, bps, ran, hijacked, wire>>
  BY DEF Sent, machine
<1>2. SameCall(t)
  BY DEF Sent, Stays, SameCall
<1>3. /\ ~ Served(t) /\ ~ Served(t)'
      /\ step'[t] = step[t] /\ exc'[t] = exc[t] /\ part'[t] = part[t] /\ saved'[t] = saved[t]
      /\ bp'[t] = bp[t]
      /\ IsJsr(t)' <=> IsJsr(t)
      /\ OnTrack(t)' <=> OnTrack(t)
  BY <1>1, <1>2, TrackSame DEF Awaits, Served, SameCall
<1>4. /\ AtRest(t) => AtRest(t)'
      /\ Flying(t) => Flying(t)'
      /\ AtLanding(t) => AtLanding(t)'
      /\ HonestEnd(t) => HonestEnd(t)'
  BY <1>1, <1>2, StillKnown DEF Still
<1>5. \A i \in DOMAIN wire : wire[i].id # want'[t]
  <2>1. \A i \in DOMAIN wire : wire[i].id \in Nat /\ wire[i].id < ids
    <3>1. wire \in Seq(Frames) /\ \A f \in Frames : f.id \in Nat
      BY DEF Conversation, TypeOK, SocketOK, Frames, NoneOf
    <3> QED BY <3>1, SeqDomain DEF Conversation, IdsInOrder
  <2> QED BY <1>1, <2>1 DEF Conversation, TypeOK, ClientOK
<1> QED BY <1>1, <1>3, <1>4, <1>5 DEF WhatJsrKnows

(* The reply to a command of jsr(), and where it goes from there.           *)
LEMMA ReplyKnows ==
    ASSUME Conversation, NEW t \in Threads, Awaits(t), Popped(t), Replied(t), UNCHANGED machine,
           job' = job, LocalsOK', WhatJsrKnows(t)
    PROVE  WhatJsrKnows(t)'
<1> DEFINE val == Head(wire).val
<1>1. /\ want'[t] = NoneOf /\ Head(wire).id = want[t] /\ Turned(t)
      /\ step[t] \in DOMAIN Command /\ StepsOfJob(t) /\ OwnRequestIsLast(t)
  BY DEF Replied, Awaits, Conversation
<1>2. /\ IsJsr(t)' <=> IsJsr(t)
      /\ job'[t] = job[t]
  BY DEF IsJsr
<1> SUFFICES ASSUME IsJsr(t) PROVE KnowsFree(t)'
  BY <1>1, <1>2, FreeKnows DEF KnowsFree
<1>3. step[t] \notin {"mget", "adv", "list", "cgo"}
  BY <1>1 DEF StepsOfJob, IsJsr
<1>4. After(t, val) /\ SavedOnly(t)
  BY <1>3 DEF Replied
<1>5. Head(wire) = wire[1] /\ 1 \in DOMAIN wire
  BY WireHead DEF Popped
<1>6. Served(t)
  BY <1>1, <1>5 DEF OwnRequestIsLast, Served
<1>7. UNCHANGED <<mode, ctx, code, bps, ran, hijacked>> /\ ctx \in Ctx /\ saved[t] \in Ctx
      /\ part[t] \in Parts
  BY DEF machine, Conversation, TypeOK, MachineOK, LocalsOK, Parts
<1>8. step[t] \in {"rd0", "rd1"} => val = ctx
  BY <1>1, <1>5 DEF WhatJsrKnows
<1>9. /\ step[t] # "rd0" => saved'[t] = saved[t]
      /\ step[t] # "ck" => bp'[t] = bp[t]
  BY <1>4 DEF SavedOnly
<1> HIDE DEF val
<1>10. CASE step[t] = "rd0"
  <2>1. step'[t] = "wr" /\ saved'[t] = ctx /\ part'[t] = "call" /\ mode' = "halt"
    <3>1. step'[t] = "wr" /\ saved'[t] = val /\ part'[t] = part[t]
      BY <1>4, <1>10 DEF After
    <3>2. part[t] = "call"
      BY <1>1, <1>10 DEF StepsOfJob
    <3>3. mode = "halt"
      BY <1>6, <1>10 DEF WhatJsrKnows
    <3> QED BY <1>7, <1>8, <1>10, <3>1, <3>2, <3>3
  <2>2. AtRest(t)'
    BY <1>7, <2>1 DEF AtRest
  <2> QED BY <2>1, <2>2 DEF KnowsFree
<1>11. CASE step[t] = "wr"
  <2>1. step'[t] = "ck" /\ part'[t] = part[t] /\ saved'[t] = saved[t]
    BY <1>4, <1>9, <1>11 DEF After, Straight
  <2>2. AtRest(t) /\ code = part[t]
    BY <1>6, <1>11 DEF WhatJsrKnows
  <2>3. AtRest(t)'
    BY <1>2, <1>7, <2>1, <2>2 DEF AtRest, SavesCaller, SameFrames
  <2> QED BY <1>7, <2>1, <2>2, <2>3 DEF KnowsFree
<1>12. CASE step[t] = "ck"
  <2>1. step'[t] = "pc" /\ bp'[t] = want[t] /\ part'[t] = part[t] /\ saved'[t] = saved[t]
    BY <1>4, <1>9, <1>12 DEF After, Straight
  <2>2. AtRest(t) /\ code = part[t] /\ want[t] \in bps
    BY <1>6, <1>12 DEF WhatJsrKnows
  <2>3. AtRest(t)'
    BY <1>2, <1>7, <2>1, <2>2 DEF AtRest, SavesCaller, SameFrames
  <2> QED BY <1>7, <2>1, <2>2, <2>3 DEF KnowsFree
<1>13. CASE step[t] \in {"pc", "go"}
  <2>1. /\ step'[t] \in {"bump", "scan"} /\ part'[t] = part[t]
        /\ saved'[t] = saved[t] /\ bp'[t] = bp[t]
    BY <1>4, <1>9, <1>13 DEF After, Straight, IsJsr
  <2>2. Flying(t)
    BY <1>6, <1>13 DEF WhatJsrKnows
  <2>3. Flying(t)'
    BY <1>2, <1>7, <2>1, <2>2 DEF Flying, SavesCaller, SameFrames
  <2> QED BY <2>1, <2>3 DEF KnowsFree
<1>14. CASE step[t] = "rd1"
  <2>1. CASE Failed(t)
    BY <1>2, <2>1 DEF Failed, KnowsFree
  <2>2. CASE Landed(val) /\ step'[t] = "del" /\ part'[t] = part[t]
    <3>1. mode = "halt" /\ ctx.at = "landing" /\ Flying(t)
      BY <1>6, <1>8, <1>14, <2>2 DEF WhatJsrKnows, Landed
    <3>2. AtLanding(t)'
      BY <1>2, <1>7, <1>9, <1>14, <2>2, <3>1 DEF Flying, AtLanding, SavesCaller, SameFrames
    <3> QED BY <2>2, <3>2 DEF KnowsFree
  <2> QED BY <1>4, <1>14, <2>1, <2>2 DEF After
<1>15. CASE step[t] = "del"
  <2>1. Once(t, exc[t])
    BY <1>4, <1>15 DEF After
  <2>2. exc[t] = "none" => AtLanding(t)
    BY <1>15 DEF WhatJsrKnows
  <2>3. CASE step'[t] = "rst"
    <3>1. exc[t] = "none" /\ SavesCaller(t)
      BY <2>1, <2>3 DEF Once
    <3>2. mode = "halt" /\ hijacked = saved[t] /\ ran
      BY <2>2, <3>1 DEF AtLanding, SavesCaller
    <3> QED BY <1>7, <1>9, <1>15, <2>3, <3>2 DEF KnowsFree
  <2>4. CASE step'[t] = "hread"
    BY <2>4 DEF KnowsFree
  <2>5. CASE step'[t] = "done"
    <3> SUFFICES ASSUME exc'[t] = "none" PROVE HonestEnd(t)'
      BY <2>5 DEF KnowsFree
    <3>1. exc[t] = "none" /\ part'[t] = part[t] /\ ~ SavesCaller(t) /\ AtLanding(t)
      BY <2>1, <2>2, <2>5 DEF Once
    <3>2. part[t] = "call" => ran /\ job[t] = "jsrPlain"
      BY <3>1 DEF AtLanding, SavesCaller
    <3>3. part[t] = "probe" => ctx = [saved[t] EXCEPT !.at = "landing"]
      BY <1>7, <3>1 DEF AtLanding, SameFrames, Ctx
    <3> QED BY <1>2, <1>7, <1>9, <1>15, <3>1, <3>2, <3>3 DEF HonestEnd, AtLanding
  <2> QED BY <2>1, <2>3, <2>4, <2>5 DEF Once
<1>16. CASE step[t] = "rst"
  <2>1. step'[t] = "done" /\ part'[t] = part[t]
    BY <1>4, <1>16 DEF After, Straight
  <2>2. part[t] = "call"
    BY <1>1, <1>16 DEF StepsOfJob
  <2>3. mode = "halt" /\ ran /\ hijacked = saved[t] /\ ctx = saved[t]
    BY <1>6, <1>16 DEF WhatJsrKnows
  <2>4. HonestEnd(t)'
    BY <1>7, <2>1, <2>2, <2>3 DEF HonestEnd
  <2> QED BY <2>1, <2>4 DEF KnowsFree
<1>17. CASE step[t] = "hread"
  <2>1. step'[t] = "hset" /\ mode = "halt"
    BY <1>4, <1>6, <1>17 DEF After, WhatJsrKnows
  <2> QED BY <1>7, <2>1 DEF KnowsFree
<1>18. CASE step[t] = "hset"
  <2>1. step'[t] = "wr" /\ part'[t] = part[t] /\ saved'[t] = saved[t]
    BY <1>4, <1>9, <1>18 DEF After, Straight
  <2>2. part[t] = "probe" /\ mode = "halt" /\ SameFrames(ctx, saved[t])
    BY <1>1, <1>6, <1>18 DEF StepsOfJob, WhatJsrKnows
  <2>3. AtRest(t)'
    BY <1>7, <2>1, <2>2 DEF AtRest, SavesCaller, SameFrames
  <2> QED BY <2>1, <2>3 DEF KnowsFree
<1>19. CASE step[t] = "jamread"
  <2>1. Failed(t)
    BY <1>4, <1>19 DEF After
  <2> QED BY <1>2, <2>1 DEF Failed, KnowsFree
<1> QED BY <1>1, <1>3, <1>10, <1>11, <1>12, <1>13, <1>14, <1>15, <1>16, <1>17, <1>18, <1>19, Commands

(* While the driver looks for its stop, nothing moves.                      *)
LEMMA LookingKnows ==
    ASSUME NEW t \in Threads, WhatJsrKnows(t), step[t] \in {"bump", "scan", "wait"}, UNCHANGED machine,
           want'[t] = NoneOf, job' = job, saved'[t] = saved[t], bp'[t] = bp[t], part'[t] = part[t],
           IsJsr(t) => step'[t] \in {"go", "wait", "rd1", "jamread"}
    PROVE  WhatJsrKnows(t)'
<1>1. (IsJsr(t)' <=> IsJsr(t)) /\ (SavesCaller(t)' <=> SavesCaller(t))
  BY DEF IsJsr, SavesCaller
<1>2. IsJsr(t) => Flying(t)
  BY DEF WhatJsrKnows
<1>3. IsJsr(t) => Flying(t)'
  BY <1>1, <1>2 DEF Flying, machine, SameFrames
<1>4. KnowsFree(t)'
  BY <1>1, <1>3 DEF KnowsFree
<1> QED BY <1>4, FreeKnows

LEMMA DriverKnows ==
    ASSUME Conversation, NEW d \in Threads, Caller(d), ~ Send(d), WhatJsrKnows(d)
    PROVE  WhatJsrKnows(d)'
<1>0. Framed(d) /\ UNCHANGED machine /\ LocalsOK' /\ StepsOfJob(d)
  BY CallerFits DEF Framed, Conversation
<1>1. CASE Begin(d)
  <2>1. /\ part'[d] = "call" /\ want'[d] = NoneOf
        /\ \E j \in Jobs : j \in JobsOf[d] /\ job'[d] = j /\ step'[d] = FirstStep(j)
    BY <1>1, BeginFrame
  <2>2. PICK j \in Jobs : job'[d] = j /\ step'[d] = FirstStep(j)
    BY <2>1
  <2>3. /\ step'[d] \in {"rd0", "wr", "mget", "bump", "list", "ask"}
        /\ step'[d] = "wr" => job'[d] = "jsrPlain"
        /\ step'[d] = "bump" => job'[d] = "step"
    BY <2>2, FirstSteps
  <2>4. KnowsFree(d)'
    BY <2>1, <2>3 DEF KnowsFree, OnTrack, IsJsr
  <2> QED BY <2>1, <2>4, FreeKnows
<1>2. CASE Bump(d)
  <2>1. /\ step[d] = "bump" /\ step'[d] \in {"adv", "go"} /\ (step'[d] = "adv" => job[d] = "step")
        /\ want'[d] = NoneOf /\ UNCHANGED <<job, part, saved, bp>>
    BY <1>2, BumpFrame
  <2> QED BY <1>0, <2>1, LookingKnows DEF IsJsr
<1>3. CASE Receive(d)
  <2>1. Popped(d) /\ Awaits(d) /\ (Passed(d) \/ Replied(d)) /\ UNCHANGED <<reqs, job>>
    BY <1>3, ReceiveFrame
  <2>2. CASE Passed(d)
    <3>1. SameCall(d) /\ want' = want /\ (Served(d)' <=> Served(d)) /\ Still
      BY <1>0, <2>1, <2>2 DEF Passed, SameCall, Served, Awaits, Still, machine
    <3>2. Quiet(d)
      BY <2>1, <3>1, PoppedWire DEF Quiet
    <3> QED BY <3>2, QuietKnows
  <2>3. CASE Replied(d)
    BY <1>0, <2>1, <2>3, ReplyKnows
  <2> QED BY <2>1, <2>2, <2>3
<1>4. CASE ReceiveTimesOut(d)
  <2>1. Failed(d) /\ job' = job /\ want'[d] = NoneOf
    BY <1>4, ReceiveTimesOutFrame
  <2> QED BY <2>1, FailedKnows
<1>5. CASE WaitTimesOut(d)
  <2>1. Failed(d) /\ job' = job /\ want'[d] = NoneOf
    BY <1>5, WaitTimesOutFrame
  <2> QED BY <2>1, FailedKnows
<1>6. CASE Scan(d)
  <2>1. step[d] = "scan" /\ Looked(d) /\ want'[d] = NoneOf /\ UNCHANGED <<job, saved, bp>>
    BY <1>6, ScanFrame
  <2>2. CASE step'[d] \in {"jamread", "wait"} /\ Stays(d)
    BY <1>0, <2>1, <2>2, LookingKnows DEF Stays
  <2>3. CASE IsJsr(d) /\ step'[d] = "rd1" /\ Stays(d)
    BY <1>0, <2>1, <2>3, LookingKnows DEF Stays
  <2>4. CASE ~ IsJsr(d)
    BY <2>1, <2>4 DEF WhatJsrKnows, IsJsr
  <2>5. CASE Failed(d)
    BY <2>1, <2>5, FailedKnows
  <2> QED BY <2>1, <2>2, <2>3, <2>4, <2>5 DEF Looked, AfterStop
<1>7. CASE WaitLock(d)
  <2>1. step[d] = "wait" /\ want[d] = NoneOf /\ UNCHANGED callers
    BY <1>7, WaitLockFrame
  <2> QED BY <1>0, <2>1, LookingKnows DEF callers, locals
<1>8. CASE WaitReceive(d)
  <2>1. step[d] = "wait" /\ Read(d) /\ want'[d] = NoneOf /\ UNCHANGED <<job, saved, bp>>
    BY <1>8, WaitReceiveFrame
  <2>2. CASE step'[d] \in {"jamread", "wait"} /\ Stays(d)
    BY <1>0, <2>1, <2>2, LookingKnows DEF Stays
  <2>3. CASE IsJsr(d) /\ step'[d] = "rd1" /\ Stays(d)
    BY <1>0, <2>1, <2>3, LookingKnows DEF Stays
  <2>4. CASE ~ IsJsr(d)
    BY <2>1, <2>4 DEF WhatJsrKnows, IsJsr
  <2>5. CASE Failed(d)
    BY <2>1, <2>5, FailedKnows
  <2> QED BY <2>1, <2>2, <2>3, <2>4, <2>5 DEF Read, AfterStop
<1>9. CASE Listen(d) \/ Confirmed(d) \/ Ask(d) \/ AskAnswered(d)
  <2>1. step[d] \in {"clisten", "cdone", "ask"} /\ job' = job
    BY <1>9, ListenFrame, ConfirmedFrame, AskFrame, AskAnsweredFrame
  <2>2. ~ IsJsr(d)'
    BY <1>0, <2>1 DEF StepsOfJob, IsJsr
  <2> QED BY <2>2 DEF WhatJsrKnows
<1> QED BY <1>1, <1>2, <1>3, <1>4, <1>5, <1>6, <1>7, <1>8, <1>9 DEF Caller

LEMMA StepKnows ==
    ASSUME Conversation, NEW d \in Threads, OnlyOwnIsWild(d), WhatJsrKnows(d), [Next]_vars
    PROVE  WhatJsrKnows(d)'
<1>1. CASE Running
  BY <1>1, RunningKnows
<1>2. CASE ServiceText
  <2>1. /\ UNCHANGED <<ctx, code, bps, ran, hijacked, reqs, callers>> /\ mode' = "halt"
        /\ wire' \in Seq(Frames) /\ Grown(wire, wire')
        /\ \A j \in DOMAIN wire' : j > Len(wire) => wire'[j].id = NoneOf
    BY <1>2, TextEffect DEF Conversation
  <2>2. SameCall(d) /\ want' = want /\ (Served(d)' <=> Served(d)) /\ Still
    BY <2>1 DEF SameCall, Served, Awaits, Still, callers, locals
  <2>3. ASSUME NEW i \in DOMAIN wire', wire'[i].id = want[d], want[d] # NoneOf
        PROVE  \E j \in DOMAIN wire : wire'[i] = wire[j]
    <3>1. wire \in Seq(Frames)
      BY DEF Conversation, TypeOK, SocketOK
    <3>2. i \in DOMAIN wire \/ i > Len(wire)
      BY <2>1, <3>1, SeqDomain
    <3> QED BY <2>1, <2>3, <3>2 DEF Grown
  <2>4. Quiet(d)
    BY <2>2, <2>3 DEF Quiet
  <2> QED BY <2>4, QuietKnows
<1>3. CASE Service
  BY <1>3, OtherServiceKnows, OwnServiceKnows
<1>4. ASSUME NEW t \in Threads, Send(t) PROVE WhatJsrKnows(d)'
  <2>1. Sent(t)
    BY <1>4, SendFrame
  <2>2. CASE t = d
    BY <2>1, <2>2, SentKnows
  <2>3. CASE t # d
    <3>1. SameCall(d) /\ want'[d] = want[d] /\ Still /\ wire' = wire /\ reqs' # <<>>
      BY <2>1, <2>3 DEF Sent, OthersUnmoved, SameCall, Still, machine
    <3>2. ~ Awaits(d)
      BY <2>1, MonitorAssumption DEF Sent, Awaits, Conversation, LockedWhileWaiting
    <3>3. Served(d)' <=> Served(d)
      BY <3>1, <3>2 DEF Served
    <3>4. Quiet(d)
      BY <3>1, <3>3 DEF Quiet
    <3> QED BY <3>4, QuietKnows
  <2> QED BY <2>2, <2>3
<1>5. ASSUME NEW t \in Threads, Caller(t), ~ Send(t) PROVE WhatJsrKnows(d)'
  <2>1. CASE t = d
    BY <1>5, <2>1, DriverKnows
  <2>2. CASE t # d
    <3>1. Framed(t)
      BY <1>5, CallerFits
    <3>2. SameCall(d) /\ want'[d] = want[d] /\ Still /\ reqs' = reqs
      BY <2>2, <3>1 DEF Framed, OthersUnmoved, SameCall, Still, machine
    <3>3. Served(d)' <=> Served(d)
      BY <3>2 DEF Served, Awaits, SameCall
    <3>4. \A i \in DOMAIN wire' : \E j \in DOMAIN wire : wire'[i] = wire[j]
      BY <3>1, PoppedWire DEF Framed
    <3>5. Quiet(d)
      BY <3>2, <3>3, <3>4 DEF Quiet
    <3> QED BY <3>5, QuietKnows
  <2> QED BY <2>1, <2>2
<1>6. CASE UNCHANGED vars
  <2>1. SameCall(d) /\ want' = want /\ Still /\ wire' = wire /\ reqs' = reqs
    BY <1>6 DEF vars, machine, socket, callers, locals, SameCall, Still
  <2>2. Quiet(d)
    BY <2>1 DEF Quiet, Served, Awaits, SameCall
  <2> QED BY <2>2, QuietKnows
<1> QED BY <1>1, <1>2, <1>3, <1>4, <1>5, <1>6 DEF Next, Vice, Running, Finished

-----------------------------------------------------------------------------
(* The theorems.                                                            *)
General == /\ Conversation /\ BooksOfCheckpoints /\ ConfirmedRuns
           /\ \A t \in Threads : StopFollowsResume(t)
Driven(d) == OthersLook(d) /\ StopIsVisible /\ OnlyOwnIsWild(d) /\ WhatJsrKnows(d)

LEMMA MonitorParts == MonitorInv <=> General /\ \A d \in Threads : Driver(d) => Driven(d)
  BY DEF MonitorInv, General, Driven

LEMMA InitMonitor == ASSUME Init PROVE MonitorInv
<1>1. /\ \A t \in Threads : step[t] = "idle" /\ want[t] = NoneOf /\ job[t] = "none"
      /\ reqs = <<>> /\ bps = {}
  BY DEF Init
<1>2. General
  <2>1. Conversation
    BY InitConversation
  <2>2. \A t \in Threads : StopFollowsResume(t)
    BY <1>1 DEF StopFollowsResume, Awaits
  <2>3. ConfirmedRuns
    BY <1>1 DEF ConfirmedRuns
  <2>4. BooksOfCheckpoints
    BY <1>1 DEF BooksOfCheckpoints, Served, Awaits
  <2> QED BY <2>1, <2>2, <2>3, <2>4 DEF General
<1>3. ASSUME NEW d \in Threads PROVE Driven(d)
  <2>1. OthersLook(d) /\ StopIsVisible /\ OnlyOwnIsWild(d)
    BY <1>1 DEF OthersLook, StopIsVisible, OnlyOwnIsWild
  <2>2. WhatJsrKnows(d)
    BY <1>1 DEF WhatJsrKnows, IsJsr
  <2> QED BY <2>1, <2>2 DEF Driven
<1> QED BY <1>2, <1>3, MonitorParts

LEMMA StepMonitor == ASSUME MonitorInv, [Next]_vars PROVE MonitorInv'
<1>1. General
  BY MonitorParts
<1>2. Conversation' /\ ConfirmedRuns' /\ BooksOfCheckpoints'
  BY <1>1, StepConversation, StepConfirmed, StepBooks DEF General
<1>3. \A t \in Threads : StopFollowsResume(t)'
  BY <1>1, StepStops DEF General
<1>4. ASSUME NEW d \in Threads, Driver(d) PROVE Driven(d)'
  <2>1. Driven(d)
    BY <1>4, MonitorParts
  <2>2. OthersLook(d)'
    BY <1>1, <1>4, <2>1, StepOthersLook DEF General, Driven
  <2>3. StopIsVisible'
    BY <1>1, <2>1, <2>2, StepVisible DEF General, Driven
  <2>4. OnlyOwnIsWild(d)' /\ WhatJsrKnows(d)'
    BY <1>1, <2>1, StepWild, StepKnows DEF General, Driven
  <2> QED BY <2>2, <2>3, <2>4 DEF Driven
<1>5. \A d \in Threads : Driver(d) =>
         OthersLook(d)' /\ StopIsVisible' /\ OnlyOwnIsWild(d)' /\ WhatJsrKnows(d)'
  BY <1>4 DEF Driven
<1> QED BY <1>2, <1>3, <1>5 DEF MonitorInv, Driver

(* The inductive invariant.  The lock makes a command and its reply one     *)
(* conversation (_send_and_recv): while its sender waits, its request is    *)
(* the last one, under an id that no other frame carries; a resume is       *)
(* answered before the stop that ends it is announced; every checkpoint in  *)
(* VICE has a jsr() that will delete it, as long as no reply was lost; and  *)
(* a thread that alone resumes the machine knows at each step of jsr()      *)
(* where the 6510 is.                                                       *)
THEOREM Invariant == Spec => []MonitorInv
<1>1. Init => MonitorInv
  BY InitMonitor
<1>2. MonitorInv /\ [Next]_vars => MonitorInv'
  BY StepMonitor
<1> QED BY <1>1, <1>2, PTL DEF Spec

(* A waiter that _resume_confirmed told "running" is not deceived by a      *)
(* spare trap that swallowed its EXIT, whatever the other threads do.       *)
THEOREM RunningIsTrue == Spec => []ConfirmedRuns
<1>1. MonitorInv => ConfirmedRuns
  BY DEF MonitorInv
<1> QED BY <1>1, Invariant, PTL

(* However the jsr() calls end, none leaves its checkpoint behind, unless a *)
(* reply was lost (the finally of jsr()).                                   *)
THEOREM NoCheckpointLeaks == Spec => []NoLeakedCheckpoint
<1>1. MonitorInv => NoLeakedCheckpoint
  <2> SUFFICES ASSUME MonitorInv, timeouts = 0, \A t \in Threads : step[t] \in {"idle", "done"},
                      NEW b \in bps
               PROVE  FALSE
    BY DEF NoLeakedCheckpoint
  <2>1. PICK t \in Threads : Keeps(t, b)
    BY DEF MonitorInv, BooksOfCheckpoints
  <2> QED BY <2>1 DEF Keeps, Guarded
<1> QED BY <1>1, Invariant, PTL

(* One thread resumes the machine and the others look at it: then the stop  *)
(* that jsr() or single_step() looks for after its own resume is on the     *)
(* socket or in the queue, and new, wherever the other threads' reads have  *)
(* put it (wait_for_stopped, resume).                                       *)
THEOREM StopsAreSeen == ASSUME OneDriver PROVE Spec => []StopIsVisible
<1>1. MonitorInv => StopIsVisible
  BY DEF MonitorInv, OneDriver
<1> QED BY <1>1, Invariant, PTL

(* And a jsr() that returns has run its routine to the end and put the 6510 *)
(* back where it found it, or, after a recovery, on the landing with its    *)
(* stack unwound (jsr, _recover_from_hang).                                 *)
THEOREM JsrTellsTheTruth == ASSUME OneDriver PROVE Spec => []JsrIsHonest
<1>1. MonitorInv => JsrIsHonest
  <2> SUFFICES ASSUME MonitorInv, NEW t \in Threads, step[t] = "done", IsJsr(t), exc[t] = "none"
               PROVE  HonestEnd(t)
    BY DEF JsrIsHonest, HonestEnd
  <2>1. PICK d \in Threads : Driver(d)
    BY DEF OneDriver
  <2>2. OthersLook(d) /\ WhatJsrKnows(d)
    BY <2>1 DEF MonitorInv
  <2>3. t = d
    BY <2>2, OthersAreNotJsr
  <2> QED BY <2>2, <2>3 DEF WhatJsrKnows
<1> QED BY <1>1, Invariant, PTL
=============================================================================
