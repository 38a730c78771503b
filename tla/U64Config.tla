------------------------------ MODULE U64Config ------------------------------
(***************************************************************************)
(* The configuration of an Ultimate 64 and the helpers that change it for  *)
(* a test and put it back (ultimate64_helpers.py, ultimate64_baseline.py   *)
(* and the config operations of ultimate64_client.py).                     *)
(*                                                                         *)
(* Every change is a series of single-item PUTs.  A PUT may raise with or  *)
(* without having taken effect, and a SID base this device does not offer  *)
(* is answered 200 and ignored.  A helper either stops at the first PUT    *)
(* that raises (set_config_items) or tries the rest and reports all that   *)
(* failed (restore_config_items): the flag `keep` of a write.              *)
(*                                                                         *)
(* The caller holds the device: nobody else writes its configuration.      *)
(* Values two helpers never tell apart are one value; parsing and the      *)
(* lookup of a misspelt name are left out.                                 *)
(***************************************************************************)
EXTENDS Naturals, Sequences, FiniteSets, SequencesExt

CONSTANTS
  Slots,      \* the SID slots, a sequence in the order of SidSlot
  Bases,      \* SID_ADDRESS_VALUES without "Unmapped", a sequence
  Offered,    \* the bases this device offers
  NewSpeed,   \* the speeds set_turbo_mhz may be asked for
  MaxCalls,   \* bound: public calls of a behaviour
  MaxFaults   \* bound: requests that raise

VARIABLES
  conf,    \* the live value of every item
  flash,   \* the saved value of every item
  call,    \* the call in progress: its kind, its step, what it wants
  todo,    \* the writes it has still to send
  failed,  \* the items whose write raised
  saved,   \* the values it read on entry
  snap,    \* the last U64StateSnapshot, or the empty function
  told,    \* how the last call ended
  calls, faults

vars == <<conf, flash, call, todo, failed, saved, snap, told, calls, faults>>

SlotSet == {Slots[i] : i \in DOMAIN Slots}
BaseSet == {Bases[i] : i \in DOMAIN Bases}
Addresses == BaseSet \cup {"Unmapped"}
SidItems == SlotSet \cup {"mirror"}
Items == SidItems \cup {"turbo", "speed", "badline", "cart", "reu", "ftp"}

Category == [i \in Items |->
               CASE i \in SidItems -> "SID"
                 [] i \in {"turbo", "speed", "badline"} -> "U64"
                 [] i \in {"cart", "reu"} -> "Cart"
                 [] i = "ftp" -> "Network"]

Place(s) == CHOOSE k \in DOMAIN Slots : Slots[k] = s

\* The firmware default of every item.
Default == [i \in Items |->
              CASE i \in SlotSet -> Bases[Place(i)]
                [] i = "speed" -> "1"
                [] i \in {"mirror", "badline"} -> "Enabled"
                [] i = "cart" -> "None"
                [] i = "turbo" -> "Off"
                [] i \in {"reu", "ftp"} -> "Disabled"]

\* BASELINE_CATEGORIES: no network store is in it.
BaselineCategories == <<"U64", "Cart", "SID">>

Idle == [kind |-> "idle", step |-> "none", want |-> <<>>]

\* A configuration somebody left behind: turbo on, every slot on one base.
Drifted == [i \in Items |-> IF i \in SlotSet THEN Bases[1]
                           ELSE IF i = "turbo" THEN "Manual" ELSE Default[i]]

Init ==
  /\ conf \in {Default, Drifted}
  /\ flash = Default
  /\ call = Idle /\ todo = <<>> /\ failed = {} /\ saved = <<>> /\ snap = <<>>
  /\ told = <<"none", "ok">>
  /\ calls = 0 /\ faults = 0

-----------------------------------------------------------------------------
(* One PUT.                                                                *)

Write(item, value) == [item |-> item, value |-> value, keep |-> FALSE]
Restoring(writes) == [i \in DOMAIN writes |-> [writes[i] EXCEPT !.keep = TRUE]]

\* What the device makes of a write it answers 200.
Applied(w) == IF w.item \in SlotSet /\ w.value \notin Offered \cup {"Unmapped"}
              THEN conf ELSE [conf EXCEPT ![w.item] = w.value]

\* A write raised: a restore notes the item and goes on, any other call stops.
FailWrite(w) ==
  /\ failed' = failed \cup {w.item}
  /\ todo' = IF w.keep THEN Tail(todo) ELSE <<>>

\* client.set_config_item.  A verified write raises when its read-back does,
\* which the second disjunct covers: the value may or may not be there.
Put ==
  /\ todo # <<>>
  /\ LET w == Head(todo) IN
     \/ /\ conf' = Applied(w)
        /\ todo' = Tail(todo)
        /\ UNCHANGED <<failed, faults>>
     \/ /\ faults < MaxFaults
        /\ faults' = faults + 1
        /\ conf' \in {conf, Applied(w)}
        /\ FailWrite(w)
  /\ UNCHANGED <<flash, call, saved, snap, told, calls>>

-----------------------------------------------------------------------------
(* Starting and ending a call.                                             *)

MayCall == call.kind = "idle" /\ calls < MaxCalls

Begin(kind, step, want, writes) ==
  /\ MayCall
  /\ calls' = calls + 1
  /\ call' = [kind |-> kind, step |-> step, want |-> want]
  /\ todo' = writes
  /\ failed' = {}
  /\ told' = <<kind, "busy">>

Finish(how) ==
  /\ call' = Idle
  /\ todo' = <<>>
  /\ told' = <<call.kind, how>>

\* set_turbo_mhz: an item at a time, the speed before the switch.
SetTurbo ==
  \E s \in NewSpeed \cup {"off"} :
    /\ Begin("set", "writes", s,
             IF s = "off" THEN <<Write("turbo", "Off")>>
             ELSE <<Write("speed", s), Write("turbo", "Manual")>>)
    /\ UNCHANGED <<conf, flash, saved, snap, faults>>

\* restore_speed_defaults: both defaults are read before either is written.
RestoreSpeed ==
  /\ Begin("speed", "writes", <<>>,
           Restoring(<<Write("speed", Default["speed"]), Write("turbo", Default["turbo"])>>))
  /\ UNCHANGED <<conf, flash, saved, snap, faults>>

\* set_reu and set_badline_timing.  `listed`: the device did not say for certain
\* that "REU" is none of the cartridges it offers (_cartridge_preset_supported).
SetReu ==
  \E on, listed \in BOOLEAN :
    /\ Begin("set", "writes", on,
             IF ~on THEN <<Write("reu", "Disabled")>>
             ELSE IF listed THEN <<Write("cart", "REU"), Write("reu", "Enabled")>>
             ELSE <<Write("reu", "Enabled")>>)
    /\ UNCHANGED <<conf, flash, saved, snap, faults>>

SetBadline ==
  \E v \in {"Enabled", "Disabled"} :
    /\ Begin("set", "writes", v, <<Write("badline", v)>>)
    /\ UNCHANGED <<conf, flash, saved, snap, faults>>

\* enable_ftp_service: nothing is written when the service is on already.
EnableFtp ==
  /\ conf["ftp"] # "Enabled"
  /\ Begin("set", "writes", <<>>, <<Write("ftp", "Enabled")>>)
  /\ UNCHANGED <<conf, flash, saved, snap, faults>>

-----------------------------------------------------------------------------
(* The SID address map.                                                    *)

Conflict(map) ==
  \E s, t \in SlotSet : s # t /\ map[s] = map[t] /\ map[s] # "Unmapped"

SidMap == [s \in SlotSet |-> conf[s]]

\* _introduced_sid_conflicts: a base more slots share than before, or that a
\* touched slot newly joins.
Introduces(current, resulting, touched) ==
  \E a \in BaseSet :
    LET on(map) == {s \in SlotSet : map[s] = a}
    IN  /\ Cardinality(on(resulting)) >= 2
        /\ \/ Cardinality(on(resulting)) > Cardinality(on(current))
           \/ (on(resulting) \ on(current)) \cap touched # {}

Override(map, part) == [s \in SlotSet |-> IF s \in DOMAIN part THEN part[s] ELSE map[s]]

\* The writes of the slots of `part`, in the order the caller names them.
InOrder(S) == {q \in UNION {[1..n -> S] : n \in 0..Len(Slots)} :
                 /\ S = {q[i] : i \in DOMAIN q}
                 /\ \A i, j \in DOMAIN q : i # j => q[i] # q[j]}
MapWrites(part) == {[i \in DOMAIN q |-> Write(q[i], part[q[i]])] : q \in InOrder(DOMAIN part)}

\* The SID addressing put back: the slots in turn, mirroring last.
SidRestore(values) ==
  Restoring(Append([i \in DOMAIN Slots |-> Write(Slots[i], values[Slots[i]])],
                   Write("mirror", values["mirror"])))

Requests == UNION {[S -> Addresses] : S \in SUBSET SlotSet \ {{}}}

\* set_sid_address_map.  `known`: the device told which bases it offers.
SetSidMap == MayCall /\
  \E part \in Requests, known, allow \in BOOLEAN :
    /\ known => \A s \in DOMAIN part : part[s] \in Offered \cup {"Unmapped"}
    /\ allow \/ ~Introduces(SidMap, Override(SidMap, part), DOMAIN part)
    /\ \E writes \in MapWrites(part) : Begin("set", "writes", <<>>, writes)
    /\ UNCHANGED <<conf, flash, saved, snap, faults>>

\* _distinct_sid_allocation: a slot not asked for keeps its base unless it is
\* taken; then it moves to the first free one.
Distinct(current, part, pool) ==
  LET place(acc, s) ==
        LET free == SelectSeq(pool, LAMBDA a : a \notin acc.used)
            keep == current[s] = "Unmapped" \/ current[s] \notin acc.used
            base == IF keep THEN current[s]
                    ELSE IF free = <<>> THEN "none" ELSE Head(free)
        IN  IF s \in DOMAIN part THEN acc
            ELSE [map |-> [acc.map EXCEPT ![s] = base],
                  used |-> acc.used \cup ({base} \ {"Unmapped"})]
  IN  FoldLeft(place, [map |-> Override(current, part),
                       used |-> {part[s] : s \in DOMAIN part}], Slots).map

\* isolated_sid_addressing, entered: the map it will have is worked out and
\* refused before anything is written; then mirroring goes off, read back.
Isolate == MayCall /\
  \E part \in Requests, others \in {"distinct", "unmapped", "leave"}, known \in BOOLEAN :
    LET pool == SelectSeq(Bases, LAMBDA a : known => a \in Offered)
        final == CASE others = "unmapped" -> Override([s \in SlotSet |-> "Unmapped"], part)
                   [] others = "distinct" -> Distinct(SidMap, part, pool)
                   [] OTHER -> Override(SidMap, part)
    IN  /\ ~Conflict(final)
        /\ \A s \in SlotSet : final[s] # "none"
        /\ Begin("isolated", "mirror", final, <<Write("mirror", "Disabled")>>)
        /\ saved' = [i \in SidItems |-> conf[i]]
        /\ UNCHANGED <<conf, flash, snap, faults>>

\* Mirroring is off: the slots that differ are written, within the `try`.
\* When it raised, the call ends here: the `try` has not begun.
IsolateMap ==
  /\ call.kind = "isolated" /\ call.step = "mirror" /\ todo = <<>>
  /\ \/ /\ failed # {}
        /\ Finish("mirror_error")
     \/ /\ failed = {}
        /\ LET moved == {s \in SlotSet : conf[s] # call.want[s]}
           IN  todo' \in MapWrites([s \in moved |-> call.want[s]])
        /\ call' = [call EXCEPT !.step = "map"]
        /\ UNCHANGED told
  /\ UNCHANGED <<conf, flash, failed, saved, snap, calls, faults>>

\* Mutant: the 200 of every PUT is believed.
ReadsBackBelieved == TRUE

\* The map as the device has it is the map asked for.
ReadsBack == SidMap = call.want

Restore(ok) ==
  /\ call' = [call EXCEPT !.step = IF ok THEN "restore" ELSE "restore_raising"]
  /\ todo' = SidRestore(saved)
  /\ failed' = {}

\* The read-back: the body runs on a map that matches, and on no other.
IsolateCheck ==
  /\ call.kind = "isolated" /\ call.step = "map" /\ todo = <<>>
  /\ \/ /\ failed = {} /\ ReadsBack
        /\ call' = [call EXCEPT !.step = "body"]
        /\ UNCHANGED <<todo, failed, faults>>
     \/ /\ failed # {} \/ ~ReadsBack
        /\ Restore(FALSE)
        /\ UNCHANGED faults
     \/ /\ failed = {} /\ faults < MaxFaults
        /\ faults' = faults + 1
        /\ Restore(FALSE)
  /\ UNCHANGED <<conf, flash, saved, snap, told, calls>>

IsolateBodyEnds ==
  /\ call.kind = "isolated" /\ call.step = "body"
  /\ \E ok \in BOOLEAN : Restore(ok)
  /\ UNCHANGED <<conf, flash, saved, snap, told, calls, faults>>

-----------------------------------------------------------------------------
(* Snapshots, flash and the entry baseline.                                *)

\* snapshot_state; a value the device does not report is not restored.
Snapshot ==
  /\ call.kind = "idle"
  /\ snap' = [i \in Items \ {"ftp"} |-> conf[i]]
  /\ snap' # snap
  /\ UNCHANGED <<conf, flash, call, todo, failed, saved, told, calls, faults>>

\* A cartridge that the device says it does not offer is not put back: what that
\* item shows there follows the REU.
Restores == {"restore", "restore but cart"}
Restorable(kind) == Items \ (IF kind = "restore" THEN {"ftp"} ELSE {"ftp", "cart"})

\* restore_state: the first two categories stop at the first failure, the SID
\* addresses are all tried, mirroring last.
RestoreState ==
  /\ snap # <<>>
  /\ LET back(i) == Write(i, snap[i])
     IN  \/ Begin("restore", "writes", <<>>,
                  <<back("turbo"), back("speed"), back("badline"), back("cart"), back("reu")>>
                  \o SidRestore(snap))
         \/ Begin("restore but cart", "writes", <<>>,
                  <<back("turbo"), back("speed"), back("badline"), back("reu")>>
                  \o SidRestore(snap))
  /\ UNCHANGED <<conf, flash, saved, snap, faults>>

\* A call whose writes are sent returns or raises.
EndWrites ==
  /\ call.step \in {"writes", "restore", "restore_raising"} /\ todo = <<>>
  /\ Finish(IF failed # {} THEN "restore_error"
            ELSE IF call.step = "restore_raising" THEN "raised" ELSE "ok")
  /\ UNCHANGED <<conf, flash, failed, saved, snap, calls, faults>>

\* save_config_to_flash, load_config_from_flash (all or one category) and
\* reset_config_to_default: one request each.
SaveToFlash ==
  /\ MayCall
  /\ flash' = conf /\ calls' = calls + 1 /\ told' = <<"flash", "ok">>
  /\ UNCHANGED <<conf, call, todo, failed, saved, snap, faults>>

LoadFromFlash ==
  /\ MayCall
  /\ \E cats \in {{Category[i]} : i \in Items} \cup {{Category[i] : i \in Items}} :
       conf' = [i \in Items |-> IF Category[i] \in cats THEN flash[i] ELSE conf[i]]
  /\ calls' = calls + 1 /\ told' = <<"flash", "ok">>
  /\ UNCHANGED <<flash, call, todo, failed, saved, snap, faults>>

ResetAll ==
  /\ MayCall
  /\ conf' = Default /\ calls' = calls + 1 /\ told' = <<"flash", "ok">>
  /\ UNCHANGED <<flash, call, todo, failed, saved, snap, faults>>

\* apply_factory_baseline: `want` holds the categories left to do.  In `saved`
\* is the network store as it was, for the property.
Baseline ==
  /\ Begin("baseline", "reset", BaselineCategories, <<>>)
  /\ saved' = [i \in {"ftp"} |-> conf[i]]
  /\ UNCHANGED <<conf, flash, snap, faults>>

InCategory(c) == {i \in Items : Category[i] = c}

\* reset_config_category_to_default, of the category in turn.  The reset may
\* not take for an item, or match no store; a request that raises ends it all.
BaselineReset ==
  /\ call.kind = "baseline" /\ call.step = "reset" /\ call.want # <<>>
  /\ \E left \in SUBSET InCategory(Head(call.want)) :
       /\ left # {} => faults < MaxFaults
       /\ faults' = faults + IF left = {} THEN 0 ELSE 1
       /\ conf' = [i \in Items |-> IF Category[i] = Head(call.want) /\ i \notin left
                                   THEN Default[i] ELSE conf[i]]
       /\ \/ /\ call' = [call EXCEPT !.step = "verify"]
             /\ UNCHANGED <<told, todo, failed>>
          \/ /\ left = InCategory(Head(call.want))
             /\ call' = [call EXCEPT !.step = "verify"]
             /\ failed' = failed \cup {Head(call.want)}
             /\ UNCHANGED <<told, todo>>
          \/ /\ left # {} /\ Finish("raised") /\ UNCHANGED failed
  /\ UNCHANGED <<flash, saved, snap, calls>>

\* The items of a category that differ from the device's own default.
Mismatched(c) == {i \in InCategory(c) : conf[i] # Default[i]}

BaselineVerify ==
  /\ call.kind = "baseline" /\ call.step = "verify"
  /\ failed' = failed \cup Mismatched(Head(call.want))
  /\ call' = [call EXCEPT !.step = "reset", !.want = Tail(call.want)]
  /\ UNCHANGED <<conf, flash, todo, saved, snap, told, calls, faults>>

BaselineEnd ==
  /\ call.kind = "baseline" /\ call.want = <<>>
  /\ Finish(IF failed = {} THEN "ok" ELSE "mismatched")
  /\ UNCHANGED <<conf, flash, failed, saved, snap, calls, faults>>

Next ==
  \/ Put \/ EndWrites
  \/ SetTurbo \/ RestoreSpeed \/ SetReu \/ SetBadline \/ EnableFtp
  \/ SetSidMap \/ Isolate \/ IsolateMap \/ IsolateCheck \/ IsolateBodyEnds
  \/ Snapshot \/ RestoreState \/ SaveToFlash \/ LoadFromFlash \/ ResetAll
  \/ Baseline \/ BaselineReset \/ BaselineVerify \/ BaselineEnd

Spec == Init /\ [][Next]_vars

-----------------------------------------------------------------------------
\* check_measurement_environment: a run at one MHz, with badlines.
MeasurementReady ==
  /\ conf["turbo"] = "Off" \/ conf["speed"] = "1"
  /\ conf["badline"] # "Disabled"

\* While the body of isolated_sid_addressing runs, every slot has a base of its
\* own, mirroring is off and the map is the one the body was given: a value the
\* device answered 200 and dropped does not get as far as the body.
IsolationHolds ==
  call.kind = "isolated" /\ call.step = "body" =>
    /\ ~Conflict(SidMap)
    /\ conf["mirror"] = "Disabled"
    /\ SidMap = call.want

\* A call that put things back and did not raise a restore error did put them
\* back: the SID addressing after isolated_sid_addressing, whatever its body
\* did, every item of the snapshot after restore_state, but for a cartridge the
\* device does not offer, and the whole entry baseline, which touches no network
\* store.
RestoredOrTold ==
  /\ told[1] = "isolated" /\ told[2] \in {"ok", "raised"} =>
       \A i \in SidItems : conf[i] = saved[i]
  /\ told[1] \in Restores /\ told[2] = "ok" =>
       \A i \in Restorable(told[1]) : conf[i] = snap[i]
  /\ told = <<"speed", "ok">> => conf["turbo"] = "Off"
  /\ told = <<"baseline", "ok">> =>
       /\ \A i \in Items \ {"ftp"} : conf[i] = Default[i]
       /\ conf["ftp"] = saved["ftp"]
       /\ MeasurementReady

-----------------------------------------------------------------------------
(* What the properties rest on.                                            *)

\* Slots are not called like another item, and what the firmware gives a slot
\* by default it offers.
OtherItems == {"mirror", "turbo", "speed", "badline", "cart", "reu", "ftp"}
SlotsAssumption ==
  /\ Slots \in Seq(SlotSet) /\ SlotSet \cap OtherItems = {}
  /\ \A n \in DOMAIN Slots : Bases[n] \in Offered

\* Every base a slot is put back to is one the device takes.
Answerable(values) == \A s \in SlotSet : values[s] \in Offered \cup {"Unmapped"}

ValuesAreOffered ==
  /\ DOMAIN conf = Items /\ DOMAIN flash = Items /\ Answerable(conf) /\ Answerable(flash)
  /\ snap # <<>> => DOMAIN snap = Items \ {"ftp"} /\ Answerable(snap)

\* A call is told of when it has ended, and has then sent its writes.
CallsAreTold ==
  /\ call = [kind |-> call.kind, step |-> call.step, want |-> call.want]
  /\ todo \in Seq({todo[n] : n \in DOMAIN todo})
  /\ IF call.kind = "idle" THEN todo = <<>> ELSE told = <<call.kind, "busy">>
  /\ call.kind = "isolated" <=> call.step \in {"mirror", "map", "body", "restore", "restore_raising"}
  /\ call.kind = "baseline" <=> call.step \in {"reset", "verify"}

\* The writes still to send put back what is not as it was among `items`, unless
\* one has raised.
Returns(c, writes, raised, items, values) ==
  /\ \A n \in DOMAIN writes : writes[n].item \in items => writes[n].value = values[writes[n].item]
  /\ raised = {} =>
       \A i \in items : c[i] = values[i] \/ \E n \in DOMAIN writes : writes[n].item = i

SpeedReturns == call.kind = "speed" => Returns(conf, todo, failed, {"turbo"}, Default)

StateReturns ==
  call.kind \in Restores =>
    snap # <<>> /\ Returns(conf, todo, failed, Restorable(call.kind), snap)

\* Until the body, mirroring is off or being put off, and no write turns it on.
IsolationReturns ==
  call.kind = "isolated" =>
    /\ DOMAIN saved = SidItems /\ Answerable(saved) /\ ~Conflict(call.want)
    /\ \/ call.step = "mirror" /\ todo = <<Write("mirror", "Disabled")>>
       \/ call.step = "mirror" /\ todo = <<>> /\ (failed = {} => conf["mirror"] = "Disabled")
       \/ /\ call.step = "map" /\ conf["mirror"] = "Disabled"
          /\ \A n \in DOMAIN todo : todo[n].item \in SlotSet
       \/ /\ call.step = "body" /\ conf["mirror"] = "Disabled"
          /\ SidMap = call.want /\ todo = <<>>
       \/ /\ call.step \in {"restore", "restore_raising"}
          /\ Returns(conf, todo, failed, SidItems, saved)

\* A category that is done has its defaults, or a mismatch is noted; nothing but
\* the categories of the baseline changes.
BaselineReturns ==
  call.kind = "baseline" =>
    /\ todo = <<>> /\ conf["ftp"] = saved["ftp"]
    /\ call.want \in {<<"U64", "Cart", "SID">>, <<"Cart", "SID">>, <<"SID">>, <<>>}
    /\ call.step = "verify" => call.want # <<>>
    /\ failed = {} =>
         \A i \in Items \ {"ftp"} :
           conf[i] = Default[i] \/ \E n \in DOMAIN call.want : Category[i] = call.want[n]

ConfigInv ==
  /\ ValuesAreOffered /\ CallsAreTold /\ RestoredOrTold
  /\ SpeedReturns /\ StateReturns /\ IsolationReturns /\ BaselineReturns
=============================================================================
