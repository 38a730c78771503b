------------------------------ MODULE ReuExtract ------------------------------
(* extract_reu_contents (snapshot.py): the expansion memory is read bank by  *)
(* bank through a window of C64 RAM.  The program's window is saved, a       *)
(* transfer is armed for each bank, the window is read, and at the end       *)
(* written back.  On a VICE the transfer runs only while the CPU runs, so    *)
(* the CPU is parked on a JMP * outside the window, resumed until the        *)
(* transfer is done, and put back where it was; on an Ultimate 64 the        *)
(* transfer runs at once and the program goes on all the while.              *)
EXTENDS Naturals, Sequences

CONSTANTS Banks,       \* banks of the expansion memory
          MaxSpares,   \* bound: spare monitor traps at one time
          Attempts,    \* STALE_TRAP_ATTEMPTS
          MaxResumes,  \* bound: resumes that run no cycle, for one transfer
          MaxFaults    \* bound: accesses that fail

BanksAssumption == Banks \in Nat \ {0} /\ Attempts \in Nat \ {0}

VARIABLES host,        \* "vice", "unparkable" or "u64"
          step, bank,
          window,      \* what the window holds: Own, or a bank's number
          saved,       \* the host's copy of the window
          pc,          \* where the CPU is: "program" or "park"
          jump,        \* the park address holds the JMP *
          parked,      \* the host has what it needs to unpark
          armed,       \* the transfer that waits for the CPU: a bank, or 0
          spares,      \* spare monitor traps
          resumes,
          strayed,     \* the program ran while the window was not its own
          out,         \* the banks read so far
          result,      \* "none", "returned", "raised"
          told,        \* the warning that the caller's next resume may run nothing
          cleanup,     \* every access of the clean-up succeeded
          faults

xvars == <<host, step, bank, window, saved, pc, jump, parked, armed, spares, resumes,
           strayed, out, result, told, cleanup, faults>>

Own == 0                 \* the program's bytes
Nothing == Banks + 1     \* no copy yet

ExtractInit ==
  /\ host \in {"vice", "unparkable", "u64"}
  /\ step = "save" /\ bank = 1
  /\ window = Own /\ saved = Nothing
  /\ pc = "program" /\ jump = FALSE /\ parked = FALSE
  /\ armed = 0 /\ spares = 0 /\ resumes = 0 /\ strayed = FALSE
  /\ out = <<>> /\ result = "none" /\ told = FALSE /\ cleanup = TRUE /\ faults = 0

Halting == host # "u64"

(* An access that fails goes to the clean-up that its place in the code has. *)
Fault(at) ==
  /\ faults < MaxFaults /\ faults' = faults + 1
  /\ step' = at
  /\ result' = "raised"

Save ==
  /\ step = "save"
  /\ \/ /\ saved' = window
        /\ step' = IF host = "vice" THEN "jump" ELSE "arm"
        /\ UNCHANGED <<result, faults>>
     \/ /\ Fault("done")
        /\ UNCHANGED saved
  /\ UNCHANGED <<host, bank, window, pc, jump, parked, armed, spares, resumes, strayed,
                 out, told, cleanup>>

(* _park_outside_staging_window: the JMP * is written, then PC and flags are *)
(* set; if that fails, the three bytes are put back.                         *)
WriteJump ==
  /\ step = "jump"
  /\ \/ (jump' = TRUE /\ step' = "park" /\ UNCHANGED <<result, faults>>)
     \/ (Fault("done") /\ UNCHANGED jump)
  /\ UNCHANGED <<host, bank, window, saved, pc, parked, armed, spares, resumes, strayed,
                 out, told, cleanup>>

Park ==
  /\ step = "park"
  /\ \/ (pc' = "park" /\ parked' = TRUE /\ step' = "arm" /\ UNCHANGED <<result, faults>>)
     \/ (Fault("unjump") /\ UNCHANGED <<pc, parked>>)
  /\ UNCHANGED <<host, bank, window, saved, jump, armed, spares, resumes, strayed, out,
                 told, cleanup>>

(* An access of the clean-up fails. *)
Fails == faults < MaxFaults /\ faults' = faults + 1 /\ cleanup' = FALSE

Unjump ==
  /\ step = "unjump"
  /\ step' = "done"
  /\ \/ jump' = FALSE /\ UNCHANGED <<cleanup, faults>>
     \/ Fails /\ UNCHANGED jump
  /\ UNCHANGED <<host, bank, window, saved, pc, parked, armed, spares, resumes, strayed,
                 out, result, told>>

(* _rec_transfer: the registers, then the command, which may take effect and *)
(* fail all the same.                                                        *)
Command == IF Halting THEN armed' = bank /\ UNCHANGED window
                      ELSE window' = bank /\ UNCHANGED armed

Arm ==
  /\ step = "arm"
  /\ \/ /\ Command
        /\ step' = IF Halting THEN "resume" ELSE "read"
        /\ resumes' = 0
        /\ UNCHANGED <<result, faults>>
     \/ /\ Fault("restore")
        /\ Command \/ UNCHANGED <<armed, window>>
        /\ UNCHANGED resumes
  /\ UNCHANGED <<host, bank, saved, pc, jump, parked, spares, strayed, out, told, cleanup>>

(* The CPU runs for a while: an armed transfer runs first, and what the CPU  *)
(* executes next is the program's, unless it is parked.  The command that    *)
(* waits meanwhile may leave a spare trap behind.                            *)
Runs ==
  /\ window' = IF armed # 0 THEN armed ELSE window
  /\ armed' = 0
  /\ \/ spares' = spares
     \/ (armed # 0 /\ spares < MaxSpares /\ spares' = spares + 1)
  /\ strayed' = (strayed \/ (pc = "program" /\ window' # Own))

(* resume(): the next command may come before the CPU has run a cycle, and a *)
(* spare trap enters the monitor again.                                      *)
ResumeOnce ==
  \/ /\ spares > 0 /\ spares' = spares - 1
     /\ UNCHANGED <<window, armed, strayed>>
  \/ /\ spares = 0
     /\ \/ UNCHANGED <<window, armed, spares, strayed>>
        \/ Runs

\* Mutant: a transfer that resumes once and does not look.
RunTransferOnce ==
  /\ step = "resume"
  /\ \/ (ResumeOnce /\ step' = "read" /\ UNCHANGED <<result, faults>>)
     \/ (Fault("restore") /\ UNCHANGED <<window, armed, spares, strayed>>)
  /\ UNCHANGED <<host, bank, saved, pc, jump, parked, resumes, out, told, cleanup>>

(* _run_rec_transfer: resume and look at the execute bit, until it is clear. *)
RunTransfer ==
  /\ step = "resume"
  /\ \/ /\ ResumeOnce
        /\ IF armed' = 0 THEN step' = "read" /\ UNCHANGED resumes
           ELSE /\ resumes < MaxResumes
                /\ resumes' = resumes + 1
                /\ UNCHANGED step
        /\ UNCHANGED <<result, faults>>
     \/ (Fault("restore") /\ UNCHANGED <<window, armed, spares, strayed, resumes>>)
  /\ UNCHANGED <<host, bank, saved, pc, jump, parked, out, told, cleanup>>

(* The window is read back; after the last bank, what traps are left are     *)
(* spent while the CPU is still parked.                                      *)
ReadBank ==
  /\ step = "read"
  /\ \/ /\ out' = Append(out, window)
        /\ IF bank < Banks THEN bank' = bank + 1 /\ step' = "arm"
           ELSE /\ step' = IF parked THEN "drain" ELSE "restore"
                /\ UNCHANGED bank
        /\ UNCHANGED <<result, faults>>
     \/ (Fault("restore") /\ UNCHANGED <<out, bank>>)
  /\ UNCHANGED <<host, window, saved, pc, jump, parked, armed, spares, resumes, strayed,
                 told, cleanup>>

(* _drain_stale_monitor_traps: a confirmed resume, which gives up after so   *)
(* many swallowed ones and says so; the write-back halts the CPU again.      *)
Drain ==
  /\ step = "drain" /\ step' = "restore"
  /\ \/ /\ spares' = IF spares < Attempts THEN 0 ELSE spares - Attempts
        /\ told' = (spares >= Attempts)
        /\ UNCHANGED <<result, faults>>
     \/ /\ Fault("restore")
        /\ \E n \in 0..spares : spares' = n
        /\ UNCHANGED told
  /\ UNCHANGED <<host, bank, window, saved, pc, jump, parked, armed, resumes, strayed,
                 out, told, cleanup>>

(* The finally clauses: each runs whether or not the one before it failed.   *)
CleanUp(from, to) ==
  /\ step = from /\ step' = to
  /\ UNCHANGED <<host, bank, saved, parked, armed, spares, resumes, strayed, out, result,
                 told>>

Restore ==
  /\ CleanUp("restore", IF parked THEN "unpark" ELSE "done")
  /\ \/ window' = saved /\ UNCHANGED <<cleanup, faults>>
     \/ Fails /\ UNCHANGED window
  /\ UNCHANGED <<pc, jump>>

UnparkBytes ==
  /\ CleanUp("unpark", "unpark pc")
  /\ \/ jump' = FALSE /\ UNCHANGED <<cleanup, faults>>
     \/ Fails /\ UNCHANGED jump
  /\ UNCHANGED <<window, pc>>

UnparkPc ==
  /\ CleanUp("unpark pc", "done")
  /\ \/ pc' = "program" /\ UNCHANGED <<cleanup, faults>>
     \/ Fails /\ UNCHANGED pc
  /\ UNCHANGED <<window, jump>>

Return ==
  /\ step = "done" /\ result = "none"
  /\ result' = "returned"
  /\ UNCHANGED <<host, step, bank, window, saved, pc, jump, parked, armed, spares, resumes,
                 strayed, out, told, cleanup, faults>>

ExtractNext ==
  \/ Save \/ WriteJump \/ Park \/ Unjump
  \/ Arm \/ RunTransfer \/ ReadBank \/ Drain
  \/ Restore \/ UnparkBytes \/ UnparkPc \/ Return

Spec == ExtractInit /\ [][ExtractNext]_xvars

-----------------------------------------------------------------------------
(* What is returned is every bank in order.  However the extract ends, the   *)
(* program has its window, its PC and the park bytes back, unless an access  *)
(* of the clean-up itself failed; a parked program never ran on a bank's     *)
(* bytes; and after a return nothing is left over that would run or, unless  *)
(* it was told, swallow the caller's next resume.                            *)
ExtractIsClean ==
  /\ (result = "returned") => (out = [i \in 1..Banks |-> i])
  /\ (step = "done" /\ cleanup) => (window = Own /\ pc = "program" /\ ~jump)
  /\ (host = "vice") => ~strayed
  /\ (result = "returned" /\ cleanup) => armed = 0
  /\ (result = "returned" /\ host = "vice") => spares = 0 \/ told

(* What it rests on.  The copy of the window is taken before anything goes   *)
(* into it.                                                                  *)
TypeOK ==
  /\ host \in {"vice", "unparkable", "u64"}
  /\ bank \in 1..Banks /\ window \in 0..Banks /\ armed \in 0..Banks
  /\ spares \in Nat /\ pc \in {"program", "park"}
  /\ result \in {"none", "returned", "raised"}

Steps == {"save", "jump", "park", "unjump", "arm", "resume", "read", "drain",
          "restore", "unpark", "unpark pc", "done"}
Moving == {"arm", "resume", "read", "drain"}
CleaningUp == {"restore", "unpark", "unpark pc"}

CopyIsOwn ==
  /\ step \in Steps
  /\ step \in {"save", "jump", "park", "unjump"} => window = Own
  /\ step \notin {"save", "done"} => saved = Own

\* A transfer is waited for until it is done, one bank after the other.
InOrder ==
  /\ step \in {"save", "jump", "park", "unjump", "arm"} => armed = 0
  /\ step = "resume" => armed = bank
  /\ step = "read" => armed = 0 /\ window = bank
  /\ step = "drain" => armed = 0
  /\ step \in {"save", "jump", "park"} => bank = 1
  /\ result = "none" /\ step \in {"save", "jump", "park", "arm", "resume", "read"} =>
       out = [i \in 1..(bank - 1) |-> i]
  /\ result = "none" /\ step \in {"drain", "done"} \cup CleaningUp =>
       out = [i \in 1..Banks |-> i] /\ armed = 0
  /\ step \in Moving \cup {"save", "jump", "park"} => result = "none"
  /\ step = "unjump" => result = "raised"
  /\ result = "returned" => step = "done" /\ out = [i \in 1..Banks |-> i] /\ armed = 0

\* From the park to the clean-up the CPU of a VICE is on the JMP.
ParkedThroughout ==
  /\ step \in {"save", "jump", "park", "unjump"} => pc = "program" /\ ~parked
  /\ step \in {"save", "jump"} => ~jump
  /\ step \in {"jump", "park", "unjump"} => host = "vice"
  /\ step \in Moving /\ host = "vice" => parked /\ pc = "park"
  /\ step \in {"unpark", "unpark pc", "drain"} => parked
  /\ step \in Moving \cup {"restore", "done"} /\ ~parked => pc = "program" /\ (cleanup => ~jump)
  /\ parked => host = "vice"
  /\ host = "vice" => ~strayed
  /\ result # "raised" /\ step \in CleaningUp \cup {"done"} /\ host = "vice" =>
       spares = 0 \/ told

Undone ==
  /\ step \in {"unpark", "unpark pc", "done"} /\ cleanup => window = Own
  /\ step = "unpark pc" /\ cleanup => ~jump
  /\ step = "done" /\ cleanup => pc = "program" /\ ~jump

ExtractInv == TypeOK /\ CopyIsOwn /\ InOrder /\ ParkedThroughout /\ Undone
=============================================================================
