------------------------------ MODULE U64Storage ------------------------------
(***************************************************************************)
(* Files on an Ultimate's own storage, over its FTP server                 *)
(* (ultimate64_storage.py): every operation is a session of FTP commands   *)
(* under the DeviceLock, so no other client writes there meanwhile.  A     *)
(* transfer may be cut off, be acknowledged and yet damaged, or take the   *)
(* connection with it.                                                     *)
(*                                                                         *)
(* A file's content is a value: "old" or "stock" before, "new" when sent,  *)
(* "damaged", or "none".  Three places stand for all: a test file in a     *)
(* directory that may not exist, a ROM of ours and a stock ROM.            *)
(***************************************************************************)
EXTENDS Naturals, FiniteSets

CONSTANTS MaxCalls, MaxFaults  \* bounds: operations, commands that go wrong

Places == {"test", "rom", "stock"}

VARIABLES
  file,    \* the content of each place
  dir,     \* the directory of the test file exists
  op,      \* the operation in progress: place, overwrite, verify
  step,    \* its next command
  link,    \* the FTP connection is up
  original,\* what the operation read before it replaced a file
  told,    \* what the caller was told of the last operation
  before,  \* the storage when it began
  calls, faults

vars == <<file, dir, op, step, link, original, told, before, calls, faults>>

NoOp == [place |-> "test", overwrite |-> FALSE, verify |-> TRUE]

Init ==
  /\ file \in [Places -> {"none", "old", "stock"}]
  /\ file["stock"] = "stock" /\ file["test"] # "stock" /\ file["rom"] # "stock"
  /\ dir \in BOOLEAN /\ (file["test"] # "none" => dir)
  /\ op = NoOp /\ step = "idle" /\ link = FALSE /\ original = "none"
  /\ told = "none" /\ before = file /\ calls = 0 /\ faults = 0

MayFail == faults < MaxFaults /\ faults' = faults + 1

Tell(what) == step' = "idle" /\ told' = what /\ link' = FALSE

\* _session: the lock is held, the server answers, or nothing happens at all.
Enter ==
  /\ step = "idle" /\ calls < MaxCalls
  /\ calls' = calls + 1 /\ before' = file /\ link' = TRUE /\ told' = "busy"

\* An existing file is replaced on request only, a stock ROM on a request of
\* its own.
MayReplace(place, overwrite, replaceStock) ==
  /\ overwrite
  /\ place = "stock" => replaceStock

\* storage_put_file and storage_put_rom: a ROM is always read back.
Put ==
  \E place \in Places, overwrite, verify, replaceStock \in BOOLEAN :
    /\ Enter
    /\ place # "test" => verify
    /\ file[place] = "none" \/ MayReplace(place, overwrite, replaceStock)
    /\ op' = [place |-> place, overwrite |-> overwrite, verify |-> verify]
    /\ step' = IF file[place] = "none" THEN "parents" ELSE "fetch"
    /\ original' = "none"
    /\ UNCHANGED <<file, dir, faults>>

\* _store: the file to be replaced is fetched before anything is sent.
Fetch ==
  /\ step = "fetch"
  /\ \/ original' = file[op.place] /\ step' = "parents" /\ UNCHANGED <<told, link, faults>>
     \/ MayFail /\ Tell("refused") /\ UNCHANGED original
  /\ UNCHANGED <<file, dir, op, before, calls>>

\* _make_parents: a missing directory is made; one that cannot be ends it.
Parents ==
  /\ step = "parents"
  /\ \/ /\ dir' = (dir \/ op.place = "test")
        /\ step' = "send" /\ UNCHANGED <<told, link, faults>>
     \/ MayFail /\ Tell("refused") /\ UNCHANGED dir
  /\ UNCHANGED <<file, op, original, before, calls>>

\* STOR: answered, answered over a damaged file, or cut off part of the way.
\* A transfer that fails may take the connection with it.
Store(content, next, undo) ==
  \/ /\ link
     /\ file' = [file EXCEPT ![op.place] = content]
     /\ step' = next /\ UNCHANGED <<link, faults>>
  \/ /\ link /\ MayFail
     /\ file' = [file EXCEPT ![op.place] = "damaged"]
     /\ step' = next /\ UNCHANGED link
  \/ /\ link /\ MayFail
     /\ file' \in {file, [file EXCEPT ![op.place] = "damaged"]}
     /\ link' \in BOOLEAN /\ step' = undo
  \/ /\ ~link /\ step' = undo /\ UNCHANGED <<file, link, faults>>

Send ==
  /\ step = "send"
  /\ Store("new", "verify", "undo")
  /\ UNCHANGED <<dir, op, original, told, before, calls>>

\* SIZE, which a damaged file may pass, and RETR against the digest.
Verify ==
  /\ step = "verify"
  /\ \/ /\ file[op.place] = "new" \/ ~op.verify
        /\ Tell("stored") /\ UNCHANGED faults
     \/ file[op.place] # "new" /\ step' = "undo" /\ UNCHANGED <<told, link, faults>>
     \/ /\ MayFail /\ step' = "undo"
        /\ link' \in BOOLEAN /\ UNCHANGED told
  /\ UNCHANGED <<file, dir, op, original, before, calls>>

\* The upload failed: a new file is deleted, a replaced one sent back.
Undo ==
  /\ step = "undo"
  /\ IF original = "none"
     THEN \/ /\ link /\ file' = [file EXCEPT ![op.place] = "none"]
             /\ Tell("removed") /\ UNCHANGED faults
          \/ /\ ~link \/ faults < MaxFaults
             /\ faults' = faults + IF link THEN 1 ELSE 0
             /\ Tell("left damaged") /\ UNCHANGED file
     ELSE /\ Store(original, "check", "lost") /\ UNCHANGED told
  /\ UNCHANGED <<dir, op, original, before, calls>>

\* Mutant: an answered STOR that is believed.
PutBackBelieved == TRUE

\* _restore believes what it reads back.
PutBack == file[op.place] = original

Check ==
  /\ step = "check"
  /\ \/ PutBack /\ Tell("put back") /\ UNCHANGED faults
     \/ ~PutBack /\ Tell("left damaged") /\ UNCHANGED faults
     \/ MayFail /\ Tell("left damaged")
  /\ UNCHANGED <<file, dir, op, original, before, calls>>

Lost ==
  /\ step = "lost" /\ Tell("left damaged")
  /\ UNCHANGED <<file, dir, op, original, before, calls, faults>>

\* storage_delete_file and storage_delete_rom: never a stock ROM; what DELE
\* answered is looked up again for a ROM.
Delete ==
  \E place \in Places \ {"stock"} :
    /\ Enter
    /\ file[place] # "none"
    /\ op' = [NoOp EXCEPT !.place = place]
    /\ \/ /\ file' = [file EXCEPT ![place] = "none"]
          /\ step' = "idle" /\ UNCHANGED faults
       \/ /\ MayFail /\ step' = "idle"
          /\ file' \in {file, [file EXCEPT ![place] = "none"]}
    /\ UNCHANGED <<dir, original>>

\* storage_mkdir and storage_rmdir: a directory that still holds the file stays.
MkDir ==
  /\ Enter /\ ~dir /\ dir' = TRUE
  /\ UNCHANGED <<file, op, step, original, faults>>

RmDir ==
  /\ Enter /\ dir /\ file["test"] = "none" /\ dir' = FALSE
  /\ UNCHANGED <<file, op, step, original, faults>>

Next ==
  \/ Put \/ Fetch \/ Parents \/ Send \/ Verify \/ Undo \/ Check \/ Lost
  \/ Delete \/ MkDir \/ RmDir

Spec == Init /\ [][Next]_vars

-----------------------------------------------------------------------------
\* What the caller is told of an upload is so: a verified one is there, and a
\* failed one left the file it would have replaced exactly as it was, or no
\* file where there was none, or says that it did not.
StoredOrTold ==
  /\ told = "stored" /\ op.verify => file[op.place] = "new"
  /\ told \in {"put back", "refused"} => file = before
  /\ told = "removed" => file[op.place] = "none" /\ before[op.place] = "none"
-----------------------------------------------------------------------------
(* What the property rests on.                                             *)

Contents == {"none", "old", "stock", "new", "damaged"}

\* Of what is stored, and where.
TypeOK ==
  /\ file \in [Places -> Contents] /\ before \in [Places -> Contents]
  /\ original \in Contents
  /\ op \in [place : Places, overwrite : BOOLEAN, verify : BOOLEAN]

\* Until something is sent the storage is as it was; then only the one place
\* differs from it.
OnePlaceDiffers ==
  /\ step \in {"fetch", "parents", "send"} => file = before
  /\ step # "idle" => \A p \in Places \ {op.place} : file[p] = before[p]

\* What was read before the upload is what was there, and a place that held
\* nothing has nothing to be put back.
OriginalIsKnown ==
  /\ step = "fetch" => file[op.place] # "none"
  /\ step \notin {"idle", "fetch"} => original = before[op.place]

StorageInv ==
  /\ TypeOK /\ OnePlaceDiffers /\ OriginalIsKnown /\ StoredOrTold
  /\ step # "idle" => told = "busy"
=============================================================================
