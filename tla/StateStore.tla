------------------------------ MODULE StateStore ------------------------------
(***************************************************************************)
(* internal/state: the Store, one encrypted state file in a directory, on  *)
(* POSIX and on Windows.                                                   *)
(*                                                                         *)
(* A file is what one write made, and its number says which; its content   *)
(* is whether it can still be read, the protector its header names and     *)
(* that protector's key.  The directory's changes reach the disk when it   *)
(* is synced, or at any moment before: `disk` holds every directory a      *)
(* power loss may leave.  A process may end between any two steps, and any *)
(* step of the system may fail.                                            *)
(*                                                                         *)
(* Left out: permissions, links, the lock, names and formats; ReadOnly is  *)
(* in StoreReader.  A sync that succeeds after one that failed is taken to *)
(* make everything before it durable; a protector's key is made and        *)
(* deleted durably.  A definition used nowhere is a mistake in the one     *)
(* that follows it (README, Mutants).                                      *)
(***************************************************************************)
EXTENDS Naturals, FiniteSets

CONSTANTS
  Protectors,  \* the protectors of this build
  Keyed,       \* those that keep a key of their own, which their Wipe deletes (the Keychain)
  None,        \* no protector
  CanHold,     \* may a file that is open be replaced, as probeReplaceOpen finds: {TRUE} on POSIX
  FlushRetries,\* 0 on POSIX
  MaxWrites,   \* bound: files written
  MaxFaults    \* bound: steps that fail, crashes and power losses

ASSUME StoreAssumption ==
  /\ Keyed \subseteq Protectors /\ None \notin Protectors
  /\ CanHold \subseteq BOOLEAN /\ CanHold # {} /\ FlushRetries \in Nat
  /\ MaxWrites \in Nat \ {0} /\ MaxFaults \in Nat

VARIABLES
  pkey,       \* per protector: its key, named for the file it was made for; 0 is none
  file,       \* what each write made
  dir,        \* the directory: the state file, and temporary files
  disk,       \* the directories a power loss may leave
  writes, faults,
  pc,         \* the Store's step
  op, prot,   \* its operation, and the protector that writes or wipes
  loaded,     \* what its data key was wrapped with, if it holds one
  held,       \* the old file, open in CreateReplace
  bad,        \* a step of a wipe failed
  \* history
  result,     \* what the last operation returned
  before,     \* the state file that operation found, and whether it opened
  confirmed,  \* the last file known to be durable, until it is destroyed on purpose
  stray       \* protectors whose key no durable file names, as their callers know

disks == <<pkey, file, dir, disk, writes>>
store == <<pc, op, prot, loaded, held, bad>>
history == <<result, before, confirmed, stray>>
vars  == <<disks, store, history, faults>>

File == 1..MaxWrites
Nothing == 0
Empty == [state |-> Nothing, temps |-> {}]
NotLoaded == [prot |-> None, key |-> 0]

Init ==
  /\ pkey = [p \in Protectors |-> 0]
  /\ file = [f \in File |-> [data |-> "none", prot |-> None, key |-> 0]]
  /\ dir = Empty /\ disk = {Empty} /\ writes = 0 /\ faults = 0
  /\ pc = "closed" /\ op = "none" /\ prot = None
  /\ loaded = NotLoaded /\ held = Nothing /\ bad = FALSE
  /\ result = "none" /\ before = [state |-> Nothing, opens |-> FALSE]
  /\ confirmed = Nothing /\ stray = {}

Fault == faults < MaxFaults /\ faults' = faults + 1

-----------------------------------------------------------------------------
(***************************************************************************)
(* Files.                                                                  *)
(***************************************************************************)

\* The header can be read.
Header(f) == f # Nothing /\ file[f].data \in {"written", "synced"}
Under(f) == [prot |-> file[f].prot, key |-> file[f].key]
\* Its protector unwraps the data key.
Opens(f) == Header(f) /\ (file[f].prot \in Keyed => file[f].key = pkey[file[f].prot])
OpensAfterLoss(f) == Opens(f) /\ file[f].data = "synced"

SetData(F, d) == file' = [f \in File |-> IF f \in F THEN [file[f] EXCEPT !.data = d] ELSE file[f]]

\* A change of the directory that is not synced.
Becomes(d) == dir' = d /\ disk' = disk \cup {d}
Synced == disk' = {dir} /\ UNCHANGED dir

\* Every temporary file is overwritten and deleted.
KeepTemps == UNCHANGED <<file, dir, disk>>
RemoveTemps == SetData(dir.temps, "zero") /\ Becomes([dir EXCEPT !.temps = {}])

-----------------------------------------------------------------------------
(***************************************************************************)
(* The operations' starts and ends.                                        *)
(***************************************************************************)

Open ==
  /\ pc = "closed"
  /\ \/ pc' = "open" /\ RemoveTemps /\ UNCHANGED faults
     \/ Fault /\ dir.temps # {} /\ UNCHANGED <<pc, file, dir, disk>>
  /\ UNCHANGED <<pkey, writes, op, prot, loaded, held, bad, history>>

Ends == pc' = "closed" /\ op' = "none" /\ prot' = None /\ loaded' = NotLoaded
        /\ held' = Nothing /\ bad' = FALSE /\ result' = "none"

CloseStore == pc = "open" /\ Ends /\ UNCHANGED <<disks, before, confirmed, stray, faults>>

Load ==
  /\ pc = "open" /\ Opens(dir.state)
  /\ loaded' = Under(dir.state)
  /\ UNCHANGED <<disks, pc, op, prot, held, bad, history, faults>>

Begin(o, p, step) ==
  /\ pc = "open" /\ op' = o /\ prot' = p /\ pc' = step /\ result' = "none" /\ bad' = FALSE
  /\ before' = [state |-> dir.state, opens |-> Opens(dir.state)]

Return(r) == pc' = "open" /\ op' = "none" /\ prot' = None /\ result' = r

\* Create, where there is no file.
Create ==
  /\ dir.state = Nothing /\ writes < MaxWrites
  /\ \E p \in Protectors : Begin("create", p, "wrap")
  /\ UNCHANGED <<disks, loaded, held, confirmed, stray, faults>>

Save ==
  /\ loaded # NotLoaded /\ writes < MaxWrites
  /\ Begin("save", loaded.prot, "temp")
  /\ UNCHANGED <<disks, loaded, held, confirmed, stray, faults>>

\* What the resolver may give for a header's name: its protector, or none when its passphrase cannot be had.
Resolved(p) == {None, p}

\* The loaded protector, or the one the resolver gives.
OldProtector ==
  IF loaded # NotLoaded THEN {loaded.prot}
  ELSE IF Header(dir.state) THEN Resolved(file[dir.state].prot) ELSE {None}

\* CreateReplace, where there is a file.
CreateReplace ==
  /\ dir.state # Nothing /\ OldProtector # {None} /\ writes < MaxWrites
  /\ \E p \in Protectors : Begin("replace", p, "oldkey")
  /\ UNCHANGED <<disks, loaded, held, confirmed, stray, faults>>

-----------------------------------------------------------------------------
(***************************************************************************)
(* Replacing: the old protector's key goes, and the old file is held.      *)
(***************************************************************************)

\* P's keys are deleted; files under them open no more.
KeyDeleted(P) ==
  /\ pkey' = [p \in Protectors |-> IF p \in P THEN 0 ELSE pkey[p]]
  /\ stray' = stray \ P

Forget == loaded' = NotLoaded

\* The probe's answer is had before the wipe, and used after it.
OldKeyWiped ==
  /\ pc = "oldkey"
  /\ \E old \in OldProtector \ {None} :
       \/ /\ KeyDeleted({old}) /\ Forget
          /\ confirmed' = (IF old \in Keyed THEN Nothing ELSE confirmed)
          /\ \/ /\ held' = dir.state /\ UNCHANGED <<op, prot, result, faults>>
                /\ \E hold \in CanHold : pc' = IF hold THEN "wrap" ELSE "overfirst"
             \/ Fault /\ Return("incomplete") /\ UNCHANGED held
       \/ /\ Fault /\ Return("unchanged")
          /\ UNCHANGED <<pkey, stray, loaded, held, confirmed>>
  /\ UNCHANGED <<file, dir, disk, writes, bad, before>>

\* A file that cannot be held is overwritten and closed before the new one is written.
OverwriteFirst ==
  /\ pc = "overfirst" /\ held' = Nothing /\ confirmed' = Nothing
  /\ \/ SetData({held}, "zero") /\ pc' = "wrap" /\ UNCHANGED <<op, prot, result, faults>>
     \/ Fault /\ (UNCHANGED file \/ SetData({held}, "zero")) /\ Return("incomplete")
  /\ UNCHANGED <<pkey, dir, disk, writes, loaded, bad, before, stray>>

-----------------------------------------------------------------------------
(***************************************************************************)
(* Writing a file.                                                         *)
(***************************************************************************)

\* What a write that did not get to the rename returns.
Failed == Return(IF op = "replace" THEN "incomplete" ELSE "error") /\ held' = Nothing

\* A protector without its key makes one.
Wrap ==
  /\ pc = "wrap"
  /\ \/ /\ pc' = "temp"
        /\ IF prot \in Keyed
             THEN /\ pkey' = [pkey EXCEPT ![prot] = IF @ = 0 THEN writes + 1 ELSE @]
                  /\ stray' = stray \cup {prot}
             ELSE UNCHANGED <<pkey, stray>>
        /\ UNCHANGED <<op, prot, result, held, faults>>
     \/ Fault /\ Failed /\ UNCHANGED <<pkey, stray>>
  /\ UNCHANGED <<file, dir, disk, writes, loaded, bad, before, confirmed>>

WrappedWith == IF op = "save" THEN loaded ELSE [prot |-> prot, key |-> pkey[prot]]

\* A failed write's temporary file is removed, unless that fails too.
DropTemp == \/ Becomes([dir EXCEPT !.temps = @ \ {writes}])
            \/ UNCHANGED <<dir, disk>>

WriteTemp ==
  /\ pc = "temp" /\ writes' = writes + 1
  /\ file' = [file EXCEPT ![writes + 1] =
                [data |-> "written", prot |-> WrappedWith.prot, key |-> WrappedWith.key]]
  /\ \/ /\ Becomes([dir EXCEPT !.temps = @ \cup {writes + 1}])
        /\ \/ pc' = "sync" /\ UNCHANGED <<op, prot, result, held, faults>>
           \/ Fault /\ Failed
     \/ Fault /\ Failed /\ UNCHANGED <<dir, disk>>
  /\ UNCHANGED <<pkey, loaded, bad, before, confirmed, stray>>

SyncTemp ==
  /\ pc = "sync"
  /\ \/ SetData({writes}, "synced") /\ pc' = "rename" /\ UNCHANGED <<dir, disk, op, prot, result, held, faults>>
     \/ Fault /\ Failed /\ DropTemp /\ UNCHANGED file
  /\ UNCHANGED <<pkey, writes, loaded, bad, before, confirmed, stray>>

UnlinkThenRename ==
  /\ dir' = [state |-> writes, temps |-> dir.temps \ {writes}]
  /\ disk' = disk \cup {[dir EXCEPT !.state = Nothing], dir'}
RenameReplace == Becomes([state |-> writes, temps |-> dir.temps \ {writes}])

Rename ==
  /\ pc = "rename"
  /\ \/ /\ RenameReplace /\ pc' = "flush"
        /\ UNCHANGED <<op, prot, result, held, faults>>
     \/ Fault /\ Failed /\ DropTemp
  /\ UNCHANGED <<pkey, file, writes, loaded, bad, before, confirmed, stray>>

\* The flush fails: the Store holds the new file, and the old one keeps its bytes.
DropIt == Forget /\ Return("notdurable") /\ held' = Nothing
OverwriteAnyway ==
  /\ loaded' = Under(writes)
  /\ IF op = "replace" THEN pc' = "over" /\ UNCHANGED <<op, prot, result, held>>
     ELSE Return("notdurable") /\ held' = Nothing
NotDurable == loaded' = Under(writes) /\ Return("notdurable") /\ held' = Nothing

\* retryDurable: only while the old file is held.
Retries == held # Nothing /\ FlushRetries > 0
RetryLater == loaded' = Under(writes) /\ pc' = "retry" /\ UNCHANGED <<op, prot, result, held>>

Flushed ==
  /\ Synced /\ loaded' = Under(writes)
  /\ confirmed' = writes /\ stray' = stray \ {prot}
  /\ IF held # Nothing THEN pc' = "over" /\ UNCHANGED <<op, prot, result>>
     ELSE Return(IF op = "replace" THEN "replaced" ELSE "saved")
  /\ UNCHANGED <<held, faults>>

Flush ==
  /\ pc = "flush"
  /\ \/ Flushed
     \/ /\ Fault /\ (IF Retries THEN RetryLater ELSE NotDurable)
        /\ UNCHANGED <<dir, disk, confirmed, stray>>
  /\ UNCHANGED <<pkey, file, writes, bad, before>>

\* One of FlushRetries more flushes succeeds, or none.
Reflush ==
  /\ pc = "retry"
  /\ \/ Flushed
     \/ Fault /\ NotDurable /\ UNCHANGED <<dir, disk, confirmed, stray>>
  /\ UNCHANGED <<pkey, file, writes, bad, before>>

\* The old file is overwritten through the handle.
Overwrite ==
  /\ pc = "over" /\ held' = Nothing
  /\ \/ SetData({held}, "zero") /\ Return("replaced") /\ UNCHANGED faults
     \/ Fault /\ (UNCHANGED file \/ SetData({held}, "zero")) /\ Return("partly")
  /\ UNCHANGED <<pkey, dir, disk, writes, loaded, bad, before, confirmed, stray>>

-----------------------------------------------------------------------------
(***************************************************************************)
(* Wiping.                                                                 *)
(***************************************************************************)

\* With nothing loaded and nothing in the directory there is nothing to wipe.
Wipe ==
  /\ \E p \in OldProtector :
       /\ p = None => dir # Empty
       /\ Begin("wipe", p, "wipekey")
  /\ UNCHANGED <<disks, loaded, held, confirmed, stray, faults>>

WipeAll ==
  /\ Begin("wipeall", None, "wipekey")
  /\ UNCHANGED <<disks, loaded, held, confirmed, stray, faults>>

ToFiles == pc' = "zero" /\ confirmed' = Nothing /\ UNCHANGED <<op, prot, result>>

\* A key that cannot be deleted: Wipe keeps the file, WipeAll goes on.
FileGoesToo == ToFiles /\ bad' = TRUE /\ UNCHANGED stray
KeepsFile == op = "wipe" /\ Return("notwiped") /\ UNCHANGED <<bad, confirmed, stray>>

KeyWiped ==
  /\ pc = "wipekey"
  /\ \/ /\ op = "wipe" /\ prot # None
        /\ KeyDeleted({prot}) /\ ToFiles /\ UNCHANGED <<bad, faults>>
     \/ /\ op = "wipe" /\ prot \in Keyed /\ Fault /\ KeepsFile /\ UNCHANGED pkey
     \/ \* no protector is found: a key may remain
        /\ op = "wipe" /\ prot = None
        /\ ToFiles /\ bad' = TRUE /\ stray' = Keyed /\ UNCHANGED <<pkey, faults>>
     \/ /\ op = "wipeall"
        /\ \E left \in SUBSET Keyed :
             /\ pkey' = [p \in Protectors |-> IF p \in left THEN pkey[p] ELSE 0]
             /\ stray' = stray \cup left
             /\ IF left = {} THEN UNCHANGED <<bad, faults>> ELSE bad' = TRUE /\ Fault
        /\ ToFiles
  /\ UNCHANGED <<file, dir, disk, writes, loaded, held, before>>

\* overwriteAndRemove of the state file.
ZeroFile ==
  /\ pc = "zero"
  /\ \/ SetData({dir.state}, "zero") /\ pc' = "unlink" /\ UNCHANGED <<bad, faults>>
     \/ Fault /\ bad' = TRUE /\ (UNCHANGED file \/ SetData({dir.state}, "zero")) /\ pc' = "temps"
  /\ UNCHANGED <<pkey, dir, disk, writes, op, prot, loaded, held, history>>

Unlink ==
  /\ pc = "unlink" /\ pc' = "temps"
  /\ \/ Becomes([dir EXCEPT !.state = Nothing]) /\ UNCHANGED <<bad, faults>>
     \/ Fault /\ bad' = TRUE /\ UNCHANGED <<dir, disk>>
  /\ UNCHANGED <<pkey, file, writes, op, prot, loaded, held, history>>

WipeTemps ==
  /\ pc = "temps" /\ pc' = "syncdir"
  /\ \/ RemoveTemps /\ UNCHANGED <<bad, faults>>
     \/ Fault /\ bad' = TRUE /\ dir.temps # {} /\ UNCHANGED <<file, dir, disk>>
  /\ UNCHANGED <<pkey, writes, op, prot, loaded, held, history>>

SyncDir ==
  /\ pc = "syncdir" /\ Forget
  /\ \/ Synced /\ UNCHANGED faults
        /\ Return(IF bad THEN "notwiped" ELSE IF op = "wipe" THEN "wiped" ELSE "allwiped")
     \/ Fault /\ UNCHANGED <<dir, disk>> /\ Return("notwiped")
  /\ UNCHANGED <<pkey, file, writes, held, bad, before, confirmed, stray>>

-----------------------------------------------------------------------------
(***************************************************************************)
(* The process ends; the power goes.                                       *)
(***************************************************************************)

Crash == pc # "closed" /\ Fault /\ Ends /\ UNCHANGED <<disks, before, confirmed, stray>>

\* What was written and not synced may be lost.
PowerLoss ==
  /\ Fault /\ Ends
  /\ dir' \in disk /\ disk' = {dir'}
  /\ \E lost \in SUBSET {f \in File : file[f].data = "written"} : SetData(lost, "lost")
  /\ UNCHANGED <<pkey, writes, before, confirmed, stray>>

-----------------------------------------------------------------------------
StoreNext ==
  \/ Open \/ CloseStore \/ Load \/ Create \/ Save \/ CreateReplace \/ OldKeyWiped
  \/ OverwriteFirst \/ Wrap \/ WriteTemp \/ SyncTemp \/ Rename \/ Flush \/ Reflush \/ Overwrite
  \/ Wipe \/ WipeAll \/ KeyWiped \/ ZeroFile \/ Unlink \/ WipeTemps \/ SyncDir
  \/ Crash

Next == StoreNext \/ PowerLoss

Spec == Init /\ [][Next]_vars

-----------------------------------------------------------------------------
(***************************************************************************)
(* Properties.                                                             *)
(***************************************************************************)

Possible == disk \cup {dir}

(* What the Store reported as durably written is there, or a later write   *)
(* is, and opens: after any crash and any power loss, through saves that   *)
(* fail and through a replacement, until it is destroyed on purpose        *)
(* (writeAtomic, CreateReplace: the old bytes go once the new are durable, *)
(* and a Save after a failed replacement is refused).                      *)
SavedSurvives ==
  confirmed # Nothing => \A d \in Possible : d.state >= confirmed /\ OpensAfterLoss(d.state)

(* What an operation says is so.  Before the rename the path is as it was, *)
(* and "nothing was replaced" means it still opens; ErrNotDurable and      *)
(* ErrReplacedPartly mean the new file is in place and held; a full        *)
(* success means that the old file cannot be read                          *)
(* (CreateReplace's list of errors).                                       *)
ReplaceSays ==
  /\ result \in {"error", "incomplete", "unchanged"} => dir.state = before.state
  /\ result = "unchanged" /\ before.opens => Opens(dir.state)
  /\ result \in {"saved", "notdurable", "partly", "replaced"} =>
       dir.state = writes /\ Opens(dir.state) /\ loaded = Under(dir.state)
  /\ result \in {"saved", "partly", "replaced"} => confirmed = writes
  /\ result = "replaced" => ~Header(before.state)

(* A wipe that returned no error left no file, now or after a power loss,  *)
(* and no key that it could know of; WipeAll left no key at all.           *)
WipedIsGone ==
  /\ result \in {"wiped", "allwiped"} =>
       Possible = {Empty} /\ loaded = NotLoaded /\ \A p \in Protectors \ stray : pkey[p] = 0
  /\ result = "allwiped" => \A p \in Protectors : pkey[p] = 0

(* A key goes before the file that names its protector, so a wipe that was *)
(* interrupted or refused finds the key again; the caller knows of the     *)
(* others (Wipe: "so that a retry finds the protector again").             *)
WipeFindsTheKey ==
  \A p \in Protectors \ stray : pkey[p] # 0 =>
    \A d \in Possible : Header(d.state) /\ file[d.state].prot = p

(* The state file is what DurableState promises: it goes from a version    *)
(* that opens to a newer one in one step, a power loss brings back no      *)
(* other than may be there, and only CreateReplace, Wipe and WipeAll       *)
(* destroy one, for good.                                                  *)
Readable(f) == IF Opens(f) THEN f ELSE Nothing
StateFile == INSTANCE DurableState
  WITH now <- Readable(dir.state), maybe <- {Readable(d.state) : d \in disk}, promised <- confirmed,
       destroying <- op \in {"replace", "wipe", "wipeall"}
KeepsState == StateFile!Spec
=============================================================================
