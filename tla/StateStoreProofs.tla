-------------------------- MODULE StateStoreProofs --------------------------
(***************************************************************************)
(* Proofs about StateStore: what was saved survives, what an operation     *)
(* says is so, and a wipe wipes, for any protectors, any number of writes, *)
(* of failures, crashes and power losses, and both file systems.           *)
(*                                                                         *)
(* At the end: `status` beside the Store (StoreReader), which changes      *)
(* nothing and shows what is so.                                           *)
(*                                                                         *)
(* The inductive invariant ties what each directory that a power loss may  *)
(* leave can name (Named, SavedSurvives) to who has a key and which key    *)
(* the file being written is under (Keys, Loaded, Written), and to how far *)
(* an operation is (Placed, Held, LeftKeysKnown, WipedSoFar).              *)
(***************************************************************************)
EXTENDS StoreReader, TLAPS

-----------------------------------------------------------------------------
(***************************************************************************)
(* The inductive invariant.                                                *)
(***************************************************************************)

Dirs == [state : 0..MaxWrites, temps : SUBSET File]
Files == [File -> [data : {"none", "written", "synced", "zero", "lost"},
                   prot : Protectors \cup {None}, key : Nat]]
Before == [state : 0..MaxWrites, opens : BOOLEAN]
Wrapped == [prot : Protectors \cup {None}, key : Nat]

OldSteps == {"oldkey", "overfirst"}
WriteSteps == {"wrap", "temp", "sync", "rename", "flush"}
WipeSteps == {"zero", "unlink", "temps", "syncdir"}   \* after the key
StorePcs == {"closed", "open", "retry", "over", "wipekey"} \cup OldSteps \cup WriteSteps \cup WipeSteps

Ops == {"none", "create", "save", "replace", "wipe", "wipeall"}
Results == {"none", "saved", "notdurable", "replaced", "partly", "incomplete", "unchanged",
            "error", "wiped", "allwiped", "notwiped"}

(* The types.                                                              *)
TypeOK ==
  /\ pkey \in [Protectors -> Nat]
  /\ file \in Files
  /\ dir \in disk /\ disk \in SUBSET Dirs
  /\ writes \in 0..MaxWrites
  /\ pc \in StorePcs /\ op \in Ops
  /\ prot \in Protectors \cup {None} /\ loaded \in Wrapped
  /\ held \in 0..MaxWrites /\ bad \in BOOLEAN
  /\ result \in Results
  /\ before \in Before
  /\ confirmed \in 0..MaxWrites /\ stray \in SUBSET Protectors

(* Where an operation is.                                                  *)
Placed ==
  /\ result # "none" => pc = "open"
  /\ pc \in {"closed", "open"} => op = "none" /\ held = Nothing
  /\ pc = "closed" => loaded = NotLoaded
  /\ pc \in OldSteps \cup {"retry", "over"} => op = "replace"
  /\ pc \in WriteSteps => op \in {"create", "save", "replace"}
  /\ pc = "wrap" => op # "save"
  /\ pc \in WipeSteps \cup {"wipekey"} => op \in {"wipe", "wipeall"} /\ held = Nothing
  /\ pc \in OldSteps \cup {"wrap", "temp"} => writes < MaxWrites
  /\ pc \in WriteSteps \cup OldSteps => prot \in Protectors

(* A directory names a file as the state only once it was synced, and      *)
(* never a file that is temporary too.                                     *)
Named ==
  \A d \in disk :
    /\ d.state <= writes /\ \A t \in d.temps : t <= writes
    /\ d.state \notin d.temps /\ d.state \notin dir.temps
    /\ d.state # Nothing => file[d.state].data \in {"synced", "zero"}

(* Who has a key, and what a header that can be read names.                *)
Keys ==
  /\ \A p \in Protectors \ Keyed : pkey[p] = 0
  /\ \A f \in File : Header(f) =>
       file[f].prot \in Protectors /\ (file[f].prot \in Keyed => file[f].key # 0)

(* The loaded key is the one of the file in place, until a wipe.           *)
Loaded ==
  loaded # NotLoaded =>
    /\ pc \notin WipeSteps \ {"zero"} => Header(dir.state) /\ loaded = Under(dir.state)
    /\ pc \notin WipeSteps => Opens(dir.state)

(* The file being written: under the operation's protector and its key.    *)
Written ==
  /\ op \in {"create", "replace"} /\ pc \in WriteSteps \cup {"overfirst"} => loaded = NotLoaded
  /\ op = "save" => loaded # NotLoaded /\ prot = loaded.prot
  /\ pc = "temp" /\ prot \in Keyed => pkey[prot] # 0
  /\ pc \in {"sync", "rename", "flush", "retry", "over"} =>
       /\ writes # 0 /\ file[writes].prot = prot
       /\ prot \in Keyed => file[writes].key = pkey[prot]
       /\ op = "save" => Under(writes) = loaded
       /\ file[writes].data = IF pc = "sync" THEN "written" ELSE "synced"
  /\ pc \in {"sync", "rename"} => writes \in dir.temps /\ \A d \in disk : d.state # writes
  /\ pc \in {"flush", "retry", "over"} => dir.state = writes
  /\ pc = "over" => confirmed = writes /\ loaded = Under(writes)

(* The old file: in place until the rename, and overwritten or held.       *)
Held ==
  /\ held # Nothing => op = "replace" /\ held = before.state
  /\ pc = "oldkey" => held = Nothing /\ before.opens = Opens(dir.state)
  /\ pc \in {"overfirst", "over"} => held # Nothing
  /\ pc \in OldSteps \cup (WriteSteps \ {"flush"}) => before.state = dir.state
  /\ pc \in {"flush", "retry", "over"} => before.state # writes
  /\ op = "replace" /\ pc \in WriteSteps \cup {"retry"} /\ held = Nothing => ~Header(before.state)
  /\ before.state <= writes

(* While a file is replaced, and once a wipe has the keys, the caller      *)
(* knows of every key that is left.                                        *)
LeftKeysKnown ==
  /\ pc \in WipeSteps \cup {"overfirst"} \/ (op \in {"create", "replace"} /\ pc \in WriteSteps \cup {"retry"})
       => \A p \in Protectors \ stray : pkey[p] = 0
  /\ pc = "wipekey" /\ op = "wipe" /\ prot # None => Header(dir.state) /\ file[dir.state].prot = prot

(* What a wipe has done so far.                                            *)
WipedSoFar ==
  /\ pc \in WipeSteps => confirmed = Nothing
  /\ pc \in WipeSteps /\ op = "wipeall" /\ ~bad => \A p \in Protectors : pkey[p] = 0
  /\ pc \in {"temps", "syncdir"} /\ ~bad => dir.state = Nothing
  /\ pc = "syncdir" /\ ~bad => dir.temps = {}

IInv ==
  /\ TypeOK /\ Placed /\ Named /\ Keys /\ Loaded /\ Written /\ Held /\ LeftKeysKnown /\ WipedSoFar
  /\ SavedSurvives /\ ReplaceSays /\ WipedIsGone /\ WipeFindsTheKey

USE StoreAssumption DEF Nothing

-----------------------------------------------------------------------------
(***************************************************************************)
(* Records, and what the Store does to files and directories.              *)
(***************************************************************************)

\* Records, field by field.
LEMMA DirOf ==
  \A s \in 0..MaxWrites, T \in SUBSET File :
     /\ [state |-> s, temps |-> T] \in Dirs
     /\ [state |-> s, temps |-> T].state = s /\ [state |-> s, temps |-> T].temps = T
BY DEF Dirs

LEMMA NotLoadedType == NotLoaded \in Wrapped /\ NotLoaded.prot = None
BY DEF NotLoaded, Wrapped

LEMMA UnderType ==
  ASSUME TypeOK, NEW f \in File
  PROVE  Under(f) \in Wrapped /\ Under(f).prot = file[f].prot /\ Under(f).key = file[f].key
<1>1. file[f].prot \in Protectors \cup {None} /\ file[f].key \in Nat
  BY DEF TypeOK, Files
<1> QED BY <1>1 DEF Under, Wrapped

\* A change of some files' bytes (SetData).
LEMMA SetDataFacts ==
  ASSUME TypeOK, NEW F, NEW d \in {"none", "written", "synced", "zero", "lost"}, SetData(F, d)
  PROVE  /\ file' \in Files
         /\ \A f \in File : /\ file'[f].data = (IF f \in F THEN d ELSE file[f].data)
                            /\ file'[f].prot = file[f].prot /\ file'[f].key = file[f].key
BY DEF TypeOK, SetData, Files

\* A change of the directory (Becomes).
LEMMA BecomesFacts ==
  ASSUME TypeOK, NEW d \in Dirs, Becomes(d)
  PROVE  dir' = d /\ disk' = disk \cup {d} /\ dir' \in disk' /\ disk' \in SUBSET Dirs
BY DEF TypeOK, Becomes

\* The temporary files go (RemoveTemps).
LEMMA RemoveTempsFacts ==
  ASSUME TypeOK, RemoveTemps
  PROVE  /\ dir'.state = dir.state /\ dir'.temps = {}
         /\ disk' = disk \cup {dir'} /\ dir' \in disk' /\ disk' \in SUBSET Dirs
         /\ file' \in Files
         /\ \A f \in File : /\ file'[f].data = (IF f \in dir.temps THEN "zero" ELSE file[f].data)
                            /\ file'[f].prot = file[f].prot /\ file'[f].key = file[f].key
<1>1. dir \in Dirs
  BY DEF TypeOK
<1>2. [dir EXCEPT !.temps = {}] \in Dirs
  BY <1>1 DEF Dirs
<1>3. Becomes([dir EXCEPT !.temps = {}]) /\ SetData(dir.temps, "zero")
  BY DEF RemoveTemps
<1>4. dir' = [dir EXCEPT !.temps = {}]
  BY <1>2, <1>3, BecomesFacts
<1>5. dir'.state = dir.state /\ dir'.temps = {}
  BY <1>1, <1>4 DEF Dirs
<1> QED BY <1>2, <1>3, <1>4, <1>5, BecomesFacts, SetDataFacts

\* An operation begins (Begin), and the process ends (Ends).
LEMMA BeginFacts ==
  ASSUME TypeOK, NEW o, NEW p, NEW s, Begin(o, p, s)
  PROVE  /\ pc = "open" /\ pc' = s /\ op' = o /\ prot' = p /\ result' = "none" /\ bad' = FALSE
         /\ before' \in Before /\ before'.state = dir.state
         /\ before'.opens = Opens(dir.state)
<1>1. dir.state \in 0..MaxWrites
  BY DEF TypeOK, Dirs
<1>2. Opens(dir.state) \in BOOLEAN
  BY DEF Opens, Header
<1> QED BY <1>1, <1>2 DEF Begin, Before

LEMMA EndsFacts ==
  ASSUME Ends
  PROVE  /\ pc' = "closed" /\ op' = "none" /\ prot' = None /\ held' = Nothing
         /\ bad' = FALSE /\ result' = "none" /\ loaded' = NotLoaded /\ loaded' \in Wrapped
BY NotLoadedType DEF Ends

\* What the state's types say of its parts.
LEMMA Parts ==
  ASSUME TypeOK
  PROVE  /\ dir \in Dirs /\ dir.state \in 0..MaxWrites /\ dir.temps \in SUBSET File
         /\ disk \in SUBSET Dirs /\ dir \in disk
         /\ \A d \in disk : d.state \in 0..MaxWrites /\ d.temps \in SUBSET File
         /\ before.state \in 0..MaxWrites /\ before.opens \in BOOLEAN
         /\ loaded.prot \in Protectors \cup {None} /\ loaded.key \in Nat
         /\ loaded = [prot |-> loaded.prot, key |-> loaded.key]
         /\ writes \in Nat /\ MaxWrites \in Nat /\ writes <= MaxWrites
         /\ \A f \in File : f \in Nat /\ f # 0 /\ f <= MaxWrites
         /\ \A f \in 0..MaxWrites : f # 0 => f \in File
BY DEF TypeOK, Dirs, Before, Wrapped, File

-----------------------------------------------------------------------------
(***************************************************************************)
(* The types.                                                              *)
(***************************************************************************)

\* An operation begins.
LEMMA BeginTypes ==
  ASSUME TypeOK, NEW o \in Ops, NEW p \in Protectors \cup {None}, NEW s \in StorePcs, Begin(o, p, s),
         UNCHANGED <<disks, loaded, held, confirmed, stray>>
  PROVE  TypeOK'
<1>1. pc' = s /\ op' = o /\ prot' = p /\ result' = "none" /\ bad' = FALSE /\ before' \in Before
  BY BeginFacts
<1> QED BY <1>1 DEF TypeOK, disks, Results

\* What a step does beside the disk (store, history).
RestTypes ==
  /\ pc \in StorePcs /\ op \in Ops /\ prot \in Protectors \cup {None} /\ loaded \in Wrapped
  /\ held \in 0..MaxWrites /\ bad \in BOOLEAN /\ result \in Results /\ before \in Before
  /\ confirmed \in 0..MaxWrites /\ stray \in SUBSET Protectors
DiskTypes ==
  /\ pkey \in [Protectors -> Nat] /\ file \in Files
  /\ dir \in disk /\ disk \in SUBSET Dirs /\ writes \in 0..MaxWrites

\* A temporary file is dropped.
LEMMA DropTempTypes ==
  ASSUME TypeOK, DropTemp
  PROVE  dir' \in disk' /\ disk' \in SUBSET Dirs
<1>1. [dir EXCEPT !.temps = @ \ {writes}] \in Dirs
  BY Parts DEF Dirs
<1> QED BY <1>1, BecomesFacts DEF DropTemp, TypeOK

\* Every step keeps the types.
LEMMA TypesStep ==
  ASSUME TypeOK, Placed, Written, Next
  PROVE  TypeOK'
<1> USE DEF Return
<1> SUFFICES RestTypes' /\ DiskTypes'
  BY DEF RestTypes, DiskTypes, TypeOK
<1>t. RestTypes /\ DiskTypes
  BY DEF RestTypes, DiskTypes, TypeOK
<1>1. CASE Open
  <2>1. RestTypes'
    BY <1>t, <1>1 DEF Open, Fault, history, RestTypes, StorePcs, Results, Ops
  <2>2. DiskTypes'
    BY <1>t, <1>1, RemoveTempsFacts DEF Open, Fault, history, DiskTypes
  <2> QED BY <2>1, <2>2
<1>2. CASE CloseStore
  <2>1. RestTypes'
    BY <1>t, <1>2, EndsFacts DEF CloseStore, disks, RestTypes, StorePcs, Results, Ops
  <2>2. DiskTypes'
    BY <1>t, <1>2 DEF CloseStore, disks, DiskTypes
  <2> QED BY <2>1, <2>2
<1>3. CASE Load
  <2>1. RestTypes'
    BY <1>t, <1>3, Parts, UnderType DEF Load, disks, history, RestTypes, StorePcs,
       Results, Ops, Opens, Header
  <2>2. DiskTypes'
    BY <1>t, <1>3 DEF Load, disks, history, DiskTypes
  <2> QED BY <2>1, <2>2
<1>4. CASE Create
  BY <1>4, Parts, BeginTypes DEF Create, RestTypes, TypeOK, StorePcs, WriteSteps,
     OldSteps, Ops, DiskTypes
<1>5. CASE Save
  BY <1>5, Parts, BeginTypes DEF Save, RestTypes, TypeOK, StorePcs, WriteSteps,
     OldSteps, Ops, DiskTypes
<1>6. CASE CreateReplace
  BY <1>6, Parts, BeginTypes DEF CreateReplace, OldProtector, Resolved, RestTypes,
     TypeOK, StorePcs, WriteSteps, OldSteps, Ops, Files, DiskTypes, Header
<1>7. CASE OldKeyWiped
  <2>1. RestTypes'
    BY <1>t, <1>7, NotLoadedType, Parts DEF OldKeyWiped, OldProtector, KeyDeleted,
       Forget, Fault, Return, Resolved, RestTypes, StorePcs, Results, Ops, WriteSteps,
       OldSteps
  <2>2. DiskTypes'
    BY <1>t, <1>7, Parts DEF OldKeyWiped, KeyDeleted, Fault, DiskTypes
  <2> QED BY <2>1, <2>2
<1>8. CASE OverwriteFirst
  <2>1. RestTypes'
    BY <1>t, <1>8, Parts DEF OverwriteFirst, Fault, Return, RestTypes, StorePcs,
       Results, Ops, WriteSteps
  <2>2. DiskTypes'
    BY <1>t, <1>8, SetDataFacts, Parts DEF OverwriteFirst, Fault, DiskTypes
  <2> QED BY <2>1, <2>2
<1>9. CASE Wrap
  <2>1. RestTypes'
    BY <1>t, <1>9, Parts DEF Wrap, Fault, Failed, Return, RestTypes, StorePcs, Results,
       Ops, WriteSteps
  <2>2. DiskTypes'
    BY <1>t, <1>9, Parts DEF Wrap, Fault, DiskTypes, Placed, WriteSteps
  <2> QED BY <2>1, <2>2
<1>10. CASE WriteTemp
  <2>1. RestTypes'
    BY <1>t, <1>10 DEF WriteTemp, Fault, Failed, Return, RestTypes, StorePcs, Results,
       Ops, WriteSteps
  <2>2. DiskTypes'
    <3>1. writes + 1 \in File /\ writes' = writes + 1
      BY <1>10, Parts DEF WriteTemp, Placed, WriteSteps, OldSteps, File
    <3>2. WrappedWith \in Wrapped
      BY <1>t, <1>10, Parts DEF WriteTemp, WrappedWith, Wrapped, RestTypes, DiskTypes, Placed, WriteSteps
    <3>3. file' \in Files
      BY <1>t, <1>10, <3>1, <3>2 DEF WriteTemp, DiskTypes, Files, Wrapped
    <3>4. [dir EXCEPT !.temps = @ \cup {writes + 1}] \in Dirs
      BY <3>1, Parts DEF Dirs
    <3>5. dir' \in disk' /\ disk' \in SUBSET Dirs
      BY <1>t, <1>10, <3>4, BecomesFacts DEF WriteTemp, DiskTypes
    <3> QED BY <1>t, <1>10, <3>1, <3>3, <3>5, Parts DEF WriteTemp, DiskTypes, File
  <2> QED BY <2>1, <2>2
<1>11. CASE SyncTemp
  <2>1. RestTypes'
    BY <1>t, <1>11 DEF SyncTemp, Fault, Failed, Return, RestTypes, StorePcs, Results,
       Ops, WriteSteps
  <2>2. DiskTypes'
    BY <1>t, <1>11, SetDataFacts, DropTempTypes, Parts DEF SyncTemp, Fault, DiskTypes
  <2> QED BY <2>1, <2>2
<1>12. CASE Rename
  <2>1. RestTypes'
    BY <1>t, <1>12 DEF Rename, Fault, Failed, Return, RestTypes, StorePcs, Results, Ops,
       WriteSteps
  <2>2. DiskTypes'
    <3>1. [state |-> writes, temps |-> dir.temps \ {writes}] \in Dirs
      BY Parts, DirOf
    <3>2. dir' \in disk' /\ disk' \in SUBSET Dirs
      BY <1>12, <3>1, BecomesFacts, DropTempTypes DEF Rename, RenameReplace
    <3> QED BY <1>t, <1>12, <3>2 DEF Rename, DiskTypes
  <2> QED BY <2>1, <2>2
<1>13. CASE Flush
  <2>1. RestTypes'
    <3>1. writes \in File /\ Under(writes) \in Wrapped
      BY <1>13, Parts, UnderType DEF Flush, Written
    <3>2. stray' \in SUBSET Protectors
      BY <1>t, <1>13 DEF Flush, Flushed, RestTypes
    <3> QED BY <1>t, <1>13, <3>1, <3>2, Parts
            DEF Flush, Flushed, RestTypes, NotDurable, RetryLater, DiskTypes, StorePcs, Ops, Results
  <2>2. DiskTypes'
    BY <1>t, <1>13 DEF Flush, Flushed, Fault, Synced, DiskTypes
  <2> QED BY <2>1, <2>2
<1>14. CASE Reflush
  <2>1. RestTypes'
    <3>1. writes \in File /\ Under(writes) \in Wrapped
      BY <1>14, Parts, UnderType DEF Reflush, Written
    <3>2. stray' \in SUBSET Protectors
      BY <1>t, <1>14 DEF Reflush, Flushed, RestTypes
    <3> QED BY <1>t, <1>14, <3>1, <3>2, Parts
            DEF Reflush, Flushed, RestTypes, NotDurable, RetryLater, DiskTypes, StorePcs, Ops, Results
  <2>2. DiskTypes'
    BY <1>t, <1>14 DEF Reflush, Flushed, Fault, Synced, DiskTypes
  <2> QED BY <2>1, <2>2
<1>15. CASE Overwrite
  <2>1. RestTypes'
    BY <1>t, <1>15 DEF Overwrite, Return, Fault, RestTypes, StorePcs, Results, Ops
  <2>2. DiskTypes'
    BY <1>t, <1>15, SetDataFacts, Parts DEF Overwrite, Fault, DiskTypes
  <2> QED BY <2>1, <2>2
<1>16. CASE Wipe
  BY <1>16, Parts, BeginTypes DEF Wipe, OldProtector, Resolved, RestTypes, TypeOK,
     StorePcs, WriteSteps, OldSteps, Ops, Files, DiskTypes, WipeSteps, Header
<1>17. CASE WipeAll
  BY <1>17, Parts, BeginTypes DEF WipeAll, RestTypes, TypeOK, StorePcs, WriteSteps,
     OldSteps, Ops, DiskTypes, WipeSteps
<1>18. CASE KeyWiped
  <2>1. RestTypes'
    <3>1. stray' \in SUBSET Protectors
      BY <1>t, <1>18, StoreAssumption DEF KeyWiped, RestTypes, KeyDeleted, KeepsFile
    <3>2. pc' \in StorePcs /\ bad' \in BOOLEAN
      BY <1>t, <1>18 DEF KeyWiped, RestTypes, ToFiles, KeepsFile, StorePcs, WipeSteps
    <3> QED BY <1>t, <1>18, <3>1, <3>2, Parts DEF KeyWiped, RestTypes, ToFiles, KeepsFile, Ops, Results
  <2>2. DiskTypes'
    BY <1>t, <1>18, Parts DEF KeyWiped, KeyDeleted, ToFiles, Fault, KeepsFile, DiskTypes
  <2> QED BY <2>1, <2>2
<1>19. CASE ZeroFile
  <2>1. RestTypes'
    BY <1>t, <1>19 DEF ZeroFile, Fault, history, RestTypes, StorePcs, Results, Ops,
       WipeSteps
  <2>2. DiskTypes'
    BY <1>t, <1>19, SetDataFacts, Parts DEF ZeroFile, Fault, history, DiskTypes
  <2> QED BY <2>1, <2>2
<1>20. CASE Unlink
  <2>1. RestTypes'
    BY <1>t, <1>20 DEF Unlink, Fault, history, RestTypes, StorePcs, Results, Ops,
       WipeSteps
  <2>2. DiskTypes'
    <3>1. [dir EXCEPT !.state = Nothing] \in Dirs
      BY Parts DEF Dirs
    <3>2. dir' \in disk' /\ disk' \in SUBSET Dirs
      BY <1>t, <1>20, <3>1, BecomesFacts DEF Unlink, DiskTypes
    <3> QED BY <1>t, <1>20, <3>2 DEF Unlink, DiskTypes
  <2> QED BY <2>1, <2>2
<1>21. CASE WipeTemps
  <2>1. RestTypes'
    BY <1>t, <1>21 DEF WipeTemps, Fault, history, RestTypes, StorePcs, Results, Ops,
       WipeSteps
  <2>2. DiskTypes'
    BY <1>t, <1>21, RemoveTempsFacts DEF WipeTemps, Fault, history, DiskTypes
  <2> QED BY <2>1, <2>2
<1>22. CASE SyncDir
  <2>1. RestTypes'
    BY <1>t, <1>22, NotLoadedType DEF SyncDir, Forget, Return, Fault, RestTypes,
       StorePcs, Results, Ops
  <2>2. DiskTypes'
    BY <1>t, <1>22 DEF SyncDir, Synced, Fault, DiskTypes
  <2> QED BY <2>1, <2>2
<1>23. CASE Crash
  <2>1. RestTypes'
    BY <1>t, <1>23, EndsFacts DEF Crash, Fault, disks, RestTypes, StorePcs, Results, Ops
  <2>2. DiskTypes'
    BY <1>t, <1>23 DEF Crash, Fault, disks, DiskTypes
  <2> QED BY <2>1, <2>2
<1>24. CASE PowerLoss
  <2>1. RestTypes'
    BY <1>t, <1>24, EndsFacts DEF PowerLoss, Fault, RestTypes, StorePcs, Results, Ops
  <2>2. DiskTypes'
    BY <1>t, <1>24, SetDataFacts, Parts DEF PowerLoss, Fault, DiskTypes
  <2> QED BY <2>1, <2>2
<1> QED BY <1>1, <1>2, <1>3, <1>4, <1>5, <1>6, <1>7, <1>8, <1>9, <1>10, <1>11, <1>12, <1>13,
   <1>14, <1>15, <1>16, <1>17, <1>18, <1>19, <1>20, <1>21, <1>22, <1>23, <1>24 DEF Next,
   StoreNext

-----------------------------------------------------------------------------
(***************************************************************************)
(* What the steps that write a file do.                                    *)
(***************************************************************************)
\* The protector has a key (Wrap).
LEMMA WrapFacts ==
  ASSUME IInv, Wrap
  PROVE  /\ pc = "wrap" /\ op \in {"create", "replace"} /\ prot \in Protectors
         /\ UNCHANGED <<file, dir, disk, writes, loaded, bad, before, confirmed>>
         /\ \/ pc' = "temp" /\ UNCHANGED <<op, prot, result, held>> /\ (prot \in Keyed => pkey'[prot] # 0)
            \/ /\ pc' = "open" /\ op' = "none" /\ held' = Nothing /\ UNCHANGED pkey
               /\ result' \in {"incomplete", "error"} /\ prot' = None
         /\ \A q \in Protectors : pkey[q] # 0 => pkey'[q] = pkey[q]
         /\ \A q \in Protectors : pkey'[q] # pkey[q] => q \in Keyed /\ q \in stray'
         /\ stray \subseteq stray'
<1> USE DEF IInv
<1>1. pc = "wrap" /\ op \in {"create", "replace"} /\ prot \in Protectors
  BY DEF Wrap, Placed, WriteSteps
<1>2. UNCHANGED <<file, dir, disk, writes, loaded, bad, before, confirmed>>
  BY DEF Wrap
<1>3. CASE pc' = "temp" /\ UNCHANGED <<op, prot, result, held>> /\ prot \in Keyed
           /\ pkey' = [pkey EXCEPT ![prot] = IF @ = 0 THEN writes + 1 ELSE @] /\ stray' = stray \cup {prot}
  <2>1. pkey \in [Protectors -> Nat] /\ writes \in Nat
    BY Parts DEF TypeOK
  <2>2. pkey'[prot] = (IF pkey[prot] = 0 THEN writes + 1 ELSE pkey[prot])
        /\ \A q \in Protectors \ {prot} : pkey'[q] = pkey[q]
    BY <1>1, <1>3, <2>1
  <2>3. pkey'[prot] # 0
    BY <1>1, <2>1, <2>2
  <2> QED BY <1>1, <1>2, <1>3, <2>2, <2>3
<1>4. CASE pc' = "temp" /\ UNCHANGED <<op, prot, result, held>> /\ prot \notin Keyed /\ UNCHANGED <<pkey, stray>>
  BY <1>1, <1>2, <1>4
<1>5. CASE Failed /\ UNCHANGED <<pkey, stray>>
  BY <1>1, <1>2, <1>5 DEF Failed, Return
<1> QED BY <1>3, <1>4, <1>5 DEF Wrap

\* A temporary file is made (WriteTemp).
LEMMA WriteTempFacts ==
  ASSUME IInv, WriteTemp
  PROVE  /\ pc = "temp" /\ op \in {"create", "save", "replace"} /\ prot \in Protectors
         /\ UNCHANGED <<pkey, loaded, bad, before, confirmed, stray>>
         /\ writes' = writes + 1 /\ writes + 1 \in File
         /\ \A f \in File \ {writes + 1} : file'[f] = file[f]
         /\ file'[writes + 1].data = "written" /\ file'[writes + 1].prot = prot
         /\ file'[writes + 1].key = IF op = "save" THEN loaded.key ELSE pkey[prot]
         /\ dir'.state = dir.state
         /\ \/ UNCHANGED <<dir, disk>>
            \/ disk' = disk \cup {dir'} /\ dir'.temps = dir.temps \cup {writes + 1}
         /\ \/ pc' = "sync" /\ UNCHANGED <<op, prot, result, held>> /\ writes + 1 \in dir'.temps
            \/ /\ pc' = "open" /\ op' = "none" /\ held' = Nothing
               /\ result' \in {"incomplete", "error"} /\ prot' = None
<1> USE DEF IInv
<1>1. pc = "temp" /\ op \in {"create", "save", "replace"} /\ prot \in Protectors
  BY DEF WriteTemp, Placed, WriteSteps
<1>2. UNCHANGED <<pkey, loaded, bad, before, confirmed, stray>> /\ writes' = writes + 1
  BY DEF WriteTemp
<1>3. writes + 1 \in File
  BY <1>1, Parts DEF Placed, File
<1>4. WrappedWith.prot = prot /\ WrappedWith.key = IF op = "save" THEN loaded.key ELSE pkey[prot]
  BY DEF WrappedWith, Written
<1>5. file \in Files /\ file' = [file EXCEPT ![writes + 1] =
                [data |-> "written", prot |-> WrappedWith.prot, key |-> WrappedWith.key]]
  BY DEF WriteTemp, TypeOK
<1>6. /\ \A f \in File \ {writes + 1} : file'[f] = file[f]
      /\ file'[writes + 1] = [data |-> "written", prot |-> WrappedWith.prot, key |-> WrappedWith.key]
  BY <1>3, <1>5 DEF Files
<1>7. /\ [dir EXCEPT !.temps = @ \cup {writes + 1}].state = dir.state
      /\ [dir EXCEPT !.temps = @ \cup {writes + 1}].temps = dir.temps \cup {writes + 1}
  BY Parts DEF Dirs
<1>8. \/ UNCHANGED <<dir, disk>> /\ Failed
      \/ /\ dir' = [dir EXCEPT !.temps = @ \cup {writes + 1}] /\ disk' = disk \cup {dir'}
         /\ Failed \/ (pc' = "sync" /\ UNCHANGED <<op, prot, result, held>>)
  BY DEF WriteTemp, Becomes
<1>9. Failed => /\ pc' = "open" /\ op' = "none" /\ held' = Nothing
                /\ result' \in {"incomplete", "error"} /\ prot' = None
  BY DEF Failed, Return
<1>10. /\ file'[writes + 1].data = "written" /\ file'[writes + 1].prot = prot
       /\ file'[writes + 1].key = IF op = "save" THEN loaded.key ELSE pkey[prot]
  BY <1>4, <1>6
<1>11. /\ dir'.state = dir.state
       /\ \/ UNCHANGED <<dir, disk>> /\ Failed
          \/ /\ disk' = disk \cup {dir'} /\ dir'.temps = dir.temps \cup {writes + 1}
             /\ Failed \/ (pc' = "sync" /\ UNCHANGED <<op, prot, result, held>>)
  BY <1>7, <1>8
<1> QED BY <1>1, <1>2, <1>3, <1>6, <1>9, <1>10, <1>11

\* Its name goes again, or stays (DropTemp).
LEMMA DropTempFacts ==
  ASSUME TypeOK, DropTemp
  PROVE  /\ dir'.state = dir.state /\ dir'.temps \subseteq dir.temps
         /\ disk' \subseteq disk \cup {dir'} /\ disk \subseteq disk'
<1>1. /\ [dir EXCEPT !.temps = @ \ {writes}].state = dir.state
      /\ [dir EXCEPT !.temps = @ \ {writes}].temps = dir.temps \ {writes}
  BY Parts DEF Dirs
<1> QED BY <1>1, Parts DEF DropTemp, Becomes

\* It is synced (SyncTemp).
LEMMA SyncTempFacts ==
  ASSUME IInv, SyncTemp
  PROVE  /\ pc = "sync" /\ op \in {"create", "save", "replace"} /\ prot \in Protectors
         /\ UNCHANGED <<pkey, writes, loaded, bad, before, confirmed, stray>>
         /\ \A f \in File \ {writes} : file'[f].data = file[f].data
         /\ \A f \in File : file'[f].prot = file[f].prot /\ file'[f].key = file[f].key
         /\ dir'.state = dir.state /\ dir'.temps \subseteq dir.temps
         /\ disk' \subseteq disk \cup {dir'}
         /\ \/ pc' = "rename" /\ UNCHANGED <<dir, disk, op, prot, result, held>> /\ file'[writes].data = "synced"
            \/ /\ pc' = "open" /\ op' = "none" /\ held' = Nothing /\ UNCHANGED file
               /\ result' \in {"incomplete", "error"} /\ prot' = None
<1> USE DEF IInv
<1>1. pc = "sync" /\ op \in {"create", "save", "replace"} /\ prot \in Protectors
  BY DEF SyncTemp, Placed, WriteSteps
<1>2. UNCHANGED <<pkey, writes, loaded, bad, before, confirmed, stray>>
  BY DEF SyncTemp
<1>3. writes \in File
  BY <1>1, Parts DEF Written
<1>4. CASE SetData({writes}, "synced") /\ pc' = "rename" /\ UNCHANGED <<dir, disk, op, prot, result, held>>
  BY <1>1, <1>2, <1>3, <1>4, SetDataFacts
<1>5. CASE Failed /\ DropTemp /\ UNCHANGED file
  BY <1>1, <1>2, <1>5, DropTempFacts DEF Failed, Return
<1> QED BY <1>4, <1>5 DEF SyncTemp

\* It takes the place of the old one (Rename).
LEMMA RenameFacts ==
  ASSUME IInv, Rename
  PROVE  /\ pc = "rename" /\ op \in {"create", "save", "replace"} /\ prot \in Protectors
         /\ UNCHANGED <<pkey, file, writes, loaded, bad, before, confirmed, stray>>
         /\ dir'.temps \subseteq dir.temps
         /\ disk' \subseteq disk \cup {dir'}
         /\ \/ /\ pc' = "flush" /\ UNCHANGED <<op, prot, result, held>>
               /\ dir'.state = writes /\ writes \notin dir'.temps
            \/ /\ pc' = "open" /\ op' = "none" /\ held' = Nothing /\ dir'.state = dir.state
               /\ result' \in {"incomplete", "error"} /\ prot' = None
<1> USE DEF IInv
<1>1. pc = "rename" /\ op \in {"create", "save", "replace"} /\ prot \in Protectors
  BY DEF Rename, Placed, WriteSteps
<1>2. UNCHANGED <<pkey, file, writes, loaded, bad, before, confirmed, stray>>
  BY DEF Rename
<1>4. CASE RenameReplace /\ pc' = "flush" /\ UNCHANGED <<op, prot, result, held>>
  <2>1. dir' = [state |-> writes, temps |-> dir.temps \ {writes}] /\ disk' = disk \cup {dir'}
    BY <1>4 DEF RenameReplace, Becomes
  <2> QED BY <1>1, <1>2, <1>4, <2>1
<1>5. CASE Failed /\ DropTemp
  BY <1>1, <1>2, <1>5, DropTempFacts DEF Failed, Return
<1> QED BY <1>4, <1>5 DEF Rename

\* The state file's name goes (Unlink).
LEMMA UnlinkFacts ==
  ASSUME TypeOK, Unlink
  PROVE  /\ UNCHANGED <<pkey, file, writes, op, prot, loaded, held, history>>
         /\ pc = "unlink" /\ pc' = "temps" /\ dir'.temps = dir.temps /\ disk' \subseteq disk \cup {dir'}
         /\ \/ dir'.state = Nothing /\ UNCHANGED bad
            \/ bad' = TRUE /\ UNCHANGED <<dir, disk>>
<1>1. [dir EXCEPT !.state = Nothing].state = Nothing /\ [dir EXCEPT !.state = Nothing].temps = dir.temps
  BY Parts DEF Dirs
<1> QED BY <1>1 DEF Unlink, Becomes

\* The file that Rename puts in place opens.
LEMMA RenameKeepsSaved ==
  ASSUME IInv, Rename, TypeOK'
  PROVE  SavedSurvives'
<1> USE DEF IInv
<1> SUFFICES ASSUME confirmed # Nothing, NEW d \in disk \cup {dir'}
             PROVE  d.state >= confirmed /\ OpensAfterLoss(d.state)'
  BY RenameFacts DEF SavedSurvives, Possible, TypeOK
<1>1. \A f \in File : OpensAfterLoss(f) => OpensAfterLoss(f)'
  BY RenameFacts DEF OpensAfterLoss, Opens, Header
<1>2. \A e \in disk : e.state \in File /\ e.state >= confirmed /\ OpensAfterLoss(e.state)
  BY Parts DEF SavedSurvives, Possible, OpensAfterLoss, Opens, Header
<1>3. CASE d.state = dir.state \/ d \in disk
  BY <1>1, <1>2, <1>3, Parts
<1>4. CASE d = dir' /\ dir'.state = writes
  <2>1. writes \in File /\ file[writes].data = "synced" /\ file[writes].prot = prot
        /\ (prot \in Keyed => file[writes].key = pkey[prot])
    BY RenameFacts, Parts DEF Written
  <2>2. writes >= confirmed
    BY <1>2, Parts DEF Named, TypeOK
  <2>3. OpensAfterLoss(writes)
    BY <2>1, Parts DEF OpensAfterLoss, Opens, Header
  <2> QED BY <1>1, <1>4, <2>1, <2>2, <2>3
<1> QED BY <1>3, <1>4, RenameFacts

\* "Replaced" is said when the old file was overwritten.
LEMMA OverwriteKeepsSays ==
  ASSUME IInv, Overwrite, TypeOK'
  PROVE  ReplaceSays'
<1> USE DEF IInv
<1>1. /\ pc = "over" /\ held \in File /\ held = before.state /\ held # writes /\ writes \in File
      /\ dir.state = writes /\ confirmed = writes /\ pc' = "open" /\ held' = Nothing
      /\ UNCHANGED <<pkey, dir, disk, writes, loaded, before, confirmed>>
  BY Parts DEF Overwrite, Held, Written, Return, TypeOK
<1>2. /\ \A f \in File \ {held} : file'[f].data = file[f].data
      /\ \A f \in File : file'[f].prot = file[f].prot /\ file'[f].key = file[f].key
      /\ result' = "replaced" => file'[held].data = "zero"
      /\ result' \in {"replaced", "partly"}
  BY <1>1, SetDataFacts DEF Overwrite, Return
<1>3. Opens(writes) /\ Opens(writes)'
  BY <1>1, <1>2 DEF Written, Opens, Header
<1>4. loaded = Under(writes) /\ Under(writes)' = Under(writes)
  BY <1>1, <1>2 DEF Under, Written
<1> QED BY <1>1, <1>2, <1>3, <1>4 DEF ReplaceSays, Header

\* A directory without a state file names none.
LEMMA UnlinkKeepsNamed ==
  ASSUME IInv, Unlink, TypeOK'
  PROVE  Named'
<1> USE DEF IInv
<1> SUFFICES ASSUME NEW d \in disk \cup {dir'}
             PROVE  /\ d.state <= writes /\ \A t \in d.temps : t <= writes
                    /\ d.state \notin d.temps /\ d.state \notin dir.temps
                    /\ d.state # Nothing => file[d.state].data \in {"synced", "zero"}
  BY UnlinkFacts DEF Named
<1>1. CASE d \in disk
  BY <1>1 DEF Named
<1>2. CASE d.state = Nothing /\ d.temps = dir.temps
  BY <1>2, Parts DEF Named
<1> QED BY <1>1, <1>2, UnlinkFacts, Parts

\* A wipe in which nothing failed ends with the empty directory on the disk.
LEMMA SyncDirKeepsGone ==
  ASSUME IInv, SyncDir, TypeOK'
  PROVE  WipedIsGone'
<1> USE DEF IInv
<1>1. /\ pc = "syncdir" /\ UNCHANGED <<pkey, stray>> /\ loaded' = NotLoaded
      /\ \A p \in Protectors \ stray : pkey[p] = 0
  BY DEF SyncDir, Forget, LeftKeysKnown, WipeSteps
<1>2. CASE result' = "notwiped"
  BY <1>2 DEF WipedIsGone
<1>3. CASE ~bad /\ disk' = {dir} /\ dir' = dir /\ result' = IF op = "wipe" THEN "wiped" ELSE "allwiped"
  <2>1. dir = Empty
    BY <1>1, <1>3, Parts DEF WipedSoFar, Dirs, Empty
  <2>2. Possible' = {Empty}
    BY <1>3, <2>1 DEF Possible
  <2>3. result' = "allwiped" => \A p \in Protectors : pkey[p] = 0
    BY <1>1, <1>3 DEF WipedSoFar, WipeSteps, Placed
  <2> QED BY <1>1, <1>3, <2>2, <2>3 DEF WipedIsGone
<1> QED BY <1>1, <1>2, <1>3 DEF SyncDir, Synced, Return

-----------------------------------------------------------------------------
(***************************************************************************)
(* Each step keeps the invariant.                                          *)
(***************************************************************************)
USE DEF Header, Opens, Under, OpensAfterLoss, Possible, OldSteps, WriteSteps, WipeSteps, NotLoaded, Empty

\* Temporary files are no directory's state, so deleting them takes no state away.
LEMMA OpenKeeps ==
  ASSUME IInv, TypeOK', Open
  PROVE  IInv'
<1> USE RemoveTempsFacts DEF IInv, Open, Fault, history
<1>1. Placed' /\ Keys' /\ Written' /\ Held' /\ LeftKeysKnown' /\ WipedSoFar'
  BY DEF Placed, Keys, Written, Held, LeftKeysKnown, WipedSoFar
<1>2. Named'
  BY Parts DEF Named
<1>3. Loaded'
  BY DEF Loaded, Placed
<1>4. SavedSurvives'
  BY Parts DEF SavedSurvives, Named
<1>5. ReplaceSays'
  BY DEF ReplaceSays, Placed
<1>6. WipedIsGone'
  BY DEF WipedIsGone, Placed
<1>7. WipeFindsTheKey'
  BY Parts DEF WipeFindsTheKey, Named
<1> QED BY <1>1, <1>2, <1>3, <1>4, <1>5, <1>6, <1>7

\* The data key is forgotten.
LEMMA CloseStoreKeeps ==
  ASSUME IInv, TypeOK', CloseStore
  PROVE  IInv'
<1> USE DEF IInv, CloseStore, Ends, disks
<1>1. /\ Placed' /\ Named' /\ Keys' /\ Loaded' /\ Written' /\ Held' /\ LeftKeysKnown'
      /\ WipedSoFar' /\ SavedSurvives' /\ ReplaceSays' /\ WipedIsGone'
      /\ WipeFindsTheKey'
  BY DEF Placed, Named, Keys, Loaded, Written, Held, LeftKeysKnown, WipedSoFar,
     SavedSurvives, ReplaceSays, WipedIsGone, WipeFindsTheKey
<1> QED BY <1>1

\* The data key is that of the file in place.
LEMMA LoadKeeps ==
  ASSUME IInv, TypeOK', Load
  PROVE  IInv'
<1> USE DEF IInv, Load, disks, history
<1>1. /\ Placed' /\ Named' /\ Keys' /\ Loaded' /\ Held' /\ LeftKeysKnown' /\ WipedSoFar'
      /\ SavedSurvives' /\ ReplaceSays' /\ WipedIsGone' /\ WipeFindsTheKey'
  BY DEF Placed, Named, Keys, Loaded, Held, LeftKeysKnown, WipedSoFar, SavedSurvives,
     ReplaceSays, WipedIsGone, WipeFindsTheKey
<1>2. Written'
  BY DEF Written, Placed
<1> QED BY <1>1, <1>2

\* Where there is no file the caller knows of every key.
LEMMA CreateKeeps ==
  ASSUME IInv, TypeOK', Create
  PROVE  IInv'
<1> USE DEF IInv, Create, Begin, disks
<1>1. /\ Placed' /\ Named' /\ Keys' /\ Loaded' /\ WipedSoFar' /\ SavedSurvives'
      /\ ReplaceSays' /\ WipedIsGone' /\ WipeFindsTheKey'
  BY DEF Placed, Named, Keys, Loaded, WipedSoFar, SavedSurvives, ReplaceSays,
     WipedIsGone, WipeFindsTheKey
<1>2. Written'
  BY DEF Written, Loaded
<1>3. Held'
  BY Parts DEF Held, Placed
<1>4. LeftKeysKnown'
  BY DEF LeftKeysKnown, WipeFindsTheKey
<1> QED BY <1>1, <1>2, <1>3, <1>4

\* The new file will be under the key of the file in place.
LEMMA SaveKeeps ==
  ASSUME IInv, TypeOK', Save
  PROVE  IInv'
<1> USE DEF IInv, Save, Begin, disks
<1>1. /\ Named' /\ Keys' /\ Loaded' /\ LeftKeysKnown' /\ WipedSoFar' /\ SavedSurvives'
      /\ ReplaceSays' /\ WipedIsGone' /\ WipeFindsTheKey'
  BY DEF Named, Keys, Loaded, LeftKeysKnown, WipedSoFar, SavedSurvives, ReplaceSays,
     WipedIsGone, WipeFindsTheKey
<1>2. Placed'
  BY Parts DEF Placed, Keys, Loaded
<1>3. Written'
  BY Parts DEF Written, Keys, Loaded
<1>4. Held'
  BY Parts DEF Held, Placed, Named
<1> QED BY <1>1, <1>2, <1>3, <1>4

\* The old file is in place, and it is known whether it opens.
LEMMA CreateReplaceKeeps ==
  ASSUME IInv, TypeOK', CreateReplace
  PROVE  IInv'
<1> USE DEF IInv, CreateReplace, OldProtector, Begin, disks, Resolved
<1>1. /\ Placed' /\ Named' /\ Keys' /\ Loaded' /\ Written' /\ LeftKeysKnown'
      /\ WipedSoFar' /\ SavedSurvives' /\ ReplaceSays' /\ WipedIsGone'
      /\ WipeFindsTheKey'
  BY DEF Placed, Named, Keys, Loaded, Written, LeftKeysKnown, WipedSoFar, SavedSurvives,
     ReplaceSays, WipedIsGone, WipeFindsTheKey
<1>2. Held'
  BY Parts DEF Held, Placed, Named
<1> QED BY <1>1, <1>2

\* After the old key no key is left that the caller does not know of.
LEMMA OldKeyWipedKeeps ==
  ASSUME IInv, TypeOK', OldKeyWiped
  PROVE  IInv'
<1> USE DEF IInv, OldKeyWiped, OldProtector, KeyDeleted, Forget, Fault, Return, Resolved
<1>1. /\ Named' /\ Keys' /\ Loaded' /\ WipedSoFar' /\ SavedSurvives' /\ WipedIsGone'
      /\ WipeFindsTheKey'
  BY DEF Named, Keys, Loaded, WipedSoFar, SavedSurvives, WipedIsGone, WipeFindsTheKey
<1>2. Placed'
  BY DEF Placed, Held
<1>3. Written'
  BY DEF Written, Placed
<1>4. Held'
  BY DEF Held, Placed, Loaded
<1>5. LeftKeysKnown'
  BY DEF LeftKeysKnown, Loaded, WipeFindsTheKey
<1>6. ReplaceSays'
  BY DEF ReplaceSays, Placed, Held
<1> QED BY <1>1, <1>2, <1>3, <1>4, <1>5, <1>6

\* What was confirmed is destroyed here, on purpose.
LEMMA OverwriteFirstKeeps ==
  ASSUME IInv, TypeOK', OverwriteFirst
  PROVE  IInv'
<1> USE SetDataFacts DEF IInv, OverwriteFirst, Fault, Return
<1>1. /\ Placed' /\ Keys' /\ Written' /\ LeftKeysKnown' /\ WipedSoFar' /\ SavedSurvives'
      /\ WipedIsGone'
  BY DEF Placed, Keys, Written, LeftKeysKnown, WipedSoFar, SavedSurvives, WipedIsGone
<1>2. Named'
  BY Parts DEF Named
<1>3. Loaded'
  BY DEF Loaded, Placed, Written
<1>4. Held'
  BY Parts DEF Held
<1>5. ReplaceSays'
  BY DEF ReplaceSays, Placed, Held
<1>6. WipeFindsTheKey'
  BY DEF WipeFindsTheKey, LeftKeysKnown
<1> QED BY <1>1, <1>2, <1>3, <1>4, <1>5, <1>6

\* Files that open still do, since a key is made only where there was none.
LEMMA WrapKeeps ==
  ASSUME IInv, TypeOK', Wrap
  PROVE  IInv'
<1> USE WrapFacts DEF IInv
<1>1. /\ Placed' /\ Named' /\ Keys' /\ Written' /\ Held' /\ LeftKeysKnown'
      /\ WipedSoFar' /\ WipeFindsTheKey'
  BY DEF Placed, Named, Keys, Written, Held, LeftKeysKnown, WipedSoFar, WipeFindsTheKey
<1>2. Loaded'
  BY Parts DEF Loaded, Keys
<1>3. SavedSurvives'
  BY Parts DEF SavedSurvives, Keys
<1>4. ReplaceSays'
  BY DEF ReplaceSays, Placed, Held
<1>5. WipedIsGone'
  BY DEF WipedIsGone, Placed
<1> QED BY <1>1, <1>2, <1>3, <1>4, <1>5

\* The new file is no directory's state.
LEMMA WriteTempKeeps ==
  ASSUME IInv, TypeOK', WriteTemp
  PROVE  IInv'
<1> USE WriteTempFacts DEF IInv
<1>1. Placed' /\ LeftKeysKnown' /\ WipedSoFar'
  BY DEF Placed, LeftKeysKnown, WipedSoFar
<1>2. Named'
  BY Parts DEF Named
<1>3. Keys'
  BY DEF Keys, Written, Loaded
<1>4. Loaded'
  BY Parts DEF Loaded, Named
<1>5. Written'
  BY Parts DEF Written, Named, Loaded
<1>6. Held'
  BY Parts DEF Held
<1>7. SavedSurvives'
  BY Parts DEF SavedSurvives, Named
<1>8. ReplaceSays'
  BY DEF ReplaceSays, Placed, Held
<1>9. WipedIsGone'
  BY DEF WipedIsGone, Placed
<1>10. WipeFindsTheKey'
  BY Parts DEF WipeFindsTheKey, Named
<1> QED BY <1>1, <1>2, <1>3, <1>4, <1>5, <1>6, <1>7, <1>8, <1>9, <1>10

\* The new file is synced while no directory names it as the state.
LEMMA SyncTempKeeps ==
  ASSUME IInv, TypeOK', SyncTemp
  PROVE  IInv'
<1> USE SyncTempFacts DEF IInv
<1>1. Placed' /\ LeftKeysKnown' /\ WipedSoFar' /\ WipedIsGone'
  BY DEF Placed, LeftKeysKnown, WipedSoFar, WipedIsGone
<1>2. Named'
  BY Parts DEF Named
<1>3. Keys'
  BY DEF Keys, Written
<1>4. Loaded'
  BY Parts DEF Loaded
<1>5. Written'
  BY Parts DEF Written
<1>6. Held'
  BY Parts DEF Held, Written
<1>7. SavedSurvives'
  BY Parts DEF SavedSurvives
<1>8. ReplaceSays'
  BY Parts DEF ReplaceSays, Held
<1>9. WipeFindsTheKey'
  BY Parts DEF WipeFindsTheKey
<1> QED BY <1>1, <1>2, <1>3, <1>4, <1>5, <1>6, <1>7, <1>8, <1>9

\* The directory may now name the new file, which is synced and opens.
LEMMA RenameKeeps ==
  ASSUME IInv, TypeOK', Rename
  PROVE  IInv'
<1> USE RenameFacts DEF IInv
<1>1. Placed' /\ Keys' /\ Written' /\ LeftKeysKnown' /\ WipedSoFar'
  BY DEF Placed, Keys, Written, LeftKeysKnown, WipedSoFar
<1>2. Named'
  BY Parts DEF Named, Written
<1>3. Loaded'
  BY DEF Loaded, Written
<1>4. Held'
  BY Parts DEF Held, Written
<1>5. ReplaceSays'
  BY DEF ReplaceSays, Placed, Held
<1>6. WipedIsGone'
  BY DEF WipedIsGone, Placed
<1>7. WipeFindsTheKey'
  BY DEF WipeFindsTheKey, Loaded, Written, LeftKeysKnown
<1>8. SavedSurvives'
  BY RenameKeepsSaved
<1> QED BY <1>1, <1>2, <1>3, <1>4, <1>5, <1>6, <1>7, <1>8

\* Only the new directory is left, or both are.
LEMMA FlushKeeps ==
  ASSUME IInv, TypeOK', Flush
  PROVE  IInv'
<1> USE DEF IInv, Flush, Flushed, Fault, Retries, RetryLater, NotDurable, Synced, Return
<1>1. Keys' /\ Written' /\ Held' /\ LeftKeysKnown' /\ WipedSoFar'
  BY DEF Keys, Written, Held, LeftKeysKnown, WipedSoFar
<1>2. Placed'
  BY DEF Placed, Held
<1>3. Named'
  BY Parts DEF Named
<1>4. Loaded'
  BY DEF Loaded, Written
<1>5. SavedSurvives'
  BY Parts DEF SavedSurvives, Written
<1>6. ReplaceSays'
  BY DEF ReplaceSays, Held, Written
<1>7. WipedIsGone'
  BY DEF WipedIsGone, Placed
<1>8. WipeFindsTheKey'
  BY DEF WipeFindsTheKey, Written
<1> QED BY <1>1, <1>2, <1>3, <1>4, <1>5, <1>6, <1>7, <1>8

\* As in Flush, for the old file that is held.
LEMMA ReflushKeeps ==
  ASSUME IInv, TypeOK', Reflush
  PROVE  IInv'
<1> USE DEF IInv, Reflush, Flushed, Fault, NotDurable, Synced, Return
<1>1. Placed' /\ Keys' /\ Written' /\ Held' /\ LeftKeysKnown' /\ WipedSoFar'
  BY DEF Placed, Keys, Written, Held, LeftKeysKnown, WipedSoFar
<1>2. Named'
  BY Parts DEF Named
<1>3. Loaded'
  BY DEF Loaded, Written
<1>4. SavedSurvives'
  BY Parts DEF SavedSurvives, Written
<1>5. ReplaceSays'
  BY DEF ReplaceSays, Held, Written
<1>6. WipedIsGone'
  BY DEF WipedIsGone, Placed
<1>7. WipeFindsTheKey'
  BY DEF WipeFindsTheKey, Written
<1> QED BY <1>1, <1>2, <1>3, <1>4, <1>5, <1>6, <1>7

\* The old file is not the one in place, and no directory names it.
LEMMA OverwriteKeeps ==
  ASSUME IInv, TypeOK', Overwrite
  PROVE  IInv'
<1> USE SetDataFacts DEF IInv, Overwrite, Return, Fault
<1>1. Placed' /\ Keys' /\ Written' /\ Held' /\ LeftKeysKnown' /\ WipedSoFar' /\ WipedIsGone'
  BY DEF Placed, Keys, Written, Held, LeftKeysKnown, WipedSoFar, WipedIsGone
<1>2. Named'
  BY Parts DEF Named
<1>3. Loaded'
  BY Parts DEF Loaded, Written, Held
<1>4. SavedSurvives'
  BY Parts DEF SavedSurvives, Written, Held
<1>5. WipeFindsTheKey'
  BY Parts DEF WipeFindsTheKey, Written, Held, SavedSurvives
<1>6. ReplaceSays'
  BY OverwriteKeepsSays
<1> QED BY <1>1, <1>2, <1>3, <1>4, <1>5, <1>6

\* The protector is that of the file in place, or unknown.
LEMMA WipeKeeps ==
  ASSUME IInv, TypeOK', Wipe
  PROVE  IInv'
<1> USE DEF IInv, Wipe, OldProtector, Begin, disks, Resolved
<1>1. /\ Placed' /\ Named' /\ Keys' /\ Loaded' /\ Written' /\ WipedSoFar'
      /\ SavedSurvives' /\ ReplaceSays' /\ WipedIsGone' /\ WipeFindsTheKey'
  BY DEF Placed, Named, Keys, Loaded, Written, WipedSoFar, SavedSurvives, ReplaceSays,
     WipedIsGone, WipeFindsTheKey
<1>2. Held'
  BY Parts DEF Held, Placed, Named
<1>3. LeftKeysKnown'
  BY DEF LeftKeysKnown, Loaded
<1> QED BY <1>1, <1>2, <1>3

\* No protector is named.
LEMMA WipeAllKeeps ==
  ASSUME IInv, TypeOK', WipeAll
  PROVE  IInv'
<1> USE DEF IInv, WipeAll, Begin, disks
<1>1. /\ Placed' /\ Named' /\ Keys' /\ Loaded' /\ Written' /\ LeftKeysKnown'
      /\ WipedSoFar' /\ SavedSurvives' /\ ReplaceSays' /\ WipedIsGone'
      /\ WipeFindsTheKey'
  BY DEF Placed, Named, Keys, Loaded, Written, LeftKeysKnown, WipedSoFar, SavedSurvives,
     ReplaceSays, WipedIsGone, WipeFindsTheKey
<1>2. Held'
  BY Parts DEF Held, Placed, Named
<1> QED BY <1>1, <1>2

\* Every key that is left is one the caller knows of.
LEMMA KeyWipedKeeps ==
  ASSUME IInv, TypeOK', KeyWiped
  PROVE  IInv'
<1> USE DEF IInv, KeyWiped, KeyDeleted, ToFiles, Fault, KeepsFile, Return
<1>1. /\ Placed' /\ Named' /\ Keys' /\ Loaded' /\ Written' /\ Held' /\ WipedSoFar'
      /\ SavedSurvives'
  BY DEF Placed, Named, Keys, Loaded, Written, Held, WipedSoFar, SavedSurvives
<1>2. LeftKeysKnown'
  BY DEF LeftKeysKnown, Keys, WipeFindsTheKey
<1>3. ReplaceSays'
  BY DEF ReplaceSays, Placed
<1>4. WipedIsGone'
  BY DEF WipedIsGone, Placed
<1>5. WipeFindsTheKey'
  BY DEF WipeFindsTheKey, Keys
<1> QED BY <1>1, <1>2, <1>3, <1>4, <1>5

\* The keys went before the file.
LEMMA ZeroFileKeeps ==
  ASSUME IInv, TypeOK', ZeroFile
  PROVE  IInv'
<1> USE SetDataFacts DEF IInv, ZeroFile, Fault, history
<1>1. /\ Placed' /\ Keys' /\ Loaded' /\ Written' /\ Held' /\ LeftKeysKnown'
      /\ WipedSoFar' /\ WipedIsGone'
  BY DEF Placed, Keys, Loaded, Written, Held, LeftKeysKnown, WipedSoFar, WipedIsGone
<1>2. Named'
  BY Parts DEF Named
<1>3. SavedSurvives'
  BY DEF SavedSurvives, WipedSoFar
<1>4. ReplaceSays'
  BY DEF ReplaceSays, Placed
<1>5. WipeFindsTheKey'
  BY DEF WipeFindsTheKey, LeftKeysKnown
<1> QED BY <1>1, <1>2, <1>3, <1>4, <1>5

\* The state file's name goes, or the wipe is known to be bad.
LEMMA UnlinkKeeps ==
  ASSUME IInv, TypeOK', Unlink
  PROVE  IInv'
<1> USE UnlinkFacts DEF IInv, history
<1>1. Placed' /\ Keys' /\ Loaded' /\ Written' /\ Held' /\ LeftKeysKnown' /\ WipedSoFar'
  BY DEF Placed, Keys, Loaded, Written, Held, LeftKeysKnown, WipedSoFar
<1>2. SavedSurvives'
  BY DEF SavedSurvives, WipedSoFar
<1>3. ReplaceSays'
  BY DEF ReplaceSays, Placed
<1>4. WipedIsGone'
  BY DEF WipedIsGone, Placed
<1>5. WipeFindsTheKey'
  BY DEF WipeFindsTheKey, LeftKeysKnown
<1>6. Named'
  BY UnlinkKeepsNamed
<1> QED BY <1>1, <1>2, <1>3, <1>4, <1>5, <1>6

\* The temporary files go, or the wipe is known to be bad.
LEMMA WipeTempsKeeps ==
  ASSUME IInv, TypeOK', WipeTemps
  PROVE  IInv'
<1> USE RemoveTempsFacts DEF IInv, WipeTemps, Fault, history
<1>1. Placed' /\ Keys' /\ Loaded' /\ Written' /\ Held' /\ LeftKeysKnown' /\ WipedSoFar'
  BY DEF Placed, Keys, Loaded, Written, Held, LeftKeysKnown, WipedSoFar
<1>2. Named'
  BY Parts DEF Named
<1>3. SavedSurvives'
  BY Parts DEF SavedSurvives, Named
<1>4. ReplaceSays'
  BY DEF ReplaceSays, Placed
<1>5. WipedIsGone'
  BY DEF WipedIsGone, Placed
<1>6. WipeFindsTheKey'
  BY Parts DEF WipeFindsTheKey, Named
<1> QED BY <1>1, <1>2, <1>3, <1>4, <1>5, <1>6

\* A wipe in which nothing failed leaves the empty directory only.
LEMMA SyncDirKeeps ==
  ASSUME IInv, TypeOK', SyncDir
  PROVE  IInv'
<1> USE DEF IInv, SyncDir, Forget, Synced, Return, Fault
<1>1. /\ Placed' /\ Keys' /\ Loaded' /\ Written' /\ LeftKeysKnown' /\ WipedSoFar'
      /\ SavedSurvives' /\ ReplaceSays' /\ WipeFindsTheKey'
  BY DEF Placed, Keys, Loaded, Written, LeftKeysKnown, WipedSoFar, SavedSurvives,
     ReplaceSays, WipeFindsTheKey
<1>2. Named'
  BY Parts DEF Named
<1>3. Held'
  BY DEF Held, Placed
<1>4. WipedIsGone'
  BY SyncDirKeepsGone
<1> QED BY <1>1, <1>2, <1>3, <1>4

\* A crash leaves the disk as it is.
LEMMA CrashKeeps ==
  ASSUME IInv, TypeOK', Crash
  PROVE  IInv'
<1> USE DEF IInv, Crash, Fault, Ends, disks
<1>1. /\ Placed' /\ Named' /\ Keys' /\ Loaded' /\ Written' /\ Held' /\ LeftKeysKnown'
      /\ WipedSoFar' /\ SavedSurvives' /\ ReplaceSays' /\ WipedIsGone'
      /\ WipeFindsTheKey'
  BY DEF Placed, Named, Keys, Loaded, Written, Held, LeftKeysKnown, WipedSoFar,
     SavedSurvives, ReplaceSays, WipedIsGone, WipeFindsTheKey
<1> QED BY <1>1

\* A power loss leaves one of the directories that were possible, and no synced file changes.
LEMMA PowerLossKeeps ==
  ASSUME IInv, TypeOK', PowerLoss
  PROVE  IInv'
<1> USE SetDataFacts DEF IInv, PowerLoss, Fault, Ends
<1>1. /\ Placed' /\ Keys' /\ Loaded' /\ Written' /\ Held' /\ LeftKeysKnown'
      /\ WipedSoFar' /\ ReplaceSays' /\ WipedIsGone'
  BY DEF Placed, Keys, Loaded, Written, Held, LeftKeysKnown, WipedSoFar, ReplaceSays,
     WipedIsGone
<1>2. Named'
  BY Parts DEF Named
<1>3. SavedSurvives'
  BY Parts DEF SavedSurvives
<1>4. WipeFindsTheKey'
  BY Parts DEF WipeFindsTheKey, Named
<1> QED BY <1>1, <1>2, <1>3, <1>4

-----------------------------------------------------------------------------
(***************************************************************************)
(* The invariant holds.                                                    *)
(***************************************************************************)

LEMMA InitKeeps == Init => IInv
<1> SUFFICES ASSUME Init PROVE IInv
  OBVIOUS
<1> USE DEF Init
<1>1. TypeOK
  <2>1. file \in Files /\ pkey \in [Protectors -> Nat] /\ before \in Before
    BY DEF Files, Before
  <2>2. Empty \in Dirs
    BY DirOf DEF Empty
  <2>3. dir \in disk /\ disk \in SUBSET Dirs /\ 0 \in 0..MaxWrites /\ loaded \in Wrapped
    BY <2>2, NotLoadedType
  <2>4. pc \in StorePcs /\ op \in Ops /\ result \in Results
    BY DEF StorePcs, Ops, Results
  <2> QED BY <2>1, <2>3, <2>4 DEF TypeOK
<1>2. Placed /\ Named /\ Keys /\ Loaded
  BY DEF Placed, Named, Keys, Loaded
<1>3. Written /\ Held /\ LeftKeysKnown /\ WipedSoFar
  BY DEF Written, Held, LeftKeysKnown, WipedSoFar
<1>4. SavedSurvives /\ ReplaceSays /\ WipedIsGone /\ WipeFindsTheKey
  BY DEF SavedSurvives, ReplaceSays, WipedIsGone, WipeFindsTheKey
<1> QED BY <1>1, <1>2, <1>3, <1>4 DEF IInv

\* A step of the Store, a crash or a power loss keeps the invariant, whoever makes it.
LEMMA StepKeeps ==
  ASSUME IInv, [Next]_vars
  PROVE  IInv'
<1>1. CASE Next
  <2>1. TypeOK'
    BY <1>1, TypesStep DEF IInv
  <2> QED
    BY <1>1, <2>1, OpenKeeps, CloseStoreKeeps, LoadKeeps, CreateKeeps, SaveKeeps,
       CreateReplaceKeeps, OldKeyWipedKeeps, OverwriteFirstKeeps, WrapKeeps,
       WriteTempKeeps, SyncTempKeeps, RenameKeeps, FlushKeeps, ReflushKeeps,
       OverwriteKeeps, WipeKeeps, WipeAllKeeps, KeyWipedKeeps, ZeroFileKeeps,
       UnlinkKeeps, WipeTempsKeeps, SyncDirKeeps, CrashKeeps, PowerLossKeeps DEF Next,
       StoreNext
<1>2. CASE UNCHANGED vars
  <2> USE <1>2 DEF vars, disks, store, history
  <2>1. TypeOK' /\ Placed' /\ Named' /\ Keys' /\ Loaded' /\ Written'
    BY DEF IInv, TypeOK, Placed, Named, Keys, Loaded, Written
  <2>2. Held' /\ LeftKeysKnown' /\ WipedSoFar'
    BY DEF IInv, Held, LeftKeysKnown, WipedSoFar
  <2>3. SavedSurvives' /\ ReplaceSays' /\ WipedIsGone' /\ WipeFindsTheKey'
    BY DEF IInv, SavedSurvives, ReplaceSays, WipedIsGone, WipeFindsTheKey
  <2> QED BY <2>1, <2>2, <2>3 DEF IInv
<1> QED BY <1>1, <1>2

(* The inductive invariant holds of every run of the Store: any crashes,   *)
(* power losses and steps that fail, on both file systems.                 *)
THEOREM Invariance == Spec => []IInv
BY InitKeeps, StepKeeps, PTL DEF Spec

(* What was reported as durably written is found again, and opens, after   *)
(* any crash and any power loss (writeAtomic, CreateReplace).              *)
THEOREM SavesSurvive == Spec => []SavedSurvives
<1>1. IInv => SavedSurvives
  BY DEF IInv
<1> QED BY <1>1, Invariance, PTL

(* Save, Create and CreateReplace return what is so (CreateReplace's list  *)
(* of errors).                                                             *)
THEOREM AnswersAreSo == Spec => []ReplaceSays
<1>1. IInv => ReplaceSays
  BY DEF IInv
<1> QED BY <1>1, Invariance, PTL

(* A wipe without an error left no file in any directory that a power loss *)
(* may bring back, and no key it could know of (Wipe, WipeAll).            *)
THEOREM WipesAreFinal == Spec => []WipedIsGone
<1>1. IInv => WipedIsGone
  BY DEF IInv
<1> QED BY <1>1, Invariance, PTL

(* While a key exists, the file that leads to it exists too (Wipe: the key *)
(* goes first, so that a retry finds the protector again).                 *)
THEOREM KeysAreFound == Spec => []WipeFindsTheKey
<1>1. IInv => WipeFindsTheKey
  BY DEF IInv
<1> QED BY <1>1, Invariance, PTL
-----------------------------------------------------------------------------
(***************************************************************************)
(* The refinement: the state file is what DurableState promises.           *)
(***************************************************************************)

(* A key that is made is one that no file was written under, so that a     *)
(* file whose key was deleted opens never again.                           *)
KeysAreNew ==
  /\ \A p \in Protectors : pkey[p] <= writes + 1
  /\ \A f \in File : file[f].key <= writes

LEMMA KeysNewStep ==
  ASSUME IInv, KeysAreNew, Next
  PROVE  KeysAreNew'
<1> USE DEF IInv, KeysAreNew
<1>t. /\ writes \in Nat /\ \A p \in Protectors : pkey[p] \in Nat
      /\ \A f \in File : file[f].key \in Nat
  BY Parts DEF TypeOK, Files
<1>1. CASE \/ UNCHANGED disks
           \/ UNCHANGED <<pkey, file, writes>>
  BY <1>1 DEF disks
<1>2. CASE /\ UNCHANGED writes
           /\ \A p \in Protectors : pkey'[p] \in {pkey[p], 0, writes + 1}
           /\ \A f \in File : file'[f].key = file[f].key
  BY <1>t, <1>2
<1>3. ASSUME NEW F, NEW d \in {"none", "written", "synced", "zero", "lost"}, SetData(F, d),
             UNCHANGED <<pkey, writes>>
      PROVE  KeysAreNew'
  BY <1>3, SetDataFacts
<1>4. CASE Open
  BY <1>3, <1>4 DEF Open, RemoveTemps, history
<1>5. CASE CloseStore \/ Load \/ Create \/ Save \/ CreateReplace \/ Wipe \/ WipeAll \/ Crash
  BY <1>1, <1>5 DEF CloseStore, Load, Create, Save, CreateReplace, Wipe, WipeAll, Crash
<1>6. CASE OldKeyWiped
  BY <1>2, <1>6, <1>t DEF OldKeyWiped, KeyDeleted
<1>7. CASE OverwriteFirst \/ Overwrite
  BY <1>1, <1>3, <1>7 DEF OverwriteFirst, Overwrite
<1>8. CASE Wrap
  <2>1. \A q \in Protectors : pkey'[q] \in {pkey[q], writes + 1}
    BY <1>8 DEF Wrap, TypeOK
  <2> QED BY <1>2, <1>8, <2>1 DEF Wrap
<1>9. CASE WriteTemp
  <2>1. (IF op = "save" THEN loaded.key ELSE pkey[prot]) <= writes + 1
    <3>1. CASE op = "save"
      <4>1. dir.state \in File /\ loaded.key = file[dir.state].key
        BY <1>9, <3>1, WriteTempFacts, Parts DEF Written, Loaded
      <4> QED BY <1>t, <3>1, <4>1
    <3> QED BY <1>9, <3>1, WriteTempFacts
  <2>2. /\ UNCHANGED pkey /\ writes' = writes + 1
        /\ \A f \in File \ {writes + 1} : file'[f].key = file[f].key
        /\ file'[writes + 1].key <= writes + 1
    BY <1>9, <2>1, WriteTempFacts
  <2>3. ASSUME NEW f \in File PROVE file'[f].key <= writes + 1
    BY <1>t, <2>2
  <2>4. ASSUME NEW p \in Protectors PROVE pkey'[p] <= writes + 2
    BY <1>t, <2>2
  <2> QED BY <1>t, <2>2, <2>3, <2>4
<1>10. CASE SyncTemp
  BY <1>1, <1>3, <1>10 DEF SyncTemp
<1>11. CASE Rename \/ Flush \/ Reflush \/ Unlink \/ SyncDir
  BY <1>1, <1>11 DEF Rename, Flush, Reflush, Unlink, SyncDir
<1>12. CASE KeyWiped
  BY <1>2, <1>12, <1>t DEF KeyWiped, KeyDeleted
<1>13. CASE ZeroFile
  BY <1>3, <1>13 DEF ZeroFile
<1>14. CASE WipeTemps
  BY <1>1, <1>3, <1>14 DEF WipeTemps, RemoveTemps
<1>15. CASE PowerLoss
  BY <1>3, <1>15 DEF PowerLoss
<1> QED BY <1>4, <1>5, <1>6, <1>7, <1>8, <1>9, <1>10, <1>11, <1>12, <1>13, <1>14, <1>15
       DEF Next, StoreNext

versions == <<Readable(dir.state), {Readable(d.state) : d \in disk}, confirmed>>

\* A step after which each file that may be the state opens or not, as before.
LEMMA SameVersions ==
  ASSUME IInv, confirmed' = confirmed, dir'.state = dir.state,
         disk \subseteq disk', disk' \subseteq disk \cup {dir'},
         \A d \in disk : Opens(d.state)' <=> Opens(d.state)
  PROVE  UNCHANGED versions
<1>1. dir \in disk
  BY Parts DEF IInv
<1>2. \A d \in disk : Readable(d.state)' = Readable(d.state)
  BY DEF Readable
<1>3. Readable(dir.state)' = Readable(dir.state)
  BY <1>1, <1>2
<1>4. {Readable(d.state)' : d \in disk'} = {Readable(d.state) : d \in disk}
  BY <1>1, <1>2, <1>3
<1> QED BY <1>3, <1>4 DEF versions

\* A step of an operation that destroys, after which no more files open than before.
LEMMA DestroysVersions ==
  ASSUME IInv, op \in {"replace", "wipe", "wipeall"}, confirmed' = Nothing,
         dir' \in disk', disk' \subseteq disk \cup {dir'}, dir'.state \in {dir.state, Nothing},
         \A f \in File : Opens(f)' => Opens(f)
  PROVE  StateFile!Destroy
<1>1. dir \in disk /\ \A d \in disk : d.state \in File \/ d.state = Nothing
  BY Parts DEF IInv
<1>2. ~Opens(Nothing) /\ ~Opens(Nothing)'
  BY DEF Opens, Header
<1>3. \A d \in disk : Readable(d.state)' \in {Readable(d.state), Nothing}
  BY <1>1, <1>2 DEF Readable
<1>4. Readable(dir.state)' \in {Readable(dir.state), Nothing}
  BY <1>1, <1>2, <1>3 DEF Readable
<1>5. \A d \in disk' : Readable(d.state)' \in {Readable(e.state) : e \in disk} \cup {Nothing}
  BY <1>1, <1>3, <1>4
<1> QED BY <1>4, <1>5 DEF StateFile!Destroy, StateFile!Nothing

\* A step that leaves the disk's files and keys.
LEMMA LeavesFiles ==
  ASSUME IInv, UNCHANGED <<pkey, file>>, confirmed' = confirmed, dir'.state = dir.state,
         disk \subseteq disk', disk' \subseteq disk \cup {dir'}
  PROVE  UNCHANGED versions
<1>1. \A d \in disk : Opens(d.state)' <=> Opens(d.state)
  BY DEF Opens, Header
<1> QED BY <1>1, SameVersions

\* Temporary files are no directory's state.
LEMMA TempsAreNoVersions ==
  ASSUME IInv, RemoveTemps, UNCHANGED <<pkey, confirmed>>
  PROVE  UNCHANGED versions
<1>1. \A d \in disk : d.state # Nothing => d.state \in File /\ d.state \notin dir.temps
  BY Parts DEF IInv, Named
<1>2. \A d \in disk : Opens(d.state)' <=> Opens(d.state)
  BY <1>1, RemoveTempsFacts DEF Opens, Header, IInv
<1> QED BY <1>2, SameVersions, RemoveTempsFacts DEF IInv

\* A key that is made opens no file.
LEMMA WrapOpensNothing ==
  ASSUME IInv, KeysAreNew, Wrap
  PROVE  UNCHANGED versions
<1>1. UNCHANGED <<file, dir, disk, confirmed>>
  BY WrapFacts
<1>2. ASSUME NEW f \in File PROVE Opens(f)' <=> Opens(f)
  <2>1. ASSUME Header(f), file[f].prot \in Keyed
        PROVE  (file[f].key = pkey'[file[f].prot]) <=> (file[f].key = pkey[file[f].prot])
    <3> DEFINE q == file[f].prot
    <3>1. q \in Protectors /\ file[f].key # 0
      BY <2>1 DEF IInv, Keys
    <3>2. pkey \in [Protectors -> Nat] /\ writes \in Nat /\ file[f].key \in Nat /\ file[f].key <= writes
      BY Parts DEF IInv, TypeOK, Files, KeysAreNew
    <3>3. pkey'[q] = pkey[q] \/ (pkey[q] = 0 /\ pkey'[q] = writes + 1)
      BY <3>1, <3>2 DEF Wrap
    <3> QED BY <3>1, <3>2, <3>3
  <2> QED BY <1>1, <2>1 DEF Opens, Header
<1>3. \A d \in disk : Opens(d.state)' <=> Opens(d.state)
  BY <1>2, Parts DEF Opens, Header, IInv
<1> QED BY <1>1, <1>3, SameVersions

\* A file that is being written is no directory's state.
LEMMA WritingIsUnseen ==
  ASSUME IInv, WriteTemp \/ SyncTemp
  PROVE  UNCHANGED versions
<1>1. CASE WriteTemp
  <2>1. \A d \in disk : d.state # Nothing => d.state \in File \ {writes + 1}
    BY Parts DEF IInv, Named
  <2>2. \A d \in disk : Opens(d.state)' <=> Opens(d.state)
    BY <1>1, <2>1, WriteTempFacts DEF Opens, Header
  <2>3. confirmed' = confirmed /\ dir'.state = dir.state /\ disk \subseteq disk' /\ disk' \subseteq disk \cup {dir'}
    BY <1>1, WriteTempFacts
  <2> QED BY <2>2, <2>3, SameVersions
<1>2. CASE SyncTemp
  <2>1. pc = "sync" /\ UNCHANGED <<pkey, confirmed>> /\ dir'.state = dir.state
    BY <1>2, SyncTempFacts
  <2>2. \A d \in disk : d.state # Nothing => d.state \in File \ {writes}
    BY <2>1, Parts DEF IInv, Written
  <2>3. \A d \in disk : Opens(d.state)' <=> Opens(d.state)
    BY <1>2, <2>1, <2>2, SyncTempFacts DEF Opens, Header
  <2>4. disk \subseteq disk' /\ disk' \subseteq disk \cup {dir'}
    BY <1>2, DropTempFacts DEF SyncTemp, IInv
  <2> QED BY <2>1, <2>3, <2>4, SameVersions
<1> QED BY <1>1, <1>2

\* The rename is the write.
LEMMA RenameWrites ==
  ASSUME IInv, Rename
  PROVE  StateFile!Write \/ UNCHANGED versions
<1>1. pc = "rename" /\ UNCHANGED <<pkey, file, writes, confirmed>>
  BY RenameFacts
<1>2. CASE DropTemp
  BY <1>1, <1>2, DropTempFacts, LeavesFiles DEF IInv
<1>3. CASE RenameReplace
  <2>1. dir'.state = writes /\ disk' = disk \cup {dir'}
    BY <1>3 DEF RenameReplace, Becomes
  <2>2. writes \in File /\ Opens(writes) /\ writes \in Nat /\ writes # 0
    BY <1>1, Parts DEF IInv, Written, Opens, Header
  <2>3. Opens(writes)'
    BY <1>1, <2>2 DEF Opens, Header
  <2>4. Readable(dir.state)' = writes
    BY <2>1, <2>3, <1>1 DEF Readable
  <2>5. \A d \in disk : Readable(d.state) < writes /\ Readable(d.state)' = Readable(d.state)
    <3> TAKE d \in disk
    <3>1. d.state \in Nat /\ d.state < writes
      BY <1>1, <2>2, Parts DEF IInv, Named, Written
    <3>2. Opens(d.state)' <=> Opens(d.state)
      BY <1>1 DEF Opens, Header
    <3> QED BY <2>2, <3>1, <3>2 DEF Readable
  <2>6. {Readable(d.state)' : d \in disk'} = {Readable(d.state) : d \in disk} \cup {writes}
    BY <2>1, <2>4, <2>5
  <2>7. \A v \in {Readable(d.state) : d \in disk} : writes > v
    BY <2>2, <2>5, Parts DEF IInv, Readable
  <2> QED BY <1>1, <2>4, <2>6, <2>7 DEF StateFile!Write
<1> QED BY <1>2, <1>3 DEF Rename

\* A flush that succeeds leaves one directory, and promises the file it names.
LEMMA FlushFlushes ==
  ASSUME IInv, Flush \/ Reflush
  PROVE  StateFile!Flush \/ UNCHANGED versions
<1>1. pc \in {"flush", "retry"} /\ UNCHANGED <<pkey, file, writes>>
  BY DEF Flush, Reflush
<1>2. CASE UNCHANGED <<dir, disk, confirmed>>
  BY <1>1, <1>2, LeavesFiles
<1>3. CASE Flushed
  <2>1. disk' = {dir} /\ dir' = dir /\ confirmed' = writes
    BY <1>3 DEF Flushed, Synced
  <2>2. dir.state = writes /\ writes # 0 /\ Opens(writes)
    BY <1>1, Parts DEF IInv, Written, Opens, Header
  <2>3. Opens(writes)'
    BY <1>1, <2>2 DEF Opens, Header
  <2>4. Readable(dir.state) = writes /\ Readable(dir.state)' = writes
    BY <1>1, <2>1, <2>2, <2>3 DEF Readable
  <2>5. {Readable(d.state)' : d \in disk'} = {writes}
    BY <2>1, <2>4
  <2> QED BY <2>1, <2>2, <2>4, <2>5 DEF StateFile!Flush, StateFile!Nothing
<1> QED BY <1>2, <1>3 DEF Flush, Reflush

\* The old file is no directory's state once the new one is promised.
LEMMA OldFileIsUnseen ==
  ASSUME IInv, Overwrite
  PROVE  UNCHANGED versions
<1>1. pc = "over" /\ confirmed = writes /\ writes # 0 /\ held = before.state /\ held # writes /\ held # 0
  BY DEF Overwrite, IInv, Written, Held
<1>2. UNCHANGED <<pkey, dir, disk, confirmed>>
  BY DEF Overwrite
<1>3. \A d \in disk : d.state = writes
  BY <1>1, Parts DEF IInv, SavedSurvives, Possible, Named
<1>4. writes \in File \ {held}
  BY <1>1, Parts DEF IInv
<1>5. file'[writes].data = file[writes].data /\ file'[writes].prot = file[writes].prot
      /\ file'[writes].key = file[writes].key
  BY <1>4, SetDataFacts DEF Overwrite, IInv
<1>6. \A d \in disk : Opens(d.state)' <=> Opens(d.state)
  BY <1>2, <1>3, <1>5 DEF Opens, Header
<1> QED BY <1>2, <1>6, SameVersions

\* Keys that are deleted, and files that are overwritten, open no more files.
LEMMA FewerOpen ==
  ASSUME IInv,
         \A p \in Protectors : pkey'[p] \in {pkey[p], 0},
         \/ UNCHANGED file
         \/ \E F : SetData(F, "zero")
  PROVE  \A f \in File : Opens(f)' => Opens(f)
<1> SUFFICES ASSUME NEW f \in File, Opens(f)' PROVE Opens(f)
  OBVIOUS
<1>1. /\ file'[f].prot = file[f].prot /\ file'[f].key = file[f].key
      /\ file'[f].data \in {file[f].data, "zero"}
  BY SetDataFacts DEF IInv
<1>2. Header(f)
  BY <1>1 DEF Opens, Header
<1>3. file[f].prot \in Protectors /\ (file[f].prot \in Keyed => file[f].key # 0)
  BY <1>2 DEF IInv, Keys
<1> QED BY <1>1, <1>2, <1>3 DEF Opens

\* A replacement destroys the old state before the new one only where it must: its key, or a file in the way.
LEMMA ReplacingDestroys ==
  ASSUME IInv, OldKeyWiped \/ OverwriteFirst
  PROVE  StateFile!Destroy \/ UNCHANGED versions
<1>1. pc \in OldSteps /\ op = "replace" /\ UNCHANGED <<dir, disk>> /\ dir \in disk
  BY Parts DEF OldKeyWiped, OverwriteFirst, OldSteps, IInv, Placed
<1>2. CASE OldKeyWiped
  <2>1. UNCHANGED file
    BY <1>2 DEF OldKeyWiped
  <2>2. CASE UNCHANGED <<pkey, confirmed>>
    BY <1>1, <2>1, <2>2, LeavesFiles
  <2>3. ASSUME NEW old \in OldProtector \ {None}, KeyDeleted({old}),
               confirmed' = IF old \in Keyed THEN Nothing ELSE confirmed
        PROVE  StateFile!Destroy \/ UNCHANGED versions
    <3>1. pkey \in [Protectors -> Nat] /\ \A p \in Protectors : pkey'[p] \in {pkey[p], 0}
      BY <2>3 DEF KeyDeleted, IInv, TypeOK
    <3>2. CASE old \in Keyed
      BY <1>1, <2>1, <2>3, <3>1, <3>2, FewerOpen, DestroysVersions
    <3>3. CASE old \notin Keyed
      <4>1. \A p \in Protectors : pkey'[p] = pkey[p]
        BY <2>3, <3>3 DEF KeyDeleted, IInv, Keys
      <4>2. pkey' = pkey
        BY <2>3, <3>1, <4>1 DEF KeyDeleted
      <4> QED BY <1>1, <2>1, <2>3, <3>3, <4>2, LeavesFiles
    <3> QED BY <3>2, <3>3
  <2> QED BY <1>2, <2>2, <2>3 DEF OldKeyWiped
<1>3. CASE OverwriteFirst
  <2>1. UNCHANGED pkey /\ confirmed' = Nothing /\ (UNCHANGED file \/ \E F : SetData(F, "zero"))
    BY <1>3 DEF OverwriteFirst
  <2> QED BY <1>1, <2>1, FewerOpen, DestroysVersions
<1> QED BY <1>2, <1>3

\* A wipe destroys, its key first.
LEMMA WipingDestroys ==
  ASSUME IInv, KeyWiped \/ ZeroFile \/ Unlink
  PROVE  StateFile!Destroy \/ UNCHANGED versions
<1>1. op \in {"wipe", "wipeall"} /\ dir \in disk
  BY Parts DEF KeyWiped, ZeroFile, Unlink, WipeSteps, IInv, Placed
<1>2. CASE KeyWiped
  <2>1. UNCHANGED <<file, dir, disk>>
    BY <1>2 DEF KeyWiped
  <2>2. CASE UNCHANGED <<pkey, confirmed>>
    BY <2>1, <2>2, LeavesFiles
  <2>3. CASE confirmed' = Nothing /\ \A p \in Protectors : pkey'[p] \in {pkey[p], 0}
    BY <1>1, <2>1, <2>3, FewerOpen, DestroysVersions
  <2>4. \/ UNCHANGED <<pkey, confirmed>>
        \/ confirmed' = Nothing /\ \A p \in Protectors : pkey'[p] \in {pkey[p], 0}
    BY <1>2 DEF KeyWiped, KeyDeleted, ToFiles, KeepsFile
  <2> QED BY <2>2, <2>3, <2>4
<1>3. CASE ZeroFile
  <2>1. UNCHANGED <<pkey, dir, disk>> /\ confirmed' = Nothing /\ (UNCHANGED file \/ \E F : SetData(F, "zero"))
    BY <1>3 DEF ZeroFile, history, IInv, WipedSoFar, WipeSteps
  <2> QED BY <1>1, <2>1, FewerOpen, DestroysVersions
<1>4. CASE Unlink
  <2>1. UNCHANGED <<pkey, file>> /\ confirmed' = Nothing
    BY <1>4 DEF Unlink, history, IInv, WipedSoFar, WipeSteps
  <2>2. dir' \in disk' /\ disk' \subseteq disk \cup {dir'} /\ dir'.state \in {dir.state, Nothing}
    BY <1>1, <1>4, UnlinkFacts DEF Unlink, Becomes, IInv
  <2> QED BY <1>1, <2>1, <2>2, FewerOpen, DestroysVersions
<1> QED BY <1>2, <1>3, <1>4

\* Its last flush promises nothing.
LEMMA SyncDirFlushes ==
  ASSUME IInv, SyncDir
  PROVE  StateFile!Flush \/ UNCHANGED versions
<1>1. UNCHANGED <<pkey, file, confirmed, dir>>
  BY DEF SyncDir, Synced
<1>2. CASE UNCHANGED disk
  BY <1>1, <1>2, LeavesFiles
<1>3. CASE disk' = {dir}
  <2>1. Opens(dir.state)' <=> Opens(dir.state)
    BY <1>1 DEF Opens, Header
  <2>2. Readable(dir.state)' = Readable(dir.state)
    BY <1>1, <2>1 DEF Readable
  <2>3. {Readable(d.state)' : d \in disk'} = {Readable(dir.state)}
    BY <1>1, <1>3, <2>2
  <2> QED BY <1>1, <2>2, <2>3 DEF StateFile!Flush
<1> QED BY <1>2, <1>3 DEF SyncDir, Synced

\* A power loss loses no file that is a directory's state.
LEMMA LossIsALoss ==
  ASSUME IInv, PowerLoss
  PROVE  StateFile!PowerLoss
<1>1. dir' \in disk /\ disk' = {dir'} /\ UNCHANGED <<pkey, confirmed>>
  BY DEF PowerLoss
<1>2. PICK lost \in SUBSET {f \in File : file[f].data = "written"} : SetData(lost, "lost")
  BY DEF PowerLoss
<1>3. dir'.state # Nothing => dir'.state \in File /\ dir'.state \notin lost
  BY <1>1, Parts DEF IInv, Named
<1>4. \A s : s = dir'.state => (Opens(s)' <=> Opens(s))
  BY <1>1, <1>2, <1>3, SetDataFacts DEF Opens, Header, IInv
<1>5. Readable(dir.state)' \in {Readable(d.state) : d \in disk}
  BY <1>1, <1>4 DEF Readable
<1>6. {Readable(d.state)' : d \in disk'} = {Readable(dir.state)'}
  BY <1>1
<1> QED BY <1>1, <1>5, <1>6 DEF StateFile!PowerLoss

\* Every step is one of the promised ones, or changes no version.
LEMMA StepRefines ==
  ASSUME IInv, KeysAreNew, [Next]_vars
  PROVE  [StateFile!Next]_versions
<1> USE DEF StateFile!Next
<1>1. CASE UNCHANGED <<pkey, file, dir, disk, confirmed>>
  BY <1>1, LeavesFiles
<1>2. CASE CloseStore \/ Load \/ Create \/ Save \/ CreateReplace \/ Wipe \/ WipeAll \/ Crash
  BY <1>1, <1>2 DEF CloseStore, Load, Create, Save, CreateReplace, Wipe, WipeAll, Crash, disks, history
<1>3. CASE Open \/ WipeTemps
  BY <1>1, <1>3, TempsAreNoVersions DEF Open, WipeTemps, history
<1>4. CASE UNCHANGED vars
  BY <1>1, <1>4 DEF vars, disks, history
<1> QED BY <1>2, <1>3, <1>4, WrapOpensNothing, WritingIsUnseen, RenameWrites, FlushFlushes,
       OldFileIsUnseen, ReplacingDestroys, WipingDestroys, SyncDirFlushes, LossIsALoss DEF Next, StoreNext

(* The state file goes from a version that opens to a newer one in one     *)
(* step, what a power loss brings back may be there, and what is destroyed *)
(* is destroyed on purpose and for good (writeAtomic, CreateReplace, Wipe).*)
THEOREM StateFileIsDurable == Spec => KeepsState
<1>1. Init => StateFile!Init /\ KeysAreNew
  BY InitKeeps, Parts DEF Init, StateFile!Init, StateFile!Nothing, KeysAreNew, Readable, Opens, Header, Empty
<1>2. IInv /\ KeysAreNew /\ [Next]_vars => KeysAreNew'
  BY KeysNewStep DEF vars, disks, KeysAreNew
<1>3. IInv /\ KeysAreNew /\ [Next]_vars
        => [StateFile!Next]_<<Readable(dir.state), {Readable(d.state) : d \in disk}, confirmed>>
  BY StepRefines DEF versions
<1> QED BY <1>1, <1>2, <1>3, Invariance, PTL DEF Spec, KeepsState, StateFile!Spec

-----------------------------------------------------------------------------
(***************************************************************************)
(* The reader.                                                             *)
(***************************************************************************)
USE DEF rvars

ReaderSteps == {"idle", "open", "links", "read", "unwrap", "view", "notfound", "unreadable", "replaced"}
HasFile == {"links", "read", "unwrap", "view"}

ReaderType ==
  reader \in [at : ReaderSteps, f : 0..MaxWrites, replaced : Nat, first : 0..MaxWrites, sure : BOOLEAN]

\* No file that comes to the path is older than the one the reader has, or began with: each time its file
\* was replaced it was by a later one.
NeverOlder ==
  /\ reader.at = "idle" \/ reader.first + reader.replaced <= writes + 1
  /\ reader.at \in {"open", "replaced"} =>
       /\ dir.state # Nothing => dir.state >= reader.first + reader.replaced
       /\ pc \in {"sync", "rename"} => writes >= reader.first + reader.replaced
  /\ reader.at \in HasFile =>
       /\ reader.f # Nothing /\ reader.f >= reader.first + reader.replaced /\ reader.f <= writes
       /\ dir.state # Nothing => dir.state >= reader.f
       /\ pc \in {"sync", "rename"} => reader.f < writes
  /\ reader.at = "replaced" => reader.replaced >= Attempts

\* While the Store only saves since the reader began, the file in place and the one it has open, open.
StaysReadable ==
  reader.sure =>
    /\ op \in {"none", "save"} /\ Opens(dir.state)
    /\ reader.at \in HasFile => Opens(reader.f) /\ reader.f \notin dir.temps
    /\ reader.at \notin {"notfound", "unreadable"}

ReaderInv == ReaderType /\ NeverOlder /\ StaysReadable

\* What the Store's steps do to the path and to the numbers of files.
LEMMA PathMoves ==
  ASSUME IInv, StoreNext
  PROVE  /\ writes' \in {writes, writes + 1}
         /\ \/ dir'.state \in {dir.state, Nothing}
            \/ pc = "rename" /\ pc' = "flush" /\ dir'.state = writes /\ writes' = writes
         /\ pc' \in {"sync", "rename"} =>
              \/ writes' = writes + 1
              \/ writes' = writes /\ pc \in {"sync", "rename"}
<1>1. CASE WriteTemp
  <2>1. writes' = writes + 1 /\ dir'.state = dir.state
    BY <1>1, WriteTempFacts
  <2> QED
    BY <2>1
<1> USE DEF IInv
<1>2. CASE SyncTemp
  BY <1>2, SyncTempFacts
<1>3. CASE Rename
  BY <1>3, RenameFacts
<1>4. CASE Wrap
  BY <1>4, WrapFacts
<1>5. CASE Open
  BY <1>5, RemoveTempsFacts DEF Open
<1>6. CASE CloseStore \/ Crash
  BY <1>6 DEF CloseStore, Crash, Ends, disks
<1>7. CASE Load \/ Create \/ Save \/ CreateReplace \/ Wipe \/ WipeAll
  BY <1>7 DEF Load, Create, Save, CreateReplace, Wipe, WipeAll, Begin, disks
<1>8. CASE OldKeyWiped \/ OverwriteFirst \/ Overwrite
  BY <1>8 DEF OldKeyWiped, OverwriteFirst, Overwrite, Return
<1>9. CASE Flush \/ Reflush
  BY <1>9 DEF Flush, Reflush, Flushed, Synced, RetryLater, NotDurable, Return
<1>10. CASE KeyWiped \/ ZeroFile
  BY <1>10 DEF KeyWiped, ZeroFile, ToFiles, KeepsFile, Return
<1>11. CASE Unlink
  BY <1>11, UnlinkFacts
<1>12. CASE WipeTemps
  BY <1>12, RemoveTempsFacts DEF WipeTemps
<1>13. CASE SyncDir
  BY <1>13 DEF SyncDir, Synced, Return
<1> QED
  BY <1>1, <1>2, <1>3, <1>4, <1>5, <1>6, <1>7, <1>8, <1>9, <1>10, <1>11, <1>12, <1>13 DEF StoreNext

\* A Store that only saves changes no file that is in place, or was, and no key.
LEMMA SavesKeepReadable ==
  ASSUME IInv, StoreNext, op \in {"none", "save"}, op' \in {"none", "save"}
  PROVE  /\ Opens(dir.state) => Opens(dir.state)'
         /\ \A f \in File : f <= writes /\ f \notin dir.temps /\ Opens(f) => Opens(f)' /\ f \notin dir'.temps
<1> USE Parts DEF IInv
<1>n. dir.state \notin dir.temps /\ dir.state <= writes
  BY DEF Named
<1>1. CASE WriteTemp
  <2>1. \A f \in File : f <= writes => f # writes + 1
    OBVIOUS
  <2> QED
    BY <1>1, <1>n, <2>1, WriteTempFacts
<1>2. CASE SyncTemp
  BY <1>2, <1>n, SyncTempFacts
<1>3. CASE Rename
  <2>1. writes \in File /\ file[writes].data = "synced" /\ file[writes].prot = prot
        /\ (prot \in Keyed => file[writes].key = pkey[prot])
    BY <1>3, RenameFacts DEF Written
  <2> QED
    BY <1>3, <1>n, <2>1, RenameFacts
<1>5. CASE Open
  BY <1>5, <1>n, RemoveTempsFacts DEF Open
<1>6. CASE CloseStore \/ Crash
  BY <1>6 DEF CloseStore, Crash, Ends, disks
<1>7. CASE Load \/ Create \/ Save \/ CreateReplace \/ Wipe \/ WipeAll
  BY <1>7 DEF Load, Create, Save, CreateReplace, Wipe, WipeAll, Begin, disks
<1>8. CASE Flush
  BY <1>8 DEF Flush, Flushed, Synced, RetryLater, NotDurable, Return
<1>9. ~(Wrap \/ OldKeyWiped \/ OverwriteFirst \/ Reflush \/ Overwrite)
  BY DEF Placed, Wrap, OldKeyWiped, OverwriteFirst, Reflush, Overwrite
<1>10. ~(KeyWiped \/ ZeroFile \/ Unlink \/ WipeTemps \/ SyncDir)
  BY DEF Placed, KeyWiped, ZeroFile, Unlink, WipeTemps, SyncDir
<1> QED
  BY <1>1, <1>2, <1>3, <1>5, <1>6, <1>7, <1>8, <1>9, <1>10 DEF StoreNext

\* What the Store's process does meanwhile keeps what the reader knows.
LEMMA StoreStepsKeepReader ==
  ASSUME IInv, ReaderInv, StoreSteps, TypeOK'
  PROVE  ReaderInv'
<1> USE DEF IInv, ReaderInv
<1>1. CASE PowerLoss /\ reader' = ReaderIdle
  <2>1. reader'.at = "idle" /\ ~reader'.sure /\ ReaderType'
    BY <1>1 DEF ReaderIdle, ReaderType, ReaderSteps, TypeOK
  <2> QED
    BY <2>1 DEF NeverOlder, StaysReadable, HasFile
<1>2. CASE StoreNext /\ reader' = [reader EXCEPT !.sure = @ /\ OnlySaves]
  <2>1. /\ ReaderType'
        /\ reader'.at = reader.at /\ reader'.f = reader.f /\ reader'.first = reader.first
        /\ reader'.replaced = reader.replaced /\ (reader'.sure => reader.sure /\ op' \in {"none", "save"})
    BY <1>2 DEF ReaderType, OnlySaves
  <2>2. reader.f \in Nat /\ reader.first \in Nat /\ reader.replaced \in Nat /\ writes \in Nat
        /\ dir.state \in Nat /\ dir'.state \in Nat /\ dir.state <= writes
    BY Parts DEF ReaderType, TypeOK, Named, Dirs
  <2>3. NeverOlder'
    BY <1>2, <2>1, <2>2, PathMoves DEF NeverOlder, HasFile
  <2>4. StaysReadable'
    <3> SUFFICES ASSUME reader'.sure PROVE StaysReadable'
      BY DEF StaysReadable
    <3>1. op \in {"none", "save"} /\ op' \in {"none", "save"} /\ Opens(dir.state)
      BY <2>1 DEF StaysReadable
    <3>2. reader.at \in HasFile => reader.f \in File /\ reader.f <= writes /\ reader.f \notin dir.temps /\ Opens(reader.f)
      BY <2>1, Parts DEF StaysReadable, NeverOlder, ReaderType
    <3>3. Opens(dir.state)'
      BY <1>2, <3>1, SavesKeepReadable
    <3>4. reader.at \in HasFile => Opens(reader.f)' /\ reader.f \notin dir'.temps
      BY <1>2, <2>1, <3>1, <3>2, SavesKeepReadable
    <3> QED
      BY <2>1, <3>1, <3>3, <3>4 DEF StaysReadable
  <2> QED
    BY <2>1, <2>3, <2>4
<1> QED
  BY <1>1, <1>2 DEF StoreSteps

\* The reader's own steps, of which none changes what the Store has.
ReaderActs == ReaderBegins \/ OpenPrivate \/ CheckLinks \/ ReadBytes \/ Decode \/ ReaderEnds

\* A read that ends without a file, when it is not sure that there is one.
LEMMA SaysNothing ==
  ASSUME IInv, ReaderType, ~reader.sure, UNCHANGED vars,
         NEW why \in {"notfound", "unreadable"}, ReaderSays(why)
  PROVE  ReaderInv'
<1>1. /\ reader' = [at |-> why, f |-> Nothing, replaced |-> 0, first |-> Nothing, sure |-> reader.sure]
      /\ reader.sure \in BOOLEAN
  BY DEF ReaderSays, ReaderIdle, ReaderType
<1>2. ReaderType'
  <2>1. why \in ReaderSteps /\ Nothing \in 0..MaxWrites /\ 0 \in Nat
    BY StoreAssumption DEF ReaderSteps
  <2> QED
    BY <1>1, <2>1 DEF ReaderType
<1>3. reader'.at \in {"notfound", "unreadable"} /\ reader'.first = 0 /\ reader'.replaced = 0 /\ ~reader'.sure
  BY <1>1
<1>4. writes' = writes /\ writes \in Nat
  BY Parts DEF vars, disks, IInv
<1> QED
  BY <1>2, <1>3, <1>4 DEF ReaderInv, NeverOlder, StaysReadable, HasFile

LEMMA ReaderKeeps ==
  ASSUME IInv, ReaderInv, ReaderActs
  PROVE  ReaderInv'
<1> USE DEF IInv, ReaderInv
<1>1. UNCHANGED vars
  BY DEF ReaderActs, ReaderBegins, OpenPrivate, CheckLinks, ReadBytes, Decode, ReaderEnds
<1>2. UNCHANGED <<pkey, file, dir, disk, writes, pc, op>>
  BY <1>1 DEF vars, disks, store
<1>3. /\ reader.f \in 0..MaxWrites /\ reader.first \in 0..MaxWrites /\ reader.replaced \in Nat
      /\ reader.sure \in BOOLEAN
      /\ dir.state \in 0..MaxWrites /\ dir.state <= writes /\ dir.state \notin dir.temps /\ writes \in Nat
      /\ MaxWrites \in Nat /\ Attempts \in Nat
  BY Parts, ReaderAssumption DEF ReaderType, Named
<1>4. CASE ReaderBegins
  <2>1. reader' = [at |-> "open", f |-> Nothing, replaced |-> 0, first |-> dir.state,
                   sure |-> Opens(dir.state) /\ op \in {"none", "save"}]
    BY <1>4 DEF ReaderBegins
  <2>2. /\ reader'.at = "open" /\ reader'.first = dir.state /\ reader'.replaced = 0
        /\ (reader'.sure => Opens(dir.state) /\ op \in {"none", "save"})
    BY <2>1
  <2>3. (Opens(dir.state) /\ op \in {"none", "save"}) \in BOOLEAN
    OBVIOUS
  <2>4. ReaderType'
    BY <1>2, <1>3, <2>1, <2>3 DEF ReaderType, ReaderSteps
  <2>5. NeverOlder'
    <3>1. pc \in {"sync", "rename"} => writes >= dir.state
      BY <1>3
    <3> QED
      BY <1>2, <1>3, <2>2, <3>1 DEF NeverOlder, HasFile
  <2> QED
    BY <1>2, <2>2, <2>4, <2>5 DEF StaysReadable, HasFile
<1>5. CASE OpenPrivate
  <2>1. CASE dir.state = Nothing
    <3>1. ReaderSays("notfound")
      BY <1>5, <2>1 DEF OpenPrivate
    <3>2. ~reader.sure
      BY <2>1 DEF StaysReadable
    <3> QED
      BY <1>1, <3>1, <3>2, SaysNothing
  <2>2. CASE dir.state # Nothing
    <3>1. /\ ReaderType' /\ reader'.at = "links" /\ reader'.first = reader.first /\ reader'.f = dir.state
          /\ reader'.replaced = reader.replaced /\ reader'.sure = reader.sure
      BY <1>3, <1>5, <2>2 DEF OpenPrivate, ReaderType, ReaderSteps
    <3>2. pc \in {"sync", "rename"} => dir.state < writes
      <4>1. pc \in {"sync", "rename"} => dir.state # writes
        BY Parts DEF Written
      <4> QED
        BY <1>3, <4>1
    <3>3. NeverOlder'
      BY <1>2, <1>3, <1>5, <2>2, <3>1, <3>2 DEF OpenPrivate, NeverOlder, HasFile
    <3>4. StaysReadable'
      BY <1>2, <1>3, <3>1 DEF StaysReadable
    <3> QED
      BY <3>1, <3>3, <3>4
  <2> QED
    BY <2>1, <2>2
<1>6. CASE CheckLinks
  <2>1. CASE reader.f = dir.state
    <3>1. /\ ReaderType' /\ reader'.at = "read" /\ reader'.first = reader.first /\ reader'.f = reader.f
          /\ reader'.replaced = reader.replaced /\ reader'.sure = reader.sure /\ reader.at = "links"
      BY <1>3, <1>6, <2>1 DEF CheckLinks, ReaderGoes, ReaderType, ReaderSteps
    <3> QED
      BY <1>2, <3>1 DEF NeverOlder, StaysReadable, HasFile
  <2>2. CASE reader.f # dir.state
    <3>0. OpensAgain /\ reader.at = "links"
      BY <1>6, <2>2 DEF CheckLinks
    <3>1. /\ ReaderType' /\ reader'.first = reader.first /\ reader.at = "links"
          /\ reader'.replaced = reader.replaced + 1 /\ reader'.sure = reader.sure
          /\ reader'.at = IF reader.replaced + 1 < Attempts THEN "open" ELSE "replaced"
      <4>1. (IF reader.replaced + 1 < Attempts THEN "open" ELSE "replaced") \in ReaderSteps
        BY DEF ReaderSteps
      <4>2. reader.replaced + 1 \in Nat /\ Nothing \in 0..MaxWrites
        BY <1>3
      <4> HIDE DEF ReaderSteps
      <4> QED
        BY <3>0, <4>1, <4>2 DEF OpensAgain, ReaderType
    <3>2. /\ reader.f >= reader.first + reader.replaced /\ reader.f <= writes
          /\ dir.state # Nothing => dir.state >= reader.f
          /\ pc \in {"sync", "rename"} => reader.f < writes
      BY <3>1 DEF NeverOlder, HasFile
    <3>3. NeverOlder'
      BY <1>2, <1>3, <2>2, <3>1, <3>2 DEF NeverOlder, HasFile
    <3>4. StaysReadable'
      BY <1>2, <3>1 DEF StaysReadable, HasFile
    <3> QED
      BY <3>1, <3>3, <3>4
  <2> QED
    BY <2>1, <2>2
<1>7. CASE ReadBytes \/ Decode
  <2>1. reader.at \in HasFile
    BY <1>7 DEF ReadBytes, Decode, HasFile
  <2>2. CASE ReaderGoes("unwrap") \/ ReaderGoes("view")
    <3>1. /\ ReaderType' /\ reader'.first = reader.first /\ reader'.f = reader.f
          /\ reader'.replaced = reader.replaced /\ reader'.sure = reader.sure
          /\ reader'.at \in {"unwrap", "view"}
      BY <1>3, <2>2 DEF ReaderGoes, ReaderType, ReaderSteps
    <3> QED
      BY <1>2, <2>1, <3>1 DEF NeverOlder, StaysReadable, HasFile
  <2>3. CASE ReaderSays("unreadable") /\ ~Opens(reader.f)
    <3>1. ~reader.sure
      BY <2>1, <2>3 DEF StaysReadable
    <3> QED
      BY <1>1, <2>3, <3>1, SaysNothing
  <2> QED
    BY <1>7, <2>2, <2>3 DEF ReadBytes, Decode, Opens
<1>8. CASE ReaderEnds
  <2>1. reader'.at = "idle" /\ ~reader'.sure /\ ReaderType'
    BY <1>2, <1>3, <1>8 DEF ReaderEnds, ReaderIdle, ReaderType, ReaderSteps
  <2> QED
    BY <2>1 DEF NeverOlder, StaysReadable, HasFile
<1> QED
  BY <1>4, <1>5, <1>6, <1>7, <1>8 DEF ReaderActs

(* The reader changes nothing: with it beside the Store, the Store still   *)
(* takes its own steps and no others, so that what is proved of it above   *)
(* holds while `status` reads (ReadOnly: "without the lock").              *)
THEOREM ReaderDisturbsNothing == ReaderSpec => Spec
<1>1. ReaderInit => Init
  BY DEF ReaderInit
<1>2. [ReaderNext]_rvars => [Next]_vars
  BY DEF ReaderNext, StoreSteps, Next, ReaderBegins, OpenPrivate, CheckLinks, ReadBytes, Decode, ReaderEnds
<1> QED
  BY <1>1, <1>2, PTL DEF ReaderSpec, Spec

(* The inductive invariant of the reader.                                  *)
THEOREM ReaderInvariance == ReaderSpec => []ReaderInv
<1>1. ReaderInit => ReaderInv
  <2> SUFFICES ASSUME ReaderInit PROVE ReaderInv
    OBVIOUS
  <2>1. reader.at = "idle" /\ ~reader.sure /\ ReaderType
    BY Parts, StoreAssumption DEF ReaderInit, ReaderIdle, ReaderType, ReaderSteps
  <2> QED
    BY <2>1 DEF ReaderInv, NeverOlder, StaysReadable, HasFile
<1>2. IInv /\ IInv' /\ ReaderInv /\ [ReaderNext]_rvars => ReaderInv'
  <2> SUFFICES ASSUME IInv, IInv', ReaderInv, [ReaderNext]_rvars PROVE ReaderInv'
    OBVIOUS
  <2>1. CASE StoreSteps
    BY <2>1, StoreStepsKeepReader DEF IInv
  <2>2. CASE UNCHANGED rvars
    BY <2>2 DEF vars, disks, store, ReaderInv, ReaderType, NeverOlder, StaysReadable
  <2> QED
    BY <2>1, <2>2, ReaderKeeps DEF ReaderNext, ReaderActs
<1> QED
  BY <1>1, <1>2, ReaderDisturbsNothing, Invariance, PTL DEF ReaderSpec

(* `status` shows the file it found or a later one, says that there is     *)
(* none or that it is unreadable only if the Store destroyed it meanwhile, *)
(* and gives up only after as many later files as it has attempts.         *)
THEOREM StatusIsSo == ReaderSpec => []StatusShowsTheState
<1>1. IInv /\ ReaderInv => StatusShowsTheState
  <2> SUFFICES ASSUME IInv, ReaderInv PROVE StatusShowsTheState
    OBVIOUS
  <2>1. /\ reader.f \in Nat /\ reader.first \in Nat /\ reader.replaced \in Nat /\ dir.state \in Nat /\ Attempts \in Nat
    BY Parts, ReaderAssumption DEF IInv, ReaderInv, ReaderType
  <2> QED
    BY <2>1 DEF ReaderInv, NeverOlder, StaysReadable, HasFile, StatusShowsTheState
<1> QED
  BY <1>1, ReaderDisturbsNothing, Invariance, ReaderInvariance, PTL
=============================================================================
