--------------------------- MODULE PairingProofs ---------------------------
(***************************************************************************)
(* Proofs about Pairing: the code to compare has a resumable state behind  *)
(* it, an acknowledged approval is kept, what the operator reads is so,    *)
(* and a failed pairing leaves nothing; for any protectors, attempts,      *)
(* writes, failures, crashes and power losses, and both file systems.      *)
(*                                                                         *)
(* Every step of a run is a step of the Store or leaves it as it is        *)
(* (RunUsesTheStore), so StateStoreProofs' invariant IInv holds.  PInv,    *)
(* on top of it, ties the record in each file to the run and to what was   *)
(* promised.                                                               *)
(***************************************************************************)
EXTENDS Pairing, StateStoreProofs

-----------------------------------------------------------------------------
(***************************************************************************)
(* The inductive invariant.                                                *)
(***************************************************************************)

Records == [phase : Phases \cup {"none"}, try : 0..MaxTries]
Whys == {"none", "unreadable", "already", "expired", "failed", "rejected", "paired",
         "pairedwarned", "interrupted"}
Runs == [try : 0..MaxTries, phase : Phases \cup {"none"}, created : BOOLEAN, replace : BOOLEAN,
         replaced : BOOLEAN, gone : BOOLEAN, again : BOOLEAN, why : Whys, left : BOOLEAN]
Begun == {"expiring", "handshake", "wait", "saving", "persisting"}   \* with an attempt
Ats == {"none", "begun", "new", "wiping", "wipingall", "over"} \cup Begun

(* The types.                                                              *)
PTypeOK ==
  /\ content \in [File -> Records] /\ tries \in 0..MaxTries
  /\ at \in Ats /\ run \in Runs /\ start \in Before /\ promised \in Records

(* Where the run waits for the Store, and where it does not.               *)
Calls ==
  /\ at = "none" <=> pc = "closed"
  /\ at \in {"begun", "new", "expiring", "handshake", "wait", "over"} => pc = "open"
  /\ at = "saving" => op \in {"none", "create", "save", "replace"}
  /\ at = "persisting" => op \in {"none", "save"}
  /\ at = "wiping" => op \in {"none", "wipe"}
  /\ at = "wipingall" => op \in {"none", "wipeall"}

(* What the run knows of itself.                                           *)
Known ==
  /\ at = "begun" => run = NoRun
  /\ at = "new" => run.try = 0 /\ ~run.created /\ ~run.replaced /\ ~run.gone /\ ~run.again
  /\ at = "wipingall" => run.try # 0 /\ run.phase = "started" /\ ~run.created /\ run.gone /\ ~run.again
  /\ at \in {"expiring", "handshake", "wait", "persisting", "wiping"} => run.created
  /\ at = "saving" /\ (op = "save" \/ run.phase # "started") => run.created
  /\ at \in Begun => run.try # 0 /\ run.phase \in Phases
  /\ at \in {"wiping", "expiring"} => run.why \in Failure

(* Attempts are numbered in the order in which they begin.                 *)
Numbered ==
  /\ run.try <= tries
  /\ \A f \in File : content[f].try <= tries /\ (content[f].try = 0 <=> content[f].phase = "none")

(* The file being written, or just written, has the run's record.          *)
RecordIs(f) == content[f].phase = run.phase /\ content[f].try = run.try
Recorded ==
  at \in {"saving", "persisting"} =>
    /\ pc \in {"oldkey", "overfirst", "wrap", "temp"} => RecordIs(writes + 1)
    /\ pc \in {"sync", "rename", "flush", "retry", "over"} => RecordIs(writes)
    /\ pc = "open" /\ result \in {"saved", "replaced", "notdurable", "partly"} => RecordIs(writes)

(* Everything written since the last durable file is of the attempt that   *)
(* was promised, and nothing is under way that destroys it.                *)
Promised ==
  /\ promised.try = 0 => promised.phase = "none"
  /\ promised.try # 0 =>
       /\ promised.phase \in {"waiting", "paired"}
       /\ op \in {"none", "save"} /\ at \notin {"handshake", "wiping", "wipingall"}
       /\ confirmed # Nothing
       /\ \A f \in File : confirmed <= f /\ f <= writes =>
            content[f].try = promised.try /\ content[f].phase \in {promised.phase, "paired"}
       /\ at \in Begun => run.try = promised.try /\ run.phase \in {"waiting", "paired"}
                          /\ promised.phase = "waiting"

(* Until the run notes that the earlier file is replaced or may be gone,   *)
(* it is as it was, or the Store is about to say so.                       *)
AsFound == dir.state = start.state /\ (start.opens => Opens(dir.state))
Replacing ==
  /\ at = "begun" => AsFound
  /\ run.replace /\ ~run.replaced /\ ~run.gone =>
       /\ at \in {"new", "over"} /\ AsFound
       \/ /\ at = "saving" /\ ~run.again /\ ~run.created
          /\ before.state = start.state /\ (start.opens => before.opens)
          /\ \/ op = "replace"
             \/ pc = "open" /\ result \in {"unchanged", "incomplete", "notdurable", "partly", "replaced"}

(* Until the run notes that its own file is in place, none is, or the      *)
(* Store is about to say so.                                               *)
NotInPlace ==
  ~run.created =>
    \/ pc \in {"flush", "retry", "over"}
    \/ at = "saving" /\ pc = "open" /\ result \in {"saved", "notdurable", "partly", "replaced"}
    \/ \A d \in disk : ~Holds(d, run.try, Phases)

PInv ==
  /\ PTypeOK /\ Calls /\ Known /\ Numbered /\ Recorded /\ Promised /\ Replacing /\ NotInPlace
  /\ ToldIsSo /\ NothingIsKept

USE StoreAssumption, PairingAssumption DEF Nothing

-----------------------------------------------------------------------------
(***************************************************************************)
(* What the calls of the Store do, as the run sees them.                   *)
(***************************************************************************)

Unwritten == {"oldkey", "overfirst", "wrap", "temp"}
InWrite == {"sync", "rename", "flush", "retry", "over"}
InWipe == WipeSteps \cup {"wipekey"}
NewFile == {"saved", "replaced", "notdurable", "partly"}

\* Save begins.
LEMMA SaveFacts ==
  ASSUME IInv, Save
  PROVE  /\ pc = "open" /\ pc' = "temp" /\ op' = "save" /\ result' = "none"
         /\ writes + 1 \in File /\ UNCHANGED <<disks, confirmed>>
BY Parts DEF Save, Begin, IInv, File

\* Create begins, where there is nothing.
LEMMA CreateFacts ==
  ASSUME IInv, Create
  PROVE  /\ pc = "open" /\ pc' = "wrap" /\ op' = "create" /\ result' = "none"
         /\ writes + 1 \in File /\ UNCHANGED <<disks, confirmed>>
BY Parts DEF Create, Begin, IInv, File

\* CreateReplace begins.
LEMMA CreateReplaceFacts ==
  ASSUME IInv, CreateReplace
  PROVE  /\ pc = "open" /\ pc' = "oldkey" /\ op' = "replace" /\ result' = "none"
         /\ writes + 1 \in File /\ UNCHANGED <<disks, confirmed>>
         /\ before'.state = dir.state /\ before'.opens = Opens(dir.state)
<1>1. PICK p \in Protectors : Begin("replace", p, "oldkey")
  BY DEF CreateReplace
<1>2. /\ pc = "open" /\ pc' = "oldkey" /\ op' = "replace" /\ result' = "none"
      /\ before'.state = dir.state /\ before'.opens = Opens(dir.state)
  BY <1>1, BeginFacts DEF IInv
<1>3. writes + 1 \in File /\ UNCHANGED <<disks, confirmed>>
  BY Parts DEF CreateReplace, IInv, File
<1> QED BY <1>2, <1>3

\* Wipe and WipeAll begin.
LEMMA WipeFacts ==
  ASSUME Wipe
  PROVE  /\ pc = "open" /\ pc' = "wipekey" /\ op' = "wipe"
         /\ result' = "none" /\ UNCHANGED <<disks, confirmed>>
BY DEF Wipe, Begin

LEMMA WipeAllFacts ==
  ASSUME WipeAll
  PROVE  /\ pc = "open" /\ pc' = "wipekey" /\ op' = "wipeall"
         /\ result' = "none" /\ UNCHANGED <<disks, confirmed>>
BY DEF WipeAll, Begin

\* The Store is opened.
LEMMA OpenFacts ==
  ASSUME IInv, Open, pc' = "open"
  PROVE  /\ pc = "closed" /\ dir'.state = dir.state /\ disk' \subseteq disk \cup {dir'}
         /\ UNCHANGED <<op, writes, confirmed, result, before>>
BY RemoveTempsFacts DEF Open, IInv, history

\* The process ends, by itself or not.
LEMMA EndFacts ==
  ASSUME IInv, CloseStore \/ Crash \/ PowerLoss
  PROVE  /\ pc' = "closed" /\ op' = "none" /\ disk' \subseteq disk
         /\ UNCHANGED <<writes, confirmed, before>>
BY DEF CloseStore, Crash, PowerLoss, Ends, disks, IInv, TypeOK

\* The file is opened.
LEMMA LoadFacts ==
  ASSUME Load
  PROVE  /\ pc = "open" /\ Opens(dir.state) /\ UNCHANGED <<disks, pc, op, confirmed, result, before>>
BY DEF Load, history

\* A step of the call under way.
LEMMA StoreStepFacts ==
  ASSUME IInv, StoreStep
  PROVE  /\ UNCHANGED <<pairing, before>>
         /\ pc \in Unwritten \cup InWrite \cup InWipe
         /\ pc' \in Unwritten \cup InWrite \cup InWipe \cup {"open"}
         /\ op' = IF pc' = "open" THEN "none" ELSE op
         /\ pc \in Unwritten =>
              \/ pc' \in Unwritten /\ UNCHANGED writes
              \/ pc' = "sync" /\ writes' = writes + 1 /\ writes + 1 \in File
              \/ pc' = "open" /\ result' \in {"error", "incomplete", "unchanged"}
         /\ pc \in Unwritten => writes' = writes \/ (pc = "temp" /\ writes' = writes + 1)
         /\ pc \in InWrite => UNCHANGED writes /\ pc' \in InWrite \cup {"open"}
         /\ pc \in InWipe => UNCHANGED writes /\ pc' \in InWipe \cup {"open"}
         /\ pc \in InWipe /\ pc' = "open" => result' \in {"wiped", "allwiped", "notwiped"}
         /\ pc \in {"flush", "retry", "over"} /\ pc' = "open" => result' \in NewFile
         /\ pc' \in {"flush", "retry", "over"} => pc \in {"rename", "flush", "retry", "over"}
         /\ pc \in {"flush", "retry", "over"} => pc' \in {"retry", "over", "open"}
         /\ op = "replace" /\ pc' = "open" =>
              result' \in {"unchanged", "incomplete", "notdurable", "partly", "replaced"}
         /\ op = "save" => confirmed' \in {confirmed, writes} /\ (confirmed' # confirmed => writes' = writes)
         /\ pc' \notin {"flush", "retry", "over"} /\ pc \notin {"flush", "retry", "over"} =>
              \A d \in disk' : d.state = Nothing \/ \E e \in disk : d.state = e.state
<1> USE DEF IInv, Unwritten, InWrite, InWipe, NewFile, WipeSteps, OldSteps, WriteSteps
<1>0. UNCHANGED pairing
  BY DEF StoreStep
<1>1. CASE OldKeyWiped
  BY <1>0, <1>1, Parts DEF OldKeyWiped, Fault, Return, Placed
<1>2. CASE OverwriteFirst
  BY <1>0, <1>2, Parts DEF OverwriteFirst, Fault, Return, Placed
<1>3. CASE Wrap
  BY <1>0, <1>3, WrapFacts, Parts DEF Wrap, Failed, Return, Placed
<1>4. CASE WriteTemp
  BY <1>0, <1>4, WriteTempFacts, Parts DEF WriteTemp, Failed, Return, Placed
<1>5. CASE SyncTemp
  BY <1>0, <1>5, SyncTempFacts, Parts DEF SyncTemp, Failed, Return
<1>6. CASE Rename
  BY <1>0, <1>6, RenameFacts, Parts DEF Rename, Failed, Return
<1>7. CASE Flush
  BY <1>0, <1>7, Parts DEF Flush, Flushed, NotDurable, RetryLater, Return, Synced, Placed
<1>8. CASE Reflush
  BY <1>0, <1>8, Parts DEF Reflush, Flushed, NotDurable, RetryLater, Return, Synced, Placed
<1>9. CASE Overwrite
  BY <1>0, <1>9, Parts DEF Overwrite, Return, Placed
<1>10. CASE KeyWiped
  BY <1>0, <1>10, Parts DEF KeyWiped, ToFiles, KeepsFile, Return, Placed
<1>11. CASE ZeroFile
  BY <1>0, <1>11, Parts DEF ZeroFile, history, Placed
<1>12. CASE Unlink
  BY <1>0, <1>12, UnlinkFacts, Parts DEF Unlink, history, Placed
<1>13. CASE WipeTemps
  BY <1>0, <1>13, RemoveTempsFacts, Parts DEF WipeTemps, history, Placed
<1>14. CASE SyncDir
  BY <1>0, <1>14, Parts DEF SyncDir, Return, Synced, Placed
<1> QED BY <1>1, <1>2, <1>3, <1>4, <1>5, <1>6, <1>7, <1>8, <1>9, <1>10, <1>11, <1>12, <1>13,
           <1>14 DEF StoreStep

-----------------------------------------------------------------------------
(***************************************************************************)
(* Records of runs and of attempts.                                        *)
(***************************************************************************)

LEMMA PutsFacts ==
  ASSUME PTypeOK, writes + 1 \in File, NEW phase \in Phases, NEW t \in 0..MaxTries, Puts(phase, t)
  PROVE  /\ content' \in [File -> Records]
         /\ content'[writes + 1].phase = phase /\ content'[writes + 1].try = t
         /\ \A f \in File \ {writes + 1} : content'[f] = content[f]
BY DEF Puts, PTypeOK, Records

LEMMA WhyFacts ==
  ASSUME NEW r \in Runs, NEW w \in Whys
  PROVE  LET s == [r EXCEPT !.why = w] IN
         /\ s \in Runs /\ s.why = w /\ s.try = r.try /\ s.phase = r.phase /\ s.created = r.created
         /\ s.replace = r.replace /\ s.replaced = r.replaced /\ s.gone = r.gone
         /\ s.again = r.again /\ s.left = r.left
BY DEF Runs

LEMMA NoRunType == NoRun \in Runs
BY DEF NoRun, Runs, Whys

LEMMA NotedFacts ==
  ASSUME NEW r \in Runs
  PROVE  LET s == Noted(r) IN
         /\ s \in Runs /\ s.why = r.why /\ s.try = r.try /\ s.phase = r.phase
         /\ s.replace = r.replace /\ s.again = r.again /\ s.left = r.left
         /\ s.created <=> r.created \/ result \in NewFile
         /\ s.replaced <=> r.replaced \/ (r.replace /\ result \in {"saved", "replaced", "notdurable"})
         /\ s.gone <=> r.gone \/ result \in {"partly", "incomplete"}
BY DEF Runs, Noted, NewFile

\* failWipe.
LEMMA FailWipeFacts ==
  ASSUME NEW r \in Runs, FailWipe(r)
  PROVE  /\ run' = r /\ UNCHANGED <<content, disks, confirmed>>
         /\ \/ /\ r.created /\ at' = "wiping" /\ pc' = "wipekey" /\ op' = "wipe" /\ promised' = NoRecord
            \/ ~r.created /\ at' = "over" /\ UNCHANGED <<vars, promised>>
BY WipeFacts DEF FailWipe, NoCall, Goes, Discards, vars, disks, history

-----------------------------------------------------------------------------
(***************************************************************************)
(* Calls that a run makes in several places.                               *)
(***************************************************************************)

\* A save of the attempt under way: the new file continues what was promised.
LEMMA SavingKeeps ==
  ASSUME IInv, IInv', PInv, PTypeOK', Save, NEW phase \in Phases, Puts(phase, run.try),
         run.try # 0, at' \in {"saving", "persisting"},
         run'.try = run.try, run'.phase = phase, run'.created,
         run'.replace => run'.replaced \/ run'.gone,
         promised.try # 0 => /\ promised.try = run.try /\ promised.phase = "waiting"
                             /\ phase \in {"waiting", "paired"},
         UNCHANGED <<tries, start, promised>>
  PROVE  PInv'
<1> USE DEF PInv
<1>1. /\ pc = "open" /\ pc' = "temp" /\ op' = "save" /\ result' = "none"
      /\ writes + 1 \in File /\ UNCHANGED <<pkey, file, dir, disk, writes, confirmed>>
  BY SaveFacts DEF disks
<1>2. /\ content'[writes + 1].phase = phase /\ content'[writes + 1].try = run.try
      /\ \A f \in File \ {writes + 1} : content'[f] = content[f]
  BY <1>1, PutsFacts DEF PTypeOK, Runs
<1>3. Calls' /\ Known' /\ Recorded'
  BY <1>1, <1>2 DEF Calls, Known, Recorded, RecordIs, Begun
<1>4. Numbered'
  BY <1>1, <1>2 DEF Numbered, Phases
<1>5. Promised'
  BY <1>1, <1>2, Parts DEF Promised, Begun, IInv
<1>6. Replacing' /\ NotInPlace' /\ ToldIsSo' /\ NothingIsKept'
  BY DEF Replacing, NotInPlace, ToldIsSo, NothingIsKept
<1> QED BY <1>3, <1>4, <1>5, <1>6

\* failWipe: what is known to be in place is wiped; otherwise nothing is.
LEMMA FailKeeps ==
  ASSUME IInv, IInv', PInv, PTypeOK', NEW r \in Runs, FailWipe(r),
         r.why \in Failure, r.try = run.try, pc = "open",
         r.replace /\ ~r.replaced /\ ~r.gone => AsFound /\ ~r.created,
         ~r.created => \A d \in disk : ~Holds(d, r.try, Phases),
         UNCHANGED <<tries, start>>
  PROVE  PInv'
<1> USE DEF PInv
<1>1. run' = r /\ UNCHANGED <<content, pkey, file, dir, disk, writes, confirmed>>
  BY FailWipeFacts DEF vars, disks, history
<1>2. Numbered'
  BY <1>1 DEF Numbered
<1>3. CASE r.created /\ at' = "wiping" /\ pc' = "wipekey" /\ op' = "wipe" /\ promised' = NoRecord
  <2>1. Calls' /\ Known' /\ Recorded'
    BY <1>1, <1>3 DEF Calls, Known, Recorded, Begun
  <2>2. Promised'
    BY <1>3 DEF Promised, NoRecord
  <2>3. Replacing' /\ NotInPlace' /\ ToldIsSo' /\ NothingIsKept'
    BY <1>1, <1>3 DEF Replacing, NotInPlace, ToldIsSo, NothingIsKept
  <2> QED BY <1>2, <2>1, <2>2, <2>3
<1>4. CASE ~r.created /\ at' = "over" /\ UNCHANGED <<vars, promised>>
  <2> USE <1>1, <1>4 DEF vars, disks, store, history
  <2>1. Calls' /\ Known' /\ Recorded'
    BY DEF Calls, Known, Recorded, Begun
  <2>2. Promised'
    BY DEF Promised, Begun
  <2>3. AsFound' <=> AsFound
    BY DEF AsFound, Opens, Header
  <2>4. Replacing'
    BY <2>3 DEF Replacing
  <2>5. NotInPlace'
    BY DEF NotInPlace, Holds
  <2>6. ToldIsSo'
    BY <2>3 DEF ToldIsSo, SaysKept, AsFound, Failure
  <2>7. NothingIsKept'
    BY Parts DEF NothingIsKept, Holds, Possible, IInv
  <2> QED BY <1>2, <2>1, <2>2, <2>4, <2>5, <2>6, <2>7
<1> QED BY <1>3, <1>4, FailWipeFacts

\* The first write of an attempt: over nothing, or over the file that was found.
LEMMA FirstKeeps ==
  ASSUME IInv, IInv', PInv, PTypeOK', Create \/ CreateReplace,
         Puts("started", run'.try), run'.try # 0, run'.phase = "started", ~run'.created,
         at' = "saving", run'.try <= tries', tries <= tries', UNCHANGED start, promised'.try = 0,
         promised'.phase = "none",
         ~run'.again, \A d \in disk : ~Holds(d, run'.try, Phases),
         run'.replace /\ ~run'.replaced /\ ~run'.gone => CreateReplace /\ AsFound
  PROVE  PInv'
<1> USE DEF PInv
<1>1. /\ pc = "open" /\ result' = "none" /\ writes + 1 \in File
      /\ pc' \in {"oldkey", "wrap"} /\ op' \in {"create", "replace"}
      /\ UNCHANGED <<pkey, file, dir, disk, writes, confirmed>>
  BY CreateFacts, CreateReplaceFacts DEF disks
<1>2. /\ content'[writes + 1].phase = "started" /\ content'[writes + 1].try = run'.try
      /\ \A f \in File \ {writes + 1} : content'[f] = content[f]
  BY <1>1, PutsFacts DEF PTypeOK, Runs, Phases
<1>3. Calls' /\ Known' /\ Recorded' /\ Promised'
  BY <1>1, <1>2 DEF Calls, Known, Recorded, RecordIs, Begun, Promised, Phases
<1>4. Numbered'
  BY <1>1, <1>2 DEF Numbered, PTypeOK, Records
<1>5. Replacing'
  BY <1>1, CreateReplaceFacts DEF Replacing, AsFound
<1>6. NotInPlace'
  BY <1>1, <1>2, Parts DEF NotInPlace, Holds, Named, IInv
<1>7. ToldIsSo' /\ NothingIsKept'
  BY DEF ToldIsSo, NothingIsKept
<1> QED BY <1>3, <1>4, <1>5, <1>6, <1>7

\* A step of a call under way.
LEMMA StoreStepKeeps ==
  ASSUME IInv, IInv', PInv, PTypeOK', StoreStep
  PROVE  PInv'
<1> USE DEF PInv, Unwritten, InWrite, InWipe, NewFile, WipeSteps
<1>1. UNCHANGED <<content, tries, at, run, start, promised, before>>
  BY StoreStepFacts DEF pairing, outside
<1>2. at \in {"saving", "persisting", "wiping", "wipingall"} /\ op \in {"create", "save", "replace", "wipe", "wipeall"}
  BY StoreStepFacts DEF PTypeOK, Ats, Begun, Calls, IInv, Placed, OldSteps, WriteSteps
<1>3. Calls'
  BY <1>1, <1>2, StoreStepFacts DEF Calls
<1>4. Known' /\ Numbered'
  BY <1>1, <1>2, StoreStepFacts DEF Known, Numbered, Begun
<1>5. Recorded'
  BY <1>1, StoreStepFacts DEF Recorded, RecordIs
<1>6. Promised'
  <2>1. CASE promised.try = 0
    BY <1>1, <2>1 DEF Promised
  <2>2. CASE promised.try # 0
    <3>1. /\ op = "save" /\ at \in {"saving", "persisting"}
          /\ confirmed' \in {confirmed, writes} /\ (confirmed' # confirmed => writes' = writes)
          /\ writes \in Nat /\ writes' \in Nat /\ confirmed \in Nat /\ confirmed # 0
      BY <1>2, <2>2, StoreStepFacts, Parts DEF Promised, IInv, TypeOK
    <3>2. writes' # writes => pc = "temp" /\ writes' = writes + 1
      BY <3>1, StoreStepFacts DEF IInv, Placed, OldSteps, WriteSteps
    <3>3. writes' # writes => RecordIs(writes + 1)
      BY <3>1, <3>2 DEF Recorded
    <3>4. confirmed <= writes /\ confirmed' # 0 /\ confirmed' >= confirmed
      <4>1. dir.state >= confirmed /\ dir.state <= writes
        BY <3>1, Parts DEF IInv, SavedSurvives, Possible, Named
      <4> QED BY <3>1, <4>1, Parts DEF IInv
    <3>5. \A f \in File : confirmed' <= f /\ f <= writes' =>
            content[f].try = promised.try /\ content[f].phase \in {promised.phase, "paired"}
      <4> SUFFICES ASSUME NEW f \in File, confirmed' <= f, f <= writes'
                   PROVE  content[f].try = promised.try /\ content[f].phase \in {promised.phase, "paired"}
        OBVIOUS
      <4>1. f \in Nat
        BY Parts DEF IInv
      <4>2. CASE f <= writes
        BY <2>2, <3>1, <3>4, <4>1, <4>2 DEF Promised
      <4>3. CASE f = writes + 1 /\ writes' # writes
        BY <2>2, <3>1, <3>3, <4>3 DEF Promised, RecordIs, Begun
      <4> QED BY <3>1, <3>2, <4>1, <4>2, <4>3
    <3>6. op' \in {"none", "save"}
      BY <3>1, StoreStepFacts
    <3> QED BY <1>1, <2>2, <3>4, <3>5, <3>6 DEF Promised
  <2> QED BY <2>1, <2>2
<1>7. Replacing'
  BY <1>1, <1>2, StoreStepFacts DEF Replacing
<1>8. NotInPlace'
  <2>1. CASE run.created
    BY <1>1, <2>1 DEF NotInPlace
  <2>2. CASE ~run.created /\ pc \in {"flush", "retry", "over"}
    <3>1. at = "saving"
      BY <1>2, <2>2 DEF Known, Calls, IInv, Placed, WriteSteps
    <3> QED BY <1>1, <2>2, <3>1, StoreStepFacts DEF NotInPlace
  <2>3. CASE ~run.created /\ pc \notin {"flush", "retry", "over"} /\ pc' \notin {"flush", "retry", "over"}
    <3>1. \A d \in disk : ~Holds(d, run.try, Phases)
      BY <2>3, StoreStepFacts DEF NotInPlace
    <3>2. \A d \in disk' : ~Holds(d, run.try, Phases)
      BY <2>3, <3>1, StoreStepFacts DEF Holds
    <3> QED BY <1>1, <3>2 DEF NotInPlace, Holds
  <2>4. CASE pc' \in {"flush", "retry", "over"}
    BY <2>4 DEF NotInPlace
  <2> QED BY <2>1, <2>2, <2>3, <2>4
<1>9. ToldIsSo' /\ NothingIsKept'
  BY <1>1, <1>2 DEF ToldIsSo, NothingIsKept
<1> QED BY <1>3, <1>4, <1>5, <1>6, <1>7, <1>8, <1>9

-----------------------------------------------------------------------------
(***************************************************************************)
(* Each action of a run.                                                   *)
(***************************************************************************)

\* The vault decides, or the window ends.
LEMMA ElsewherePreserves ==
  ASSUME IInv, PInv, PTypeOK', Elsewhere
  PROVE  PInv'
<1> USE DEF PInv, Elsewhere, vars, disks, store, history
<1>1. Calls' /\ Known' /\ Numbered' /\ Recorded' /\ Promised'
  BY DEF Calls, Known, Numbered, Recorded, RecordIs, Promised
<1>2. Replacing' /\ NotInPlace' /\ ToldIsSo' /\ NothingIsKept'
  BY DEF Replacing, AsFound, Opens, Header, NotInPlace, Holds, ToldIsSo, SaysKept, Possible,
     OpensAfterLoss, NothingIsKept
<1> QED BY <1>1, <1>2

\* The run goes on, or ends, without a call.
LEMMA QuietPreserves ==
  ASSUME IInv, PInv, PTypeOK', pc = "open", at \in {"begun", "new", "wait", "persisting", "wipingall"},
         at' \in {"new", "over"}, at # "begun" => at' = "over",
         UNCHANGED <<content, tries, disks, pc, op, result, before, confirmed, start, promised>>,
         run'.try = run.try, run'.created = run.created, run'.again = run.again,
         run'.replaced = run.replaced, run'.gone = run.gone,
         run'.replace => run.replace \/ at = "begun",
         run'.why \notin {"paired", "pairedwarned"},
         run'.why \in Failure => at \notin {"wait", "persisting"}
  PROVE  PInv'
<1> USE DEF PInv, disks
<1>1. AsFound' = AsFound
  BY DEF AsFound, Opens, Header
<1>2. Calls' /\ Known' /\ Numbered' /\ Recorded'
  BY DEF Calls, Known, NoRun, Numbered, Recorded, Begun
<1>3. Promised'
  BY DEF Promised, Begun
<1>4. Replacing'
  BY <1>1 DEF Replacing
<1>5. NotInPlace'
  BY DEF NotInPlace, Holds
<1>6. ToldIsSo'
  BY <1>1 DEF ToldIsSo, SaysKept, Replacing, AsFound, Failure
<1>7. NothingIsKept'
  BY Parts DEF NothingIsKept, Known, NoRun, NotInPlace, Holds, Possible, IInv
<1> QED BY <1>2, <1>3, <1>4, <1>5, <1>6, <1>7

LEMMA NoCallPreserves ==
  ASSUME IInv, PInv, PTypeOK', NothingThere \/ Unreadable \/ NotBegun \/ Interrupted
  PROVE  PInv'
<1> USE DEF PInv, NoCall, Goes, Stops, vars, store, history, outside
<1>0. run \in Runs /\ "unreadable" \in Whys /\ "failed" \in Whys /\ "interrupted" \in Whys
  BY DEF PTypeOK, Whys
<1>1. CASE NothingThere
  BY <1>0, <1>1, QuietPreserves DEF NothingThere, Calls, Known, NoRun, Failure
<1>2. CASE Unreadable
  <2>1. CASE Stops("unreadable")
    BY <1>0, <1>2, <2>1, QuietPreserves, WhyFacts DEF Unreadable, Calls, Failure
  <2>2. CASE NoCall /\ Goes("new", [run EXCEPT !.replace = TRUE])
    <3>1. /\ run'.try = run.try /\ run'.created = run.created /\ run'.replaced = run.replaced
          /\ run'.gone = run.gone /\ run'.again = run.again /\ run'.why = "none"
      BY <1>0, <1>2, <2>2 DEF Runs, Unreadable, Known, NoRun
    <3> QED BY <1>2, <2>2, <3>1, QuietPreserves DEF Unreadable, Calls, Failure
  <2> QED BY <1>2, <2>1, <2>2 DEF Unreadable
<1>3. CASE NotBegun
  BY <1>0, <1>3, QuietPreserves, WhyFacts DEF NotBegun, Calls
<1>4. CASE Interrupted
  BY <1>0, <1>4, QuietPreserves, WhyFacts DEF Interrupted, Calls, Failure
<1> QED BY <1>1, <1>2, <1>3, <1>4

\* The file that was found opens.
LEMMA LoadsPreserves ==
  ASSUME IInv, PInv, PTypeOK', AlreadyPaired \/ Replaces
  PROVE  PInv'
<1> USE DEF PInv, Goes, Loads, outside
<1>0. run \in Runs /\ run = NoRun /\ at = "begun" /\ "already" \in Whys
  BY DEF PTypeOK, Whys, Known, AlreadyPaired, Replaces
<1>1. pc = "open" /\ UNCHANGED <<disks, pc, op, confirmed, result, before>>
  BY LoadFacts DEF AlreadyPaired, Replaces
<1>2. CASE AlreadyPaired
  BY <1>0, <1>1, <1>2, QuietPreserves, WhyFacts DEF AlreadyPaired, Failure
<1>3. CASE Replaces
  <2>1. /\ run'.try = run.try /\ run'.created = run.created /\ run'.replaced = run.replaced
        /\ run'.gone = run.gone /\ run'.again = run.again /\ run'.why = "none"
    BY <1>0, <1>3 DEF Runs, Replaces, NoRun
  <2> QED BY <1>0, <1>1, <1>3, <2>1, QuietPreserves DEF Replaces, Failure
<1> QED BY <1>2, <1>3

\* A run begins.
LEMMA StartPreserves ==
  ASSUME IInv, IInv', PInv, PTypeOK', Start
  PROVE  PInv'
<1> USE DEF PInv, Goes, outside
<1>1. /\ pc = "closed" /\ pc' = "open" /\ dir'.state = dir.state /\ disk' \subseteq disk \cup {dir'}
      /\ UNCHANGED <<op, writes, confirmed, result, before, content, tries, promised>>
      /\ at = "none" /\ at' = "begun" /\ run' = NoRun
      /\ start' = [state |-> dir.state, opens |-> Opens(dir.state)]
  BY OpenFacts DEF Start
<1>2. op = "none" /\ op' = "none"
  BY <1>1 DEF IInv, Placed
<1>3. Calls' /\ Known' /\ Recorded' /\ Numbered'
  BY <1>1, <1>2 DEF Calls, Known, Recorded, Numbered, Begun, NoRun, PTypeOK
<1>4. Promised'
  BY <1>1, <1>2 DEF Promised, Begun
<1>5. Opens(dir.state) => Opens(dir.state)'
  <2>1. RemoveTemps /\ UNCHANGED pkey
    BY <1>1 DEF Start, Open
  <2>2. dir.state \notin dir.temps /\ TypeOK
    BY Parts DEF IInv, Named
  <2>3. dir.state # Nothing => dir.state \in File
    BY <2>2, Parts
  <2> QED BY <1>1, <2>1, <2>2, <2>3, RemoveTempsFacts DEF Opens, Header
<1>6. Replacing'
  BY <1>1, <1>5 DEF Replacing, AsFound, NoRun
<1>7. NotInPlace'
  <2>1. \A d \in disk' : d.state = Nothing \/ d.state \in File
    BY <1>1, Parts DEF IInv
  <2>2. \A f \in File : content'[f].try = 0 => content'[f].phase = "none"
    BY <1>1 DEF Numbered
  <2> QED BY <1>1, <2>1, <2>2 DEF NotInPlace, Holds, NoRun, Phases
<1>8. ToldIsSo' /\ NothingIsKept'
  BY <1>1 DEF ToldIsSo, NothingIsKept
<1> QED BY <1>3, <1>4, <1>6, <1>7, <1>8

\* The run is over, or dies.
LEMMA EndPreserves ==
  ASSUME IInv, IInv', PInv, PTypeOK', Ended \/ Dies \/ PowerGoes
  PROVE  PInv'
<1> USE DEF PInv, Goes, outside
<1>1. /\ pc' = "closed" /\ op' = "none" /\ disk' \subseteq disk
      /\ UNCHANGED <<writes, confirmed, before, tries, promised>>
  BY EndFacts DEF Ended, Dies, PowerGoes, pairing
<1>2. at' = "none" /\ (run' = NoRun \/ UNCHANGED run)
  BY DEF Ended, Dies, PowerGoes, pairing
<1>3. /\ \A f \in File : content'[f] = content[f] \/ content'[f] = NoRecord
      /\ \A f \in File : confirmed # Nothing /\ f >= confirmed => content'[f] = content[f]
  <2>1. CASE PowerGoes
    BY <2>1 DEF PowerGoes, pairing
  <2>2. CASE StillRead
    BY <2>2 DEF StillRead
  <2> QED BY <2>1, <2>2 DEF Ended, Dies
<1>4. Calls' /\ Known' /\ Recorded'
  BY <1>1, <1>2 DEF Calls, Known, Recorded, Begun
<1>5. Promised'
  <2>1. \A f \in File : confirmed # Nothing /\ confirmed <= f => content'[f] = content[f]
    BY <1>3, Parts DEF File, IInv
  <2> QED BY <1>1, <1>2, <2>1 DEF Promised, Begun
<1>6. Numbered'
  <2>1. NoRecord.try = 0 /\ NoRecord.phase = "none" /\ tries \in Nat /\ NoRun.try = 0
    BY DEF NoRecord, NoRun, PTypeOK
  <2> QED BY <1>1, <1>2, <1>3, <2>1 DEF Numbered
<1>7. Replacing'
  BY <1>1, <1>2 DEF Replacing, NoRun, PowerGoes, pairing, Ended, Dies
<1>8. NotInPlace'
  <2>1. CASE run' = NoRun
    <3>1. \A d \in disk' : d.state = Nothing \/ d.state \in File
      BY <1>1, Parts DEF IInv
    <3>2. \A f \in File : content'[f].try = 0 => content'[f].phase \notin Phases
      BY <1>6 DEF Numbered, Phases
    <3>3. run'.try = 0
      BY <2>1 DEF NoRun
    <3> QED BY <3>1, <3>2, <3>3 DEF NotInPlace, Holds
  <2>2. CASE UNCHANGED run /\ PowerGoes
    BY <1>1, <2>2 DEF NotInPlace, Holds, PowerGoes, Calls, pairing
  <2> QED BY <1>2, <2>1, <2>2 DEF Ended, Dies
<1>9. ToldIsSo' /\ NothingIsKept'
  BY <1>2 DEF ToldIsSo, NothingIsKept
<1> QED BY <1>4, <1>5, <1>6, <1>7, <1>8, <1>9

\* The attempt's record is saved again.
LEMMA SavesPreserve ==
  ASSUME IInv, IInv', PInv, PTypeOK', NEW phase \in Phases, NEW to \in {"saving", "persisting"},
         Saves(phase, to), at \in {"handshake", "wait", "persisting"},
         phase = "started" => at = "handshake", UNCHANGED <<tries, start, promised>>
  PROVE  PInv'
<1> USE DEF PInv
<1>1. run \in Runs /\ at' = to /\ Save /\ Puts(phase, run.try)
  BY DEF PTypeOK, Saves, Goes
<1>2. /\ run'.try = run.try /\ run'.phase = phase /\ run'.created = run.created
      /\ run'.replace = run.replace /\ run'.replaced = run.replaced /\ run'.gone = run.gone
  BY <1>1 DEF Saves, Goes, Runs
<1>3. run.try # 0 /\ run.created
  BY DEF Known, Begun
<1>4. run.replace => run.replaced \/ run.gone
  BY DEF Replacing
<1>5. promised.try # 0 => /\ promised.try = run.try /\ promised.phase = "waiting"
                          /\ phase \in {"waiting", "paired"}
  BY DEF Promised, Begun, Phases
<1> QED BY <1>1, <1>2, <1>3, <1>4, <1>5, SavingKeeps

LEMMA SavingPreserves ==
  ASSUME IInv, IInv', PInv, PTypeOK', OtherBatch \/ ApprovalArrives \/ FinalSave
  PROVE  PInv'
BY SavesPreserve DEF OtherBatch, ApprovalArrives, FinalSave, Phases, outside

\* The attempt fails.
LEMMA FailsPreserve ==
  ASSUME IInv, IInv', PInv, PTypeOK', NEW why \in Failure,
         Fails(why), at \in {"handshake", "wait", "persisting"}, pc = "open",
         UNCHANGED <<tries, start>>
  PROVE  PInv'
<1> USE DEF PInv
<1>1. run \in Runs /\ why \in Whys
  BY DEF PTypeOK, Failure, Whys
<1>2. run.created
  BY DEF Known
<1>3. run.replace => run.replaced \/ run.gone
  BY DEF Replacing
<1>4. PICK r \in Runs : r = [run EXCEPT !.why = why]
  BY <1>1, WhyFacts
<1>5. FailWipe(r)
  BY <1>4 DEF Fails
<1>6. /\ r.why = why /\ r.try = run.try /\ r.created = run.created
      /\ r.replace = run.replace /\ r.replaced = run.replaced /\ r.gone = run.gone
  BY <1>1, <1>4, WhyFacts
<1> QED BY <1>2, <1>3, <1>5, <1>6, FailKeeps

LEMMA FailingPreserves ==
  ASSUME IInv, IInv', PInv, PTypeOK', HandshakeFails \/ Rejected \/ TimedOut \/ AnswerUnreadable
  PROVE  PInv'
BY FailsPreserve DEF HandshakeFails, Rejected, TimedOut, AnswerUnreadable, Failure, outside, PInv, Calls

LEMMA ExpirePreserves ==
  ASSUME IInv, IInv', PInv, PTypeOK', Expire
  PROVE  PInv'
<1> USE DEF PInv, Expire
<1>1. run \in Runs /\ run.created /\ run.why \in Failure /\ pc = "open"
  BY DEF PTypeOK, Known, Calls
<1>2. run.replace => run.replaced \/ run.gone
  BY DEF Replacing
<1> QED BY <1>1, <1>2, FailKeeps DEF outside

\* The handshake's batch, and the batches that come while the run waits.
LEMMA HandshakePreserves ==
  ASSUME IInv, IInv', PInv, PTypeOK', Handshake
  PROVE  PInv'
<1>1. CASE Saves("started", "persisting") /\ UNCHANGED promised
  BY <1>1, SavesPreserve DEF Handshake, Phases
<1>2. CASE Fails("failed")
  BY <1>2, FailsPreserve DEF Handshake, Failure, PInv, Calls
<1> QED BY <1>1, <1>2 DEF Handshake

LEMMA BatchSavedPreserves ==
  ASSUME IInv, IInv', PInv, PTypeOK', BatchSaved
  PROVE  PInv'
<1> USE DEF outside
<1>1. CASE Saves("waiting", "saving") /\ UNCHANGED promised
  BY <1>1, SavesPreserve DEF BatchSaved, Phases
<1>2. CASE Fails("failed")
  BY <1>2, FailsPreserve DEF BatchSaved, Failure, Idle
<1>3. CASE run.phase = "waiting" /\ NoCall /\ Goes("wait", run) /\ UNCHANGED promised
  <2> USE DEF PInv
  <2>1. /\ at = "persisting" /\ at' = "wait" /\ pc = "open" /\ UNCHANGED <<run, tries, start, promised>>
        /\ UNCHANGED <<content, pc, op, dir, disk, file, pkey, writes, result, confirmed, before>>
    BY <1>3 DEF BatchSaved, Idle, Goes, NoCall, vars, disks, store, history
  <2>2. Calls' /\ Known' /\ Numbered' /\ Recorded'
    BY <2>1 DEF Calls, Known, Numbered, Recorded, Begun
  <2>3. Promised'
    BY <2>1 DEF Promised, Begun
  <2>4. Replacing' /\ NotInPlace' /\ ToldIsSo' /\ NothingIsKept'
    BY <2>1 DEF Replacing, NotInPlace, Known, ToldIsSo, NothingIsKept
  <2> QED BY <2>2, <2>3, <2>4
<1> QED BY <1>1, <1>2, <1>3 DEF BatchSaved

\* The wait goes on with the attempt that was promised.
LEMMA ResumePreserves ==
  ASSUME IInv, IInv', PInv, PTypeOK', Resume
  PROVE  PInv'
<1> USE DEF PInv
<1>1. /\ pc = "open" /\ Opens(dir.state) /\ at = "begun" /\ run = NoRun /\ Found.phase = "waiting"
      /\ UNCHANGED <<disks, pc, op, confirmed, result, before, content, tries, start, promised>>
  BY LoadFacts DEF Resume, Loads, Known, outside
<1>2. dir.state \in File /\ TypeOK
  BY <1>1, Parts DEF IInv, Opens, Header
<1>3. Found.try <= tries /\ Found.try # 0
  BY <1>1, <1>2 DEF Numbered, Found
<1>4. /\ run'.try = Found.try /\ run'.phase = "waiting" /\ run'.created /\ ~run'.replace
      /\ at' = "wait" \/ (at' = "expiring" /\ run'.why = "expired")
  <2> DEFINE r == [run EXCEPT !.try = Found.try, !.phase = "waiting", !.created = TRUE]
  <2>1. /\ r.try = Found.try /\ r.phase = "waiting" /\ r.created /\ ~r.replace
        /\ LET e == [r EXCEPT !.why = "expired"] IN
             /\ e.try = r.try /\ e.phase = r.phase /\ e.created = r.created /\ e.replace = r.replace
             /\ e.why = "expired"
    BY <1>1 DEF NoRun
  <2>2. (at' = "expiring" /\ run' = [r EXCEPT !.why = "expired"]) \/ (at' = "wait" /\ run' = r)
    BY DEF Resume, Goes
  <2> QED BY <2>1, <2>2
<1>5. Calls' /\ Known' /\ Numbered' /\ Recorded'
  BY <1>1, <1>3, <1>4 DEF Calls, Known, Numbered, Recorded, Begun, Phases, Failure
<1>6. Promised'
  <2>1. CASE promised.try = 0
    BY <1>1, <2>1 DEF Promised
  <2>2. CASE promised.try # 0
    <3>1. confirmed # 0 /\ promised.phase \in {"waiting", "paired"}
      BY <2>2 DEF Promised
    <3>2. confirmed <= dir.state /\ dir.state <= writes
      BY <1>2, <3>1, Parts DEF IInv, SavedSurvives, Possible, Named
    <3>3. Found.try = promised.try /\ Found.phase \in {promised.phase, "paired"}
      BY <1>2, <2>2, <3>2 DEF Promised, Found
    <3> QED BY <1>1, <1>4, <2>2, <3>1, <3>3 DEF Promised, disks
  <2> QED BY <2>1, <2>2
<1>7. Replacing' /\ NotInPlace' /\ ToldIsSo' /\ NothingIsKept'
  BY <1>4 DEF Replacing, NotInPlace, ToldIsSo, NothingIsKept
<1> QED BY <1>5, <1>6, <1>7

\* The first write of an attempt begins.
LEMMA FirstWritePreserves ==
  ASSUME IInv, IInv', PInv, PTypeOK', FirstWrite
  PROVE  PInv'
<1> USE DEF PInv, FirstWrite
<1>1. /\ at = "new" /\ tries \in Nat /\ tries' = tries + 1 /\ run \in Runs /\ pc = "open"
      /\ promised'.try = 0 /\ promised'.phase = "none" /\ UNCHANGED start
      /\ ~run.created /\ ~run.replaced /\ ~run.gone /\ ~run.again
  BY DEF PTypeOK, Discards, NoRecord, Known, Calls
<1>2. \A d \in disk : ~Holds(d, tries + 1, Phases)
  <2>1. \A d \in disk : d.state = Nothing \/ d.state \in File
    BY Parts DEF IInv
  <2>2. \A f \in File : content[f].try \in Nat /\ content[f].try <= tries
    BY DEF Numbered, PTypeOK, Records
  <2> QED BY <1>1, <2>1, <2>2 DEF Holds
<1>3. run.replace => AsFound
  BY <1>1 DEF Replacing
<1> DEFINE r == [run EXCEPT !.try = tries + 1, !.phase = "started"]
<1>4. /\ r.try = tries + 1 /\ r.phase = "started" /\ ~r.created /\ r.replace = run.replace
      /\ ~r.replaced /\ ~r.gone /\ ~r.again
      /\ LET g == [r EXCEPT !.gone = TRUE] IN
           g.try = tries + 1 /\ g.phase = "started" /\ ~g.created /\ g.gone /\ ~g.again
  BY <1>1 DEF Runs
<1>5. CASE (Create \/ (CreateReplace /\ run.replace)) /\ Puts("started", r.try) /\ Goes("saving", r)
           /\ (run.replace => CreateReplace)
  <2>1. run' = r /\ at' = "saving" /\ Puts("started", run'.try)
    BY <1>5 DEF Goes
  <2> HIDE DEF r
  <2> QED BY <1>1, <1>2, <1>3, <1>4, <1>5, <2>1, FirstKeeps
<1>6. CASE WipeAll /\ Goes("wipingall", [r EXCEPT !.gone = TRUE]) /\ UNCHANGED content
  <2>1. /\ pc' = "wipekey" /\ op' = "wipeall" /\ at' = "wipingall"
        /\ UNCHANGED <<content, dir, disk, writes, confirmed>>
        /\ run'.try = tries + 1 /\ run'.phase = "started" /\ ~run'.created /\ run'.gone /\ ~run'.again
    BY <1>4, <1>6, WipeAllFacts DEF Goes, disks
  <2>2. Calls' /\ Known' /\ Recorded' /\ Promised'
    BY <1>1, <2>1 DEF Calls, Known, Recorded, Promised, Begun
  <2>3. Numbered'
    BY <1>1, <2>1 DEF Numbered, PTypeOK, Records
  <2>4. NotInPlace'
    BY <1>2, <2>1 DEF NotInPlace, Holds
  <2>5. Replacing' /\ ToldIsSo' /\ NothingIsKept'
    BY <2>1 DEF Replacing, ToldIsSo, NothingIsKept
  <2> QED BY <2>2, <2>3, <2>4, <2>5
<1> QED BY <1>5, <1>6

\* What there was is wiped: the first write begins over nothing.
LEMMA CreateAfterWipeAllPreserves ==
  ASSUME IInv, IInv', PInv, PTypeOK', CreateAfterWipeAll
  PROVE  PInv'
<1> USE DEF PInv, CreateAfterWipeAll, outside
<1>1. /\ at = "wipingall" /\ pc = "open" /\ run \in Runs /\ tries \in Nat
      /\ run.try # 0 /\ run.phase = "started" /\ ~run.created /\ run.gone /\ ~run.again
      /\ run.try <= tries /\ UNCHANGED <<tries, start, promised>>
  BY DEF Idle, PTypeOK, Known, Numbered
<1>2. promised.try = 0 /\ promised.phase = "none"
  BY <1>1 DEF Promised
<1>3. \A d \in disk : ~Holds(d, run.try, Phases)
  BY <1>1 DEF NotInPlace
<1>4. CASE Create /\ Puts("started", run.try) /\ Goes("saving", run)
  BY <1>1, <1>2, <1>3, <1>4, FirstKeeps DEF Goes
<1>5. CASE Stops("failed")
  BY <1>1, <1>5, QuietPreserves, WhyFacts DEF Stops, NoCall, Goes, Whys, vars, store, history
<1> QED BY <1>4, <1>5

\* The state of the attempt is wiped, or could not be.
LEMMA WipedPreserves ==
  ASSUME IInv, IInv', PInv, PTypeOK', Wiped
  PROVE  PInv'
<1> USE DEF PInv, Wiped
<1>1. /\ at = "wiping" /\ at' = "over" /\ pc = "open" /\ run \in Runs /\ run.created
      /\ run.why \in Failure /\ op = "none"
      /\ UNCHANGED <<content, tries, start, promised, pc, op, dir, disk, writes, confirmed>>
  BY DEF Idle, PTypeOK, Known, NoCall, Goes, vars, disks, store, history, outside, IInv, Placed
<1>2. /\ run'.try = run.try /\ run'.why = run.why /\ run'.replace = run.replace
      /\ run'.replaced = run.replaced /\ run'.gone = run.gone
      /\ run'.left = (result # "wiped") /\ run'.created = (result # "wiped")
  BY <1>1 DEF Runs, Goes
<1>3. run.replace => run.replaced \/ run.gone
  BY <1>1 DEF Replacing
<1>4. promised.try = 0 /\ promised.phase = "none"
  BY <1>1 DEF Promised
<1>5. result = "wiped" => \A d \in disk \cup {dir} : ~Holds(d, run.try, Phases)
  BY DEF IInv, WipedIsGone, Possible, Empty, Holds
<1>6. Calls' /\ Known' /\ Numbered' /\ Recorded' /\ Promised'
  BY <1>1, <1>2, <1>4 DEF Calls, Known, Numbered, Recorded, Promised, Begun
<1>7. Replacing'
  BY <1>1, <1>2, <1>3 DEF Replacing
<1>8. NotInPlace' /\ NothingIsKept'
  BY <1>1, <1>2, <1>5 DEF NotInPlace, NothingIsKept, Holds, Possible
<1>9. ToldIsSo'
  BY <1>1, <1>2, <1>3 DEF ToldIsSo, SaysKept, Failure
<1> QED BY <1>6, <1>7, <1>8, <1>9

\* What a save that returned says of the file in place.
LEMMA ReturnedFacts ==
  ASSUME IInv, PInv, at \in {"saving", "persisting"}, pc = "open", result \in NewFile
  PROVE  /\ dir.state = writes /\ Opens(dir.state) /\ op = "none"
         /\ Holds(dir, run.try, {run.phase}) /\ RecordIs(writes)
         /\ result # "notdurable" =>
              /\ confirmed = writes /\ confirmed # 0
              /\ \A d \in Possible : d.state = writes /\ OpensAfterLoss(d.state) /\ Holds(d, run.try, {run.phase})
<1> USE DEF PInv, NewFile
<1>1. dir.state = writes /\ Opens(dir.state) /\ (result # "notdurable" => confirmed = writes)
  BY DEF IInv, ReplaceSays
<1>2. writes # 0 /\ op = "none"
  BY <1>1 DEF Opens, Header, IInv, Placed
<1>3. RecordIs(writes)
  BY DEF Recorded
<1>4. ASSUME confirmed = writes
      PROVE  \A d \in Possible : d.state = writes /\ OpensAfterLoss(d.state)
  BY <1>2, <1>4, Parts DEF IInv, SavedSurvives, Possible, Named
<1> QED BY <1>1, <1>2, <1>3, <1>4 DEF Holds, RecordIs

\* The run has its own file in place, and goes on, or is over.
LEMMA InPlacePreserves ==
  ASSUME IInv, PInv, PTypeOK', at \in {"saving", "persisting"}, pc = "open", result \in NewFile,
         at' \in {"handshake", "wait", "over"}, at' = "handshake" => run.phase = "started",
         at' = "wait" => run.phase = "waiting",
         at' = "over" => run'.why \notin Failure, run'.created, run'.replace => run'.replaced \/ run'.gone,
         run'.try = run.try, run'.phase = run.phase,
         at' = "over" /\ run'.why \in {"paired", "pairedwarned"} => run.phase = "paired",
         at' = "over" /\ run'.why = "paired" => result # "notdurable",
         \/ UNCHANGED promised
         \/ /\ result # "notdurable" /\ promised'.try = run.try /\ promised'.phase = run.phase
            /\ at' = "wait" \/ (at' = "over" /\ run.phase = "paired"),
         UNCHANGED <<content, tries, disks, pc, op, result, confirmed, before, start>>
  PROVE  PInv'
<1> USE DEF PInv, disks
<1>1. run.try # 0 /\ run.phase \in Phases
  BY DEF Known, Begun
<1>2. Calls' /\ Known' /\ Numbered' /\ Recorded'
  BY <1>1 DEF Calls, Known, Numbered, Recorded, Begun
<1>3. Promised'
  <2>1. CASE UNCHANGED promised
    BY <2>1 DEF Promised, Begun
  <2>2. CASE /\ result # "notdurable" /\ promised'.try = run.try /\ promised'.phase = run.phase
             /\ at' = "wait" \/ (at' = "over" /\ run.phase = "paired")
    <3>1. /\ confirmed = writes /\ confirmed # 0 /\ op = "none" /\ RecordIs(writes) /\ writes \in Nat
      BY <2>2, ReturnedFacts, Parts DEF IInv
    <3>2. \A f \in File : confirmed <= f /\ f <= writes => f = writes
      BY <3>1, Parts DEF IInv
    <3> QED BY <1>1, <2>2, <3>1, <3>2 DEF Promised, RecordIs, Begun
  <2> QED BY <2>1, <2>2
<1>4. Replacing' /\ NotInPlace' /\ NothingIsKept'
  BY DEF Replacing, NotInPlace, NothingIsKept
<1>5. ToldIsSo'
  BY ReturnedFacts DEF ToldIsSo, SaysKept, Holds, Possible, Opens, OpensAfterLoss, Header
<1> QED BY <1>2, <1>3, <1>4, <1>5

\* A save returns.
LEMMA SaveReturnsPreserves ==
  ASSUME IInv, IInv', PInv, PTypeOK', SaveReturns
  PROVE  PInv'
<1> USE DEF PInv, SaveReturns, outside
<1>1. /\ at = "saving" /\ pc = "open" /\ run \in Runs /\ (result = "notdurable" => run.again)
      /\ "failed" \in Whys /\ "paired" \in Whys /\ "pairedwarned" \in Whys /\ run.phase \in Phases
      /\ UNCHANGED <<tries, start>>
  BY DEF Idle, PTypeOK, Whys, Known, Begun
<1>2. PICK n \in Runs : /\ n = Noted(run) /\ n.why = run.why /\ n.try = run.try /\ n.phase = run.phase
                        /\ n.replace = run.replace /\ n.again = run.again
                        /\ n.created = (run.created \/ result \in NewFile)
                        /\ n.replaced = (run.replaced \/ (run.replace /\ result \in {"saved", "replaced", "notdurable"}))
                        /\ n.gone = (run.gone \/ result \in {"partly", "incomplete"})
  BY <1>1, NotedFacts DEF Runs
<1>3. run.phase # "started" => run.created /\ (run.replace => run.replaced \/ run.gone)
  BY <1>1 DEF Known, Replacing
<1>4. run.replace /\ ~run.replaced /\ ~run.gone /\ result \notin NewFile \cup {"incomplete"} => AsFound
  BY <1>1 DEF Replacing, AsFound, IInv, ReplaceSays, Placed, NewFile
<1>5. CASE Durable
  <2>0. NoCall /\ result \in NewFile /\ result # "notdurable"
    BY <1>5 DEF Durable, NewFile
  <2>1. UNCHANGED <<content, tries, disks, pc, op, result, confirmed, before, start>>
    BY <1>1, <2>0 DEF NoCall, vars, store, history
  <2>2. CASE run.phase = "started"
    <3>1. at' = "handshake" /\ run' = n /\ UNCHANGED promised
      BY <1>2, <1>5, <2>2 DEF Goes
    <3>2. n.created /\ (n.replace => n.replaced)
      BY <1>1, <1>2, <1>5 DEF Durable, NewFile
    <3> QED BY <1>1, <1>2, <2>0, <2>1, <2>2, <3>1, <3>2, InPlacePreserves
  <2>3. CASE run.phase = "waiting"
    <3>1. at' = "wait" /\ run' = run /\ promised' = [phase |-> "waiting", try |-> run.try]
      BY <1>5, <2>3 DEF Goes
    <3> QED BY <1>1, <1>3, <2>0, <2>1, <2>3, <3>1, InPlacePreserves
  <2>4. CASE run.phase = "paired"
    <3>1. at' = "over" /\ run' = [run EXCEPT !.why = "paired"] /\ UNCHANGED promised
      BY <1>5, <2>4 DEF Goes
    <3> QED BY <1>1, <1>3, <2>0, <2>1, <2>4, <3>1, WhyFacts, InPlacePreserves DEF Failure
  <2> QED BY <1>1, <2>2, <2>3, <2>4 DEF Phases
<1>6. CASE ~Durable /\ run.phase = "paired" /\ result = "notdurable"
  <2>1. /\ Stops("pairedwarned") /\ UNCHANGED promised
    BY <1>6
  <2>2. /\ at' = "over" /\ run' = [run EXCEPT !.why = "pairedwarned"]
        /\ UNCHANGED <<content, tries, disks, pc, op, result, confirmed, before, start>>
    BY <1>1, <2>1 DEF Stops, Goes, NoCall, vars, store, history
  <2> QED BY <1>1, <1>3, <1>6, <2>1, <2>2, WhyFacts, InPlacePreserves DEF Failure, NewFile
<1>7. CASE ~Durable /\ ~(run.phase = "paired" /\ result = "notdurable")
  <2>1. PICK r \in Runs : r = [n EXCEPT !.why = "failed"]
    BY <1>1, WhyFacts
  <2>2. FailWipe(r)
    BY <1>2, <1>7, <2>1
  <2>3. /\ r.why = "failed" /\ r.try = n.try /\ r.created = n.created /\ r.replace = n.replace
        /\ r.replaced = n.replaced /\ r.gone = n.gone
    BY <1>1, <2>1, WhyFacts
  <2>4. r.replace /\ ~r.replaced /\ ~r.gone => AsFound /\ ~r.created
    BY <1>1, <1>2, <1>4, <1>7, <2>3 DEF NewFile, Durable, Replacing
  <2>5. ~r.created => \A d \in disk : ~Holds(d, r.try, Phases)
    BY <1>1, <1>2, <2>3 DEF NotInPlace, NewFile
  <2> QED BY <1>1, <1>2, <2>2, <2>3, <2>4, <2>5, FailKeeps DEF Failure
<1> QED BY <1>5, <1>6, <1>7

\* In place and not flushed: saved once more.
LEMMA SaveOnceMorePreserves ==
  ASSUME IInv, IInv', PInv, PTypeOK', SaveOnceMore
  PROVE  PInv'
<1> USE DEF PInv, SaveOnceMore, outside
<1>1. /\ at = "saving" /\ run \in Runs /\ result = "notdurable" /\ run.phase \in Phases /\ run.try # 0
  BY DEF PTypeOK, Known, Begun
<1>2. PICK n \in Runs : /\ n = Noted(run) /\ n.try = run.try /\ n.phase = run.phase /\ n.replace = run.replace
                        /\ n.created /\ (n.replace => n.replaced)
  BY <1>1, NotedFacts DEF Runs, NewFile
<1>3. run' = [n EXCEPT !.again = TRUE] /\ at' = "saving"
  BY <1>2 DEF Goes
<1>4. run'.try = run.try /\ run'.phase = run.phase /\ run'.created /\ (run'.replace => run'.replaced)
  BY <1>2, <1>3 DEF Runs
<1>5. promised.try # 0 => /\ promised.try = run.try /\ promised.phase = "waiting"
                          /\ run.phase \in {"waiting", "paired"}
  BY <1>1 DEF Promised, Begun
<1> QED BY <1>1, <1>3, <1>4, <1>5, SavingKeeps

\* device.paired is saved, and acknowledged or not.
LEMMA AcknowledgedPreserves ==
  ASSUME IInv, IInv', PInv, PTypeOK', Acknowledged
  PROVE  PInv'
<1> USE DEF PInv, Acknowledged
<1>1. /\ at = "persisting" /\ pc = "open" /\ run.phase = "paired" /\ result = "saved" /\ run \in Runs
      /\ run.created /\ (run.replace => run.replaced \/ run.gone) /\ "paired" \in Whys
  BY DEF Idle, PTypeOK, MayAck, Known, Replacing, Whys
<1>2. /\ at' = "over" /\ run' = [run EXCEPT !.why = "paired"]
      /\ UNCHANGED <<content, tries, disks, pc, op, result, confirmed, before, start>>
      /\ promised' = [phase |-> "paired", try |-> run.try] \/ UNCHANGED promised
  BY DEF NoCall, Goes, vars, store, history
<1> QED BY <1>1, <1>2, WhyFacts, InPlacePreserves DEF Failure, NewFile

\* Its wait ended with an error: what was saved stays, or is deleted.
LEMMA DecidedTooLatePreserves ==
  ASSUME IInv, IInv', PInv, PTypeOK', DecidedTooLate
  PROVE  PInv'
<1> USE DEF DecidedTooLate
<1>1. /\ at = "persisting" /\ pc = "open" /\ run.phase = "paired" /\ run \in Runs /\ "interrupted" \in Whys
      /\ run.created /\ (run.replace => run.replaced \/ run.gone) /\ UNCHANGED <<tries, start>>
  BY DEF PInv, Idle, PTypeOK, Known, Replacing, Whys
<1>2. CASE Stops("interrupted") /\ (UNCHANGED promised \/ (MayAck /\ promised' = [phase |-> "paired", try |-> run.try]))
  <2>1. /\ at' = "over" /\ run' = [run EXCEPT !.why = "interrupted"]
        /\ UNCHANGED <<content, tries, disks, pc, op, result, confirmed, before, start>>
    BY <1>1, <1>2 DEF Stops, NoCall, Goes, vars, store, history
  <2>2. CASE UNCHANGED promised
    BY <1>1, <2>1, <2>2, QuietPreserves, WhyFacts DEF PInv, Calls, Failure
  <2>3. CASE MayAck /\ promised' = [phase |-> "paired", try |-> run.try]
    BY <1>1, <2>1, <2>3, WhyFacts, InPlacePreserves DEF PInv, MayAck, Failure, NewFile
  <2> QED BY <1>2, <2>2, <2>3
<1>3. CASE Fails(IF run.try \in over THEN "expired" ELSE "failed")
  BY <1>1, <1>3, FailsPreserve DEF Failure
<1> QED BY <1>2, <1>3

-----------------------------------------------------------------------------
(***************************************************************************)
(* The types.                                                              *)
(***************************************************************************)

\* What is put in a file, and what a run becomes, has its type.
LEMMA PutsTypes ==
  ASSUME IInv, PTypeOK, Create \/ CreateReplace \/ Save,
         NEW phase \in Phases, NEW t \in 0..MaxTries, Puts(phase, t)
  PROVE  content' \in [File -> Records]
BY CreateFacts, CreateReplaceFacts, SaveFacts, PutsFacts

LEMMA FailsTypes ==
  ASSUME PTypeOK, NEW r \in Runs, FailWipe(r)
  PROVE  at' \in Ats /\ run' \in Runs /\ content' = content /\ promised' \in Records
BY FailWipeFacts DEF PTypeOK, Ats, NoRecord, Records

LEMMA SavesTypes ==
  ASSUME IInv, PTypeOK, NEW phase \in Phases, NEW to \in Ats, Saves(phase, to)
  PROVE  at' \in Ats /\ run' \in Runs /\ content' \in [File -> Records]
<1>1. run \in Runs /\ run.try \in 0..MaxTries
  BY DEF PTypeOK, Runs
<1> QED BY <1>1, PutsTypes DEF Saves, Goes, Runs

LEMMA RecordTypes ==
  ASSUME NEW phase \in Phases \cup {"none"}, NEW t \in 0..MaxTries
  PROVE  [phase |-> phase, try |-> t] \in Records
BY DEF Records

LEMMA TypesKept ==
  ASSUME IInv, IInv', PInv, PairingNext
  PROVE  PTypeOK'
<1> USE DEF Goes, outside
<1>0. /\ content \in [File -> Records] /\ tries \in 0..MaxTries /\ at \in Ats /\ run \in Runs
      /\ start \in Before /\ promised \in Records /\ NoRun \in Runs /\ NoRecord \in Records
      /\ run.try \in 0..MaxTries /\ PTypeOK
  BY NoRunType DEF PInv, PTypeOK, NoRecord, Records, Runs
<1>a. \A w \in Whys : [run EXCEPT !.why = w] \in Runs
  BY <1>0, WhyFacts
<1>b. /\ [run EXCEPT !.why = "unreadable"] \in Runs /\ [run EXCEPT !.why = "failed"] \in Runs
      /\ [run EXCEPT !.why = "interrupted"] \in Runs /\ [run EXCEPT !.why = "already"] \in Runs
      /\ [run EXCEPT !.why = "paired"] \in Runs /\ [run EXCEPT !.why = "pairedwarned"] \in Runs
  BY <1>a DEF Whys
<1>c. [run EXCEPT !.replace = TRUE] \in Runs
  BY <1>0 DEF Runs
<1>d. ASSUME NEW w \in Failure, Fails(w)
      PROVE  at' \in Ats /\ run' \in Runs /\ content' = content /\ promised' \in Records
  <2>1. PICK r \in Runs : r = [run EXCEPT !.why = w]
    BY <1>a DEF Failure, Whys
  <2> QED BY <1>0, <1>d, <2>1, FailsTypes DEF Fails
<1>1. ASSUME NEW t \in Try, VaultDecides(t) \/ WindowEnds(t)
      PROVE  PTypeOK'
  BY <1>0, <1>1 DEF VaultDecides, WindowEnds, Elsewhere, PTypeOK
<1>2. CASE Start
  <2>1. start' \in Before
    BY <1>2, Parts DEF Start, Before, IInv, Opens, Header
  <2> QED BY <1>0, <1>2, <2>1 DEF Start, PTypeOK, Ats
<1>3. CASE NothingThere \/ Unreadable \/ NotBegun \/ Interrupted
  <2>1. /\ at' \in {"new", "over"} /\ run' \in Runs
    BY <1>0, <1>b, <1>c, <1>3 DEF NothingThere, Unreadable, NotBegun, Interrupted, Stops
  <2> QED BY <1>0, <1>3, <2>1 DEF NothingThere, Unreadable, NotBegun, Interrupted, Stops, NoCall, PTypeOK, Ats
<1>4. CASE AlreadyPaired \/ Replaces
  BY <1>0, <1>b, <1>c, <1>4 DEF AlreadyPaired, Replaces, Loads, PTypeOK, Ats
<1>5. CASE Resume
  <2>1. Found \in Records
    <3>1. dir.state \in File
      BY <1>5, LoadFacts, Parts DEF Resume, Loads, Opens, Header, IInv
    <3> QED BY <1>0, <3>1 DEF Found
  <2> DEFINE r == [run EXCEPT !.try = Found.try, !.phase = "waiting", !.created = TRUE]
  <2>2. r \in Runs
    BY <1>0, <2>1 DEF Records, Runs, Phases
  <2>3. [r EXCEPT !.why = "expired"] \in Runs
    BY <2>2, WhyFacts DEF Whys
  <2>4. run' \in Runs /\ at' \in Ats
    BY <1>5, <2>2, <2>3 DEF Resume, Ats, Begun
  <2> QED BY <1>0, <1>5, <2>4 DEF Resume, Loads, PTypeOK
<1>6. CASE Expire
  BY <1>0, <1>6, FailsTypes DEF Expire, PTypeOK
<1>7. CASE FirstWrite
  <2> DEFINE r == [run EXCEPT !.try = tries + 1, !.phase = "started"]
  <2>1. tries + 1 \in 0..MaxTries
    BY <1>0, <1>7 DEF FirstWrite
  <2>2. r \in Runs /\ r.try = tries + 1 /\ [r EXCEPT !.gone = TRUE] \in Runs
    BY <1>0, <2>1 DEF Runs, Phases
  <2>3. /\ run' \in Runs /\ at' \in {"saving", "wipingall"} /\ tries' = tries + 1 /\ promised' = NoRecord
        /\ UNCHANGED start
        /\ ((Create \/ CreateReplace) /\ Puts("started", r.try)) \/ UNCHANGED content
    BY <1>7, <2>2 DEF FirstWrite, Discards
  <2> HIDE DEF r
  <2>4. content' \in [File -> Records]
    BY <1>0, <2>1, <2>2, <2>3, PutsTypes DEF Phases
  <2> QED BY <1>0, <2>1, <2>3, <2>4 DEF PTypeOK, Ats, Begun
<1>8. CASE CreateAfterWipeAll
  BY <1>0, <1>b, <1>8, PutsTypes DEF CreateAfterWipeAll, Stops, NoCall, PTypeOK, Ats, Begun, Phases
<1>9. CASE SaveOnceMore
  <2>1. PICK n \in Runs : n = Noted(run)
    BY <1>0, NotedFacts
  <2>2. run' \in Runs /\ at' = "saving" /\ UNCHANGED <<tries, start, promised>>
    BY <1>9, <2>1 DEF SaveOnceMore, Runs
  <2>3. run.phase \in Phases
    BY <1>9 DEF SaveOnceMore, PInv, Known, Begun
  <2> QED BY <1>0, <1>9, <2>2, <2>3, PutsTypes DEF SaveOnceMore, PTypeOK, Ats, Begun
<1>10. CASE SaveReturns
  <2>1. PICK n \in Runs : n = Noted(run)
    BY <1>0, NotedFacts
  <2>2. [n EXCEPT !.why = "failed"] \in Runs
    BY <2>1, WhyFacts DEF Whys
  <2>3. run.phase \in Phases /\ UNCHANGED <<tries, start>>
    BY <1>10 DEF SaveReturns, PInv, Known, Begun
  <2>4. CASE FailWipe([Noted(run) EXCEPT !.why = "failed"])
    BY <1>0, <2>1, <2>2, <2>3, <2>4, FailsTypes DEF PTypeOK
  <2>5. CASE Stops("pairedwarned") /\ UNCHANGED promised
    BY <1>0, <1>b, <2>3, <2>5 DEF Stops, NoCall, PTypeOK, Ats
  <2>6. CASE Durable
    <3>1. NoCall /\ at' \in Ats /\ run' \in {n, run, [run EXCEPT !.why = "paired"]}
      BY <1>10, <2>1, <2>3, <2>6 DEF SaveReturns, Ats, Begun, Phases
    <3>2. promised' = promised \/ promised' = [phase |-> "waiting", try |-> run.try]
      BY <1>10, <2>3, <2>6 DEF SaveReturns, Phases
    <3>3. promised' \in Records
      BY <1>0, <3>2, RecordTypes DEF Phases
    <3> QED BY <1>0, <1>b, <2>1, <2>3, <3>1, <3>3 DEF NoCall, PTypeOK
  <2> QED BY <1>10, <2>4, <2>5, <2>6 DEF SaveReturns
<1>11. CASE Handshake \/ BatchSaved
  <2>1. CASE UNCHANGED promised /\ \E phase \in {"started", "waiting"}, to \in {"persisting", "saving"} : Saves(phase, to)
    BY <1>0, <1>11, <2>1, SavesTypes DEF Handshake, BatchSaved, PTypeOK, Ats, Begun, Phases
  <2>2. CASE Fails("failed")
    BY <1>0, <1>11, <1>d, <2>2 DEF Handshake, BatchSaved, PTypeOK, Failure
  <2>3. CASE NoCall /\ at' = "wait" /\ run' = run /\ UNCHANGED promised
    BY <1>0, <1>11, <2>3 DEF Handshake, BatchSaved, NoCall, PTypeOK, Ats, Begun
  <2> QED BY <1>11, <2>1, <2>2, <2>3 DEF Handshake, BatchSaved
<1>12. CASE OtherBatch \/ ApprovalArrives \/ FinalSave
  BY <1>0, <1>12, SavesTypes DEF OtherBatch, ApprovalArrives, FinalSave, PTypeOK, Ats, Begun, Phases
<1>13. CASE HandshakeFails \/ Rejected \/ TimedOut \/ AnswerUnreadable
  BY <1>0, <1>d, <1>13 DEF HandshakeFails, Rejected, TimedOut, AnswerUnreadable, PTypeOK, Failure
<1>14. CASE Acknowledged
  BY <1>0, <1>b, <1>14, RecordTypes DEF Acknowledged, NoCall, PTypeOK, Ats, Phases
<1>c2. CASE DecidedTooLate
  <2>1. CASE Stops("interrupted") /\ (UNCHANGED promised \/ promised' = [phase |-> "paired", try |-> run.try])
    <3>1. promised' \in Records
      BY <1>0, <1>c2, <2>1, RecordTypes DEF DecidedTooLate, Phases
    <3> QED BY <1>0, <1>b, <1>c2, <2>1, <3>1 DEF DecidedTooLate, Stops, NoCall, PTypeOK, Ats
  <2>2. CASE Fails("expired") \/ Fails("failed")
    BY <1>0, <1>d, <1>c2, <2>2 DEF DecidedTooLate, PTypeOK, Failure
  <2> QED BY <1>c2, <2>1, <2>2 DEF DecidedTooLate
<1>15. CASE Wiped
  <2>1. [run EXCEPT !.left = result # "wiped", !.created = @ /\ result # "wiped"] \in Runs
    BY <1>0 DEF Runs
  <2> QED BY <1>0, <1>15, <2>1 DEF Wiped, NoCall, PTypeOK, Ats
<1>16. CASE Ended \/ Dies
  <2>1. Unseen \in Before
    BY DEF Unseen, Before
  <2>2. content' \in [File -> Records]
    BY <1>0, <1>16 DEF Ended, Dies, StillRead, Records, NoRecord
  <2> QED BY <1>0, <1>16, <2>1, <2>2 DEF Ended, Dies, PTypeOK, Ats
<1>17. CASE PowerGoes \/ StoreStep
  BY <1>0, <1>17 DEF PowerGoes, StoreStep, pairing, PTypeOK
<1> QED BY <1>1, <1>2, <1>3, <1>4, <1>5, <1>6, <1>7, <1>8, <1>9, <1>10, <1>11, <1>12, <1>13, <1>14,
           <1>c2, <1>15, <1>16, <1>17 DEF PairingNext

-----------------------------------------------------------------------------
(***************************************************************************)
(* The theorems.                                                           *)
(***************************************************************************)

\* What a run does to the Store is what the Store does.
LEMMA RunUsesTheStore ==
  ASSUME PairingNext
  PROVE  [Next]_vars
<1> USE DEF Next, StoreNext, NoCall, Stops, Saves, Fails, FailWipe, Loads, pairing
<1>1. CASE \/ \E t \in Try : VaultDecides(t) \/ WindowEnds(t)
           \/ NothingThere \/ Unreadable \/ NotBegun \/ Acknowledged \/ Interrupted \/ Wiped
  BY <1>1 DEF VaultDecides, WindowEnds, Elsewhere, NothingThere, Unreadable, NotBegun, Acknowledged,
     Interrupted, Wiped
<1>2. CASE Start \/ AlreadyPaired \/ Resume \/ Replaces
  BY <1>2 DEF Start, AlreadyPaired, Resume, Replaces
<1>3. CASE FirstWrite \/ CreateAfterWipeAll \/ SaveOnceMore \/ OtherBatch \/ ApprovalArrives \/ FinalSave
  BY <1>3 DEF FirstWrite, CreateAfterWipeAll, SaveOnceMore, OtherBatch, ApprovalArrives, FinalSave
<1>4. CASE Expire \/ HandshakeFails \/ Rejected \/ TimedOut \/ AnswerUnreadable \/ Handshake \/ BatchSaved
  BY <1>4 DEF Expire, HandshakeFails, Rejected, TimedOut, AnswerUnreadable, Handshake, BatchSaved
<1>5. CASE SaveReturns
  BY <1>5 DEF SaveReturns
<1>6. CASE Ended \/ Dies \/ PowerGoes \/ StoreStep
  BY <1>6 DEF Ended, Dies, PowerGoes, StoreStep
<1>7. CASE DecidedTooLate
  BY <1>7 DEF DecidedTooLate
<1> QED BY <1>1, <1>2, <1>3, <1>4, <1>5, <1>6, <1>7 DEF PairingNext

LEMMA PairingStepKeeps ==
  ASSUME IInv, PInv, [PairingNext]_allvars
  PROVE  IInv' /\ PInv'
<1>1. CASE PairingNext
  <2>1. IInv'
    BY <1>1, RunUsesTheStore, StepKeeps
  <2>2. PTypeOK'
    BY <1>1, <2>1, TypesKept
  <2>3. ASSUME NEW t \in Try, VaultDecides(t) \/ WindowEnds(t)
        PROVE  PInv'
    BY <2>2, <2>3, ElsewherePreserves DEF VaultDecides, WindowEnds
  <2> QED BY <1>1, <2>1, <2>2, <2>3, NoCallPreserves, LoadsPreserves, StartPreserves, EndPreserves,
             SavingPreserves, FailingPreserves, ExpirePreserves, HandshakePreserves, BatchSavedPreserves,
             ResumePreserves, FirstWritePreserves, CreateAfterWipeAllPreserves, WipedPreserves,
             SaveReturnsPreserves, SaveOnceMorePreserves, AcknowledgedPreserves, DecidedTooLatePreserves,
             StoreStepKeeps
             DEF PairingNext
<1>2. CASE UNCHANGED allvars
  <2>1. IInv'
    BY <1>2, StepKeeps DEF allvars
  <2>2. Elsewhere \/ UNCHANGED <<vars, pairing>>
    BY <1>2 DEF allvars
  <2> USE <1>2 DEF allvars, vars, disks, store, history, pairing, outside, PInv
  <2>3. PTypeOK' /\ Calls' /\ Known' /\ Numbered' /\ Recorded' /\ Promised'
    BY DEF PTypeOK, Calls, Known, Numbered, Recorded, RecordIs, Promised
  <2>4. Replacing' /\ NotInPlace' /\ ToldIsSo' /\ NothingIsKept'
    BY DEF Replacing, AsFound, Opens, Header, NotInPlace, Holds, ToldIsSo, SaysKept, Possible,
       OpensAfterLoss, NothingIsKept
  <2> QED BY <2>1, <2>3, <2>4
<1> QED BY <1>1, <1>2

\* An earlier attempt's file is a state that the Store can be in.
LEMMA EarlierKeeps ==
  ASSUME NEW p \in Protectors, NEW phase \in Phases, Earlier(p, phase),
         over = {}, at = "none", run = NoRun, start = Unseen,
         disk = {dir}, faults = 0, pc = "closed", op = "none", prot = None,
         loaded = NotLoaded, held = Nothing, bad = FALSE,
         result = "none", before = start, stray = {}
  PROVE  IInv /\ PInv
<1> USE DEF Earlier
<1>1. /\ 1 \in File /\ None \notin Protectors
      /\ dir = [state |-> 1, temps |-> {}] /\ dir.state = 1 /\ dir.temps = {}
      /\ writes = 1 /\ confirmed = 1 /\ 1 \in 0..MaxWrites /\ 0 \in 0..MaxWrites
  BY DEF File
<1>2. /\ pkey \in [Protectors -> Nat]
      /\ \A q \in Protectors : pkey[q] = IF q = p /\ p \in Keyed THEN 1 ELSE 0
  OBVIOUS
<1>3. /\ file \in Files
      /\ file[1].data = "synced" /\ file[1].prot = p /\ file[1].key = pkey[p]
      /\ \A f \in File \ {1} : file[f].data = "none" /\ file[f].prot = None /\ file[f].key = 0
  BY <1>1, <1>2 DEF Files
<1>4. before = [state |-> 0, opens |-> FALSE] /\ before.state = 0 /\ before.opens = FALSE /\ before \in Before
  BY <1>1 DEF Unseen, Before
<1>5. TypeOK
  <2>1. dir \in Dirs /\ disk = {dir}
    BY <1>1, DirOf
  <2>2. loaded \in Wrapped /\ pc \in StorePcs /\ op \in Ops /\ result \in Results
    BY NotLoadedType DEF StorePcs, Ops, Results
  <2> QED BY <1>1, <1>2, <1>3, <1>4, <2>1, <2>2 DEF TypeOK
<1>6. Opens(1) /\ OpensAfterLoss(1) /\ Header(1)
  BY <1>1, <1>2, <1>3 DEF Opens, OpensAfterLoss, Header
<1>7. Placed /\ Loaded /\ Written /\ Held /\ LeftKeysKnown /\ WipedSoFar
  BY <1>1, <1>4 DEF Placed, Loaded, Written, Held, LeftKeysKnown, WipedSoFar, OldSteps, WriteSteps, WipeSteps
<1>8. Named /\ Keys
  BY <1>1, <1>2, <1>3 DEF Named, Keys, Header
<1>9. SavedSurvives /\ ReplaceSays /\ WipedIsGone /\ WipeFindsTheKey
  BY <1>1, <1>2, <1>3, <1>6 DEF SavedSurvives, ReplaceSays, WipedIsGone, WipeFindsTheKey, Possible
<1>10. /\ content[1].phase = phase /\ content[1].try = 1
       /\ \A f \in File \ {1} : content[f].phase = "none" /\ content[f].try = 0
       /\ content \in [File -> Records]
  BY <1>1, RecordTypes DEF NoRecord, Records
<1>11. /\ promised \in Records
       /\ (promised.try = 0 /\ promised.phase = "none") \/ (promised.try = 1 /\ promised.phase = phase /\ phase # "started")
  BY <1>1, <1>10, RecordTypes DEF NoRecord, Records
<1>12. PTypeOK
  BY <1>4, <1>10, <1>11, NoRunType DEF PTypeOK, Ats
<1>13. Calls /\ Known /\ Numbered /\ Recorded
  BY <1>1, <1>10 DEF Calls, Known, Numbered, Recorded, NoRun, Begun, Phases
<1>14. Promised
  BY <1>1, <1>10, <1>11 DEF Promised, Begun, Phases, File
<1>15. Replacing /\ NotInPlace /\ ToldIsSo /\ NothingIsKept
  BY <1>1, <1>10 DEF Replacing, NotInPlace, ToldIsSo, NothingIsKept, NoRun, Holds
<1> QED BY <1>5, <1>7, <1>8, <1>9, <1>12, <1>13, <1>14, <1>15 DEF IInv, PInv

LEMMA PairingInitKeeps == PairingInit => IInv /\ PInv
<1> SUFFICES ASSUME PairingInit PROVE IInv /\ PInv
  OBVIOUS
<1>1. CASE Init /\ content = [f \in File |-> NoRecord] /\ tries = 0 /\ promised = NoRecord
  <2>1. IInv
    BY <1>1, InitKeeps
  <2>2. /\ disk = {Empty} /\ dir = Empty /\ writes = 0 /\ confirmed = Nothing /\ pc = "closed" /\ op = "none"
        /\ at = "none" /\ run = NoRun /\ start = Unseen /\ Empty.state = Nothing
    BY <1>1 DEF Init, PairingInit, Empty
  <2>3. /\ \A f \in File : content[f].phase = "none" /\ content[f].try = 0
        /\ content \in [File -> Records] /\ promised.try = 0 /\ promised.phase = "none" /\ promised \in Records
    BY <1>1, RecordTypes DEF NoRecord, Records
  <2>4. PTypeOK
    BY <1>1, <2>2, <2>3, NoRunType DEF PTypeOK, Ats, Unseen, Before
  <2>5. Calls /\ Known /\ Numbered /\ Recorded /\ Promised
    BY <1>1, <2>2, <2>3 DEF Calls, Known, Numbered, Recorded, Promised, NoRun, Begun
  <2>6. Replacing /\ NotInPlace /\ ToldIsSo /\ NothingIsKept
    BY <2>2 DEF Replacing, NotInPlace, ToldIsSo, NothingIsKept, NoRun, Holds
  <2> QED BY <2>1, <2>4, <2>5, <2>6 DEF PInv
<1>2. CASE /\ \E p \in Protectors, phase \in Phases : Earlier(p, phase)
           /\ disk = {dir} /\ faults = 0 /\ pc = "closed" /\ op = "none" /\ prot = None
           /\ loaded = NotLoaded /\ held = Nothing /\ bad = FALSE
           /\ result = "none" /\ before = start /\ stray = {}
  <2>1. over = {} /\ at = "none" /\ run = NoRun /\ start = Unseen
    BY DEF PairingInit
  <2> QED BY <1>2, <2>1, EarlierKeeps
<1> QED BY <1>1, <1>2 DEF PairingInit

(* The inductive invariants of the Store and of Pairing hold of every run  *)
(* of Pair, from nothing or from what an earlier attempt left.             *)
THEOREM PairingInvariance == PairingSpec => [](IInv /\ PInv)
BY PairingInitKeeps, PairingStepKeeps, PTL DEF PairingSpec

(* Whatever runs of Pair do, from nothing or over an earlier attempt, is   *)
(* what DurableState allows: a run that fails, is interrupted or tries     *)
(* again takes no state away but by a replacement or a wipe (failWipe).    *)
THEOREM PairingKeepsTheState == PairingSpec => [][StateFile!Next]_versions
<1>1. PairingInit => KeysAreNew
  <2>1. Init => KeysAreNew
    BY DEF Init, KeysAreNew
  <2>2. ASSUME NEW p \in Protectors, NEW phase, Earlier(p, phase)
        PROVE  KeysAreNew
    <3>1. \A q \in Protectors : pkey[q] \in {0, 1}
      BY <2>2 DEF Earlier
    <3>2. \A f \in File : file[f].key \in {0, 1}
      BY <2>2, <3>1 DEF Earlier
    <3> QED BY <2>2, <3>1, <3>2 DEF Earlier, KeysAreNew
  <2> QED BY <2>1, <2>2 DEF PairingInit
<1>2. IInv /\ KeysAreNew /\ [PairingNext]_allvars => KeysAreNew'
  BY RunUsesTheStore, KeysNewStep DEF allvars, vars, disks, KeysAreNew
<1>3. IInv /\ KeysAreNew /\ [PairingNext]_allvars => [StateFile!Next]_versions
  BY RunUsesTheStore, StepRefines DEF allvars
<1> QED BY <1>1, <1>2, <1>3, PairingInvariance, PTL DEF PairingSpec

\* What the invariant says of what was promised.
LEMMA PromiseHolds ==
  ASSUME IInv, PInv, promised.try # 0
  PROVE  \A d \in Possible : /\ Holds(d, promised.try, {promised.phase, "paired"}) /\ OpensAfterLoss(d.state)
                             /\ promised.phase \in {"waiting", "paired"}
<1>1. confirmed # Nothing /\ TypeOK
  BY DEF PInv, Promised, IInv
<1> SUFFICES ASSUME NEW d \in Possible
             PROVE  /\ Holds(d, promised.try, {promised.phase, "paired"}) /\ OpensAfterLoss(d.state)
                    /\ promised.phase \in {"waiting", "paired"}
  OBVIOUS
<1>2. d \in disk
  BY <1>1, Parts DEF Possible
<1>3. confirmed <= d.state /\ d.state <= writes /\ OpensAfterLoss(d.state) /\ d.state \in File
  BY <1>1, <1>2, Parts DEF IInv, SavedSurvives, Named, Possible, OpensAfterLoss, Opens, Header
<1> QED BY <1>3 DEF PInv, Promised, Holds, File

(* A shown SAS always has a resumable state behind it (pairNew, persist).  *)
THEOREM ShownStaysResumable == PairingSpec => []ShownIsResumable
<1>1. IInv /\ PInv => ShownIsResumable
  BY PromiseHolds DEF ShownIsResumable, Holds
<1> QED BY <1>1, PairingInvariance, PTL

(* An acknowledged approval is in the state file, as paired (persist).     *)
THEOREM ApprovalStaysKept == PairingSpec => []ApprovalIsKept
<1>1. IInv /\ PInv => ApprovalIsKept
  <2>1. PInv /\ promised.phase = "paired" => promised.try # 0
    BY DEF PInv, Promised
  <2> QED BY <2>1, PromiseHolds DEF ApprovalIsKept, Holds
<1> QED BY <1>1, PairingInvariance, PTL

(* What the operator reads at the end of a run is so (Pair, write, wait).  *)
THEOREM TellsTheTruth == PairingSpec => []ToldIsSo
<1>1. IInv /\ PInv => ToldIsSo
  BY DEF PInv
<1> QED BY <1>1, PairingInvariance, PTL

(* Nothing of a failed pairing is kept, unless it was said (failWipe).     *)
THEOREM FailedLeavesNothing == PairingSpec => []NothingIsKept
<1>1. IInv /\ PInv => NothingIsKept
  BY DEF PInv
<1> QED BY <1>1, PairingInvariance, PTL
=============================================================================
