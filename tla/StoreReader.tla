----------------------------- MODULE StoreReader -----------------------------
(***************************************************************************)
(* internal/state: ReadOnly, the look at the state file that `status`      *)
(* takes without the lock, while the process that holds the lock (the      *)
(* Store of StateStore) saves, replaces and wipes it.                      *)
(*                                                                         *)
(* Every system call of the reader is a step of its own; the calls that    *)
(* fail for reasons of their own, and the checks of owners and             *)
(* permissions, are left out.  A file that the reader holds open is the    *)
(* reason for which a Windows file system may refuse a rename, which       *)
(* StateStore lets fail at any time.                                       *)
(***************************************************************************)
EXTENDS StateStore

CONSTANT Attempts  \* readOnlyAttempts

ASSUME ReaderAssumption == Attempts \in Nat \ {0}

VARIABLE
  reader  \* its step, the file it has open, how often it found that file replaced;
          \* history: the file it began with, and whether that one could be read and has only been saved since

rvars == <<vars, reader>>

ReaderIdle == [at |-> "idle", f |-> Nothing, replaced |-> 0, first |-> Nothing, sure |-> FALSE]

\* The Store is in no operation that destroys the state.
OnlySaves == op' \in {"none", "save"}

ReaderGoes(step) == reader' = [reader EXCEPT !.at = step]
\* It ends without a file, and says why.
ReaderSays(why) == reader' = [ReaderIdle EXCEPT !.at = why, !.sure = reader.sure]

ReaderBegins ==
  /\ reader = ReaderIdle
  /\ reader' = [at |-> "open", f |-> Nothing, replaced |-> 0, first |-> dir.state,
                sure |-> Opens(dir.state) /\ op \in {"none", "save"}]
  /\ UNCHANGED vars

OpenPrivate ==
  /\ reader.at = "open"
  /\ IF dir.state = Nothing THEN ReaderSays("notfound")
     ELSE reader' = [reader EXCEPT !.at = "links", !.f = dir.state]
  /\ UNCHANGED vars

\* checkLinks: a file that is no longer at the path has no link; it is opened again, up to Attempts times.
GivesUp == ReaderGoes("replaced")
OpensAgain ==
  reader' = [reader EXCEPT !.at = IF reader.replaced + 1 < Attempts THEN "open" ELSE "replaced",
                           !.f = Nothing, !.replaced = @ + 1]

CheckLinks ==
  /\ reader.at = "links"
  /\ IF reader.f = dir.state THEN ReaderGoes("read") ELSE OpensAgain
  /\ UNCHANGED vars

\* The file is read through its handle, whatever became of its name since.
ReadBytes ==
  /\ reader.at = "read"
  /\ IF Header(reader.f) THEN ReaderGoes("unwrap") ELSE ReaderSays("unreadable")
  /\ UNCHANGED vars

\* decodeFile: the key the protector has now.
Decode ==
  /\ reader.at = "unwrap"
  /\ IF file[reader.f].prot \in Keyed => file[reader.f].key = pkey[file[reader.f].prot]
     THEN ReaderGoes("view") ELSE ReaderSays("unreadable")
  /\ UNCHANGED vars

ReaderEnds ==
  /\ reader.at \in {"view", "notfound", "unreadable", "replaced"}
  /\ reader' = ReaderIdle
  /\ UNCHANGED vars

\* What the Store's process does meanwhile.  A power loss ends the reader too.
StoreSteps ==
  \/ /\ StoreNext
     /\ reader' = [reader EXCEPT !.sure = @ /\ OnlySaves]
  \/ PowerLoss /\ reader' = ReaderIdle

ReaderInit == Init /\ reader = ReaderIdle

ReaderNext ==
  \/ StoreSteps
  \/ ReaderBegins \/ OpenPrivate \/ CheckLinks \/ ReadBytes \/ Decode \/ ReaderEnds

ReaderSpec == ReaderInit /\ [][ReaderNext]_rvars

-----------------------------------------------------------------------------
(* `status` never disturbs and is never disturbed by a Store that only     *)
(* saves: if the file it began with could be read and was only saved       *)
(* since, it shows that file or a later one, unless as many saves as it    *)
(* has attempts went over it (ReadOnly).  What it shows is never older     *)
(* than what was there when it began.                                      *)
StatusShowsTheState ==
  /\ reader.at = "view" => reader.f >= reader.first /\ reader.f # Nothing
  /\ reader.at \in {"notfound", "unreadable"} => ~reader.sure
  /\ reader.at = "replaced" => dir.state = Nothing \/ dir.state >= reader.first + Attempts
=============================================================================
