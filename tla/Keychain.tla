------------------------------ MODULE Keychain ------------------------------
(***************************************************************************)
(* internal/protect: the macOS Keychain protector, and the choice of it.   *)
(*                                                                         *)
(* The data key of a state file is sealed under an item of the Keychain.   *)
(* Items are shared by all processes of the user: an item has a random     *)
(* name, which the state file's header carries, and is tagged with the     *)
(* state directory it was made for.  One process at a time holds the lock  *)
(* of a directory (`mcp`, `pair`), and `status` reads any file without it. *)
(* Every call of the Keychain is a step, which may fail, and processes end *)
(* between any two.  Directories are moved and copied while nothing runs   *)
(* in them.                                                                *)
(*                                                                         *)
(* The code makes a protector anew for every use, so that one wraps or     *)
(* opens a single item.  Items are numbered in the order they are made,    *)
(* which their creation dates are taken to tell.  A missing entitlement, a *)
(* locked Keychain and a directory whose path cannot be had are calls that *)
(* fail.  Seals, formats and texts are left out.  A definition used        *)
(* nowhere is a mistake in the one that follows it (README, Mutants).      *)
(***************************************************************************)
EXTENDS Naturals, FiniteSetsExt

CONSTANTS
  Dir,       \* state directories
  Status,    \* the process that only looks
  Gone,      \* no item
  MaxItems,  \* bound: items made
  MaxMoves,  \* bound: directories moved or copied
  MaxFaults  \* bound: calls that fail, and crashes

ASSUME KeychainAssumption ==
  /\ Status \notin Dir /\ Gone \notin Dir
  /\ Dir \cap Nat = {} /\ Gone \notin Nat
  /\ MaxItems \in Nat /\ MaxMoves \in Nat /\ MaxFaults \in Nat

Proc == Dir \cup {Status}
Name == 1..MaxItems
None == 0

VARIABLES
  item,     \* per name: the directory the item is tagged with (a probe's: its own name), or Gone
  made,     \* items made
  file,     \* per directory: the item its state file is sealed under (None: no file, or another protector's)
  loaded,   \* per directory: the item that the lock holder's Store has opened
  run,      \* per process: the call of its protector under way; history: the items its Wipe must delete (was),
            \* those that it removed, and whether a call of the Keychain failed in it (hurt)
  moves, faults,
  settled   \* history: the file was written or opened here, its item tagged so, and none else has it

vars == <<item, made, file, loaded, run, moves, faults, settled>>
disks == <<file, loaded, moves>>

Call(d, at, job, mine) ==
  [at |-> at, job |-> job, dir |-> d, mine |-> mine,
   others |-> {}, last |-> None, removed |-> {}, hurt |-> FALSE, was |-> {}]
Idle == Call(Gone, "idle", "none", None)

Init ==
  /\ item = [n \in Name |-> Gone] /\ made = 0
  /\ file = [d \in Dir |-> None] /\ loaded = [d \in Dir |-> None]
  /\ run = [p \in Proc |-> Idle]
  /\ moves = 0 /\ faults = 0
  /\ settled = [d \in Dir |-> FALSE]

-----------------------------------------------------------------------------
Runs(p, r) == run' = [run EXCEPT ![p] = r]
Goes(p, at) == Runs(p, [run[p] EXCEPT !.at = at])
GoesHurt(p, at) == Runs(p, [run[p] EXCEPT !.at = at, !.hurt = TRUE])
Rests(p) == Runs(p, Idle)
Starts(d, at, job, mine) == Runs(d, Call(d, at, job, mine))

\* The Keychain: get, list, add and remove, by name or by service.
Found(n) == item[n] # Gone
Listed(service) == {n \in Name : item[n] = service}
Adds(n, service) == item' = [item EXCEPT ![n] = service]
Removes(n) == item' = [item EXCEPT ![n] = Gone]

Fault == faults < MaxFaults /\ faults' = faults + 1

\* A probe has a service of its own, and no other probe's.
SharedProbeService(n) == 0
ProbeService(n) == n

Service(p, n) == IF run[p].job \in {"probe", "unprobe"} THEN ProbeService(n) ELSE run[p].dir

\* What an error of Wrap leads to.
Fails(d) == IF run[d].job = "probe" THEN "nokeychain" ELSE "error"

\* The lock holder's processes: they open, pair, wipe, and end.
Load(d) ==
  /\ run[d].at = "idle" /\ file[d] # None /\ loaded[d] = None
  /\ Starts(d, "get", "load", file[d])
  /\ UNCHANGED <<item, made, disks, faults, settled>>

Pair(d) ==
  /\ run[d].at = "idle"
  /\ Starts(d, "add", "probe", None)
  /\ UNCHANGED <<item, made, disks, faults, settled>>

\* Store.Wipe: the protector that is loaded, or one made for the header's name.
Wipe(d) ==
  /\ run[d].at = "idle" /\ file[d] # None
  /\ Starts(d, "list", "wipe", loaded[d])
  /\ UNCHANGED <<item, made, disks, faults, settled>>

\* Store.WipeAll, where the header cannot be read.
WipeAll(d) ==
  /\ run[d].at = "idle" /\ loaded[d] = None
  /\ Starts(d, "list", "all", None)
  /\ UNCHANGED <<item, made, disks, faults, settled>>

Ends(d) ==
  /\ run[d].at = "idle" /\ loaded[d] # None
  /\ loaded' = [loaded EXCEPT ![d] = None]
  /\ UNCHANGED <<item, made, file, run, moves, faults, settled>>

Crash(d) ==
  /\ run[d].at # "idle" /\ Fault
  /\ Rests(d) /\ loaded' = [loaded EXCEPT ![d] = None]
  /\ UNCHANGED <<item, made, file, moves, settled>>

\* `status`.
Looks(d) ==
  /\ run[Status].at = "idle" /\ file[d] # None
  /\ Runs(Status, Call(d, "get", "look", file[d]))
  /\ UNCHANGED <<item, made, disks, faults, settled>>

-----------------------------------------------------------------------------
(***************************************************************************)
(* Unwrap.                                                                 *)
(***************************************************************************)

\* The items a call may still open, re-tag or delete.
Names(p) == {run[p].mine, run[p].last} \cup run[p].others

\* A wipe of the directory, not of a probe.
Destroys(d) == run[d].job \in {"old", "wipe", "all"}

\* No wipe is under way here, and neither a file elsewhere nor a process that runs there has the item.
OnlyHere(d, n) ==
  /\ file[d] = n /\ ~Destroys(d)
  /\ \A e \in Dir \ {d} : file[e] # n /\ loaded[e] # n
  /\ \A p \in Proc : run[p].dir # d => n \notin Names(p)

Settles(p, n) ==
  settled' = [settled EXCEPT ![run[p].dir] = @ \/ OnlyHere(run[p].dir, n)]

Opened(p) ==
  \/ /\ run[p].job = "load"
     /\ loaded' = [loaded EXCEPT ![p] = run[p].mine] /\ Rests(p)
  \/ run[p].job = "look" /\ UNCHANGED loaded /\ Rests(p)
  \/ run[p].job = "probe" /\ UNCHANGED loaded /\ Goes(p, "list")

\* An item of another directory follows the file it was opened for.
NeedsRetag(p, n) == item[n] # Service(p, n)

\* A probe that does not open its item deletes it.
NotOpened(p, failed) ==
  Runs(p, [run[p] EXCEPT !.at = IF run[p].job = "probe" THEN "list" ELSE "error",
                         !.job = IF @ = "probe" THEN "unprobe" ELSE @,
                         !.hurt = @ \/ failed])

Get(p) ==
  LET n == run[p].mine IN
  /\ run[p].at = "get"
  /\ \/ /\ Found(n) /\ NeedsRetag(p, n)
        /\ Goes(p, "retag") /\ UNCHANGED <<loaded, settled, faults>>
     \/ /\ Found(n) /\ ~NeedsRetag(p, n) /\ Opened(p)
        /\ (IF run[p].job = "probe" THEN UNCHANGED settled ELSE Settles(p, n)) /\ UNCHANGED faults
     \/ ~Found(n) /\ NotOpened(p, FALSE) /\ UNCHANGED <<loaded, settled, faults>>
     \/ Fault /\ NotOpened(p, TRUE) /\ UNCHANGED <<loaded, settled>>
  /\ UNCHANGED <<item, made, file, moves>>

KeepsTag(p, n) == UNCHANGED item
Retags(p, n) == IF Found(n) THEN Adds(n, Service(p, n)) ELSE UNCHANGED item

\* A re-tag that fails is only logged.
Retag(p) ==
  LET n == run[p].mine IN
  /\ run[p].at = "retag" /\ Opened(p)
  /\ \/ Retags(p, n) /\ (IF Found(n) THEN Settles(p, n) ELSE UNCHANGED settled) /\ UNCHANGED faults
     \/ Fault /\ UNCHANGED <<item, settled>>
  /\ UNCHANGED <<made, file, moves>>

-----------------------------------------------------------------------------
(***************************************************************************)
(* Wrap.                                                                   *)
(***************************************************************************)

Add(d) ==
  /\ run[d].at = "add"
  /\ \/ /\ made < MaxItems /\ made' = made + 1
        /\ Adds(made + 1, Service(d, made + 1))
        /\ Runs(d, [run[d] EXCEPT !.at = "back", !.mine = made + 1])
        /\ UNCHANGED faults
     \/ Fault /\ GoesHurt(d, Fails(d)) /\ UNCHANGED <<item, made>>
  /\ UNCHANGED <<disks, settled>>

\* An item that is not there as it was asked for is deleted, if it can be
\* (nothing else can have deleted it: no file names it yet).
ReadBack(d) ==
  LET n == run[d].mine IN
  /\ run[d].at = "back"
  /\ \/ /\ Found(n) /\ UNCHANGED <<item, faults>>
        /\ Goes(d, IF run[d].job = "probe" THEN "get" ELSE "write")
     \/ /\ Fault /\ GoesHurt(d, Fails(d))
        /\ Removes(n) \/ UNCHANGED item
  /\ UNCHANGED <<made, disks, settled>>

\* The Store writes the file with the new item's name, or does not get to.
Write(d) ==
  /\ run[d].at = "write" /\ Rests(d)
  /\ \/ /\ file' = [file EXCEPT ![d] = run[d].mine] /\ loaded' = [loaded EXCEPT ![d] = run[d].mine]
        /\ settled' = [settled EXCEPT ![d] = TRUE] /\ UNCHANGED faults
     \/ Fault /\ UNCHANGED <<file, loaded, settled>>
  /\ UNCHANGED <<item, made, moves>>

\* An Unwrap or a Wrap of a state file's key that failed, and a Keychain that was not chosen.
GivesUp(p) ==
  /\ run[p].at \in {"error", "nokeychain"} /\ Rests(p)
  /\ UNCHANGED <<item, made, disks, faults, settled>>

-----------------------------------------------------------------------------
(***************************************************************************)
(* Wipe.                                                                   *)
(***************************************************************************)

\* The key in use: the item the protector wrapped or opened, or else the newest listed.
OldestFirst(listed) == Min(listed)
Newest(listed) == Max(listed)

List(d) ==
  LET mine == run[d].mine
      listed == Listed(Service(d, mine))
      inUse == IF mine # None THEN mine ELSE IF listed # {} THEN Newest(listed) ELSE None
  IN
  /\ run[d].at = "list"
  /\ \/ /\ Runs(d, [run[d] EXCEPT !.at = "remove", !.others = listed \ {inUse}, !.last = inUse,
                                 !.was = {n \in Name : n \in listed \/ n = mine \/ (settled[d] /\ n = file[d])}])
        /\ settled' = [settled EXCEPT ![d] = @ /\ ~Destroys(d)]
        /\ UNCHANGED faults
     \/ Fault /\ GoesHurt(d, "failed") /\ UNCHANGED settled
  /\ UNCHANGED <<item, made, disks>>

\* The key in use goes last.
NextToGo(r) == IF r.others # {} THEN r.others ELSE {r.last} \ {None}

Remove(d) ==
  /\ run[d].at = "remove"
  /\ \/ \E n \in NextToGo(run[d]) :
          \/ /\ Removes(n)
             /\ Runs(d, [run[d] EXCEPT !.others = @ \ {n}, !.last = IF @ = n THEN None ELSE @,
                                       !.removed = @ \cup {n}])
             /\ UNCHANGED faults
          \/ Fault /\ GoesHurt(d, "failed") /\ UNCHANGED item
     \/ NextToGo(run[d]) = {} /\ Goes(d, "wiped") /\ UNCHANGED <<item, faults>>
  /\ UNCHANGED <<made, disks, settled>>

\* What the caller of Wipe does next.
ForgetsFile(d) == file' = [file EXCEPT ![d] = None] /\ loaded' = [loaded EXCEPT ![d] = None]

AfterWipe(d) ==
  \/ /\ run[d].job = "probe" /\ run[d].at = "wiped" /\ UNCHANGED <<file, loaded, faults>>
     /\ IF file[d] = None THEN Starts(d, "add", "new", None) ELSE Starts(d, "list", "old", loaded[d])
  \/ /\ \/ run[d].job = "probe" /\ run[d].at = "failed"
        \/ run[d].job = "unprobe" /\ run[d].at \in {"wiped", "failed"}
     /\ Goes(d, "nokeychain") /\ UNCHANGED <<file, loaded, faults>>
  \/ /\ run[d].job = "old" /\ run[d].at = "wiped" /\ UNCHANGED <<file, faults>>
     /\ Starts(d, "add", "new", None) /\ loaded' = [loaded EXCEPT ![d] = None]
  \/ /\ run[d].job \in {"old", "wipe"} /\ run[d].at = "failed"
     /\ Rests(d) /\ UNCHANGED <<file, loaded, faults>>
  \/ /\ \/ run[d].job = "wipe" /\ run[d].at = "wiped"
        \/ run[d].job = "all" /\ run[d].at \in {"wiped", "failed"}
     /\ Rests(d)
     /\ \/ ForgetsFile(d) /\ UNCHANGED faults
        \/ Fault /\ UNCHANGED file /\ loaded' = [loaded EXCEPT ![d] = None]

StoreGoesOn(d) ==
  /\ run[d].at \in {"wiped", "failed"} /\ AfterWipe(d)
  /\ settled' = [settled EXCEPT ![d] = @ /\ file'[d] # None]
  /\ UNCHANGED <<item, made, moves>>

-----------------------------------------------------------------------------
(***************************************************************************)
(* The user.                                                               *)
(***************************************************************************)

Quiet(d) == run[d].at = "idle" /\ loaded[d] = None /\ run[Status].dir # d

\* Moved, or copied.
Transfers(a, b) ==
  /\ a # b /\ Quiet(a) /\ Quiet(b) /\ file[a] # None /\ file[b] = None
  /\ moves < MaxMoves /\ moves' = moves + 1
  /\ \E left \in {None, file[a]} : file' = [file EXCEPT ![a] = left, ![b] = file[a]]
  /\ settled' = [settled EXCEPT ![a] = FALSE, ![b] = FALSE]
  /\ UNCHANGED <<item, made, loaded, run, faults>>

\* A build without the entitlement discards the file; it cannot ask the Keychain (keychainProtectors).
OtherBuild(d) ==
  /\ run[d].at = "idle" /\ loaded[d] = None /\ file[d] # None
  /\ file' = [file EXCEPT ![d] = None] /\ settled' = [settled EXCEPT ![d] = FALSE]
  /\ UNCHANGED <<item, made, loaded, run, moves, faults>>

-----------------------------------------------------------------------------
Next ==
  \/ \E d \in Dir :
       \/ Load(d) \/ Pair(d) \/ Wipe(d) \/ WipeAll(d) \/ Ends(d) \/ Crash(d) \/ Looks(d)
       \/ Add(d) \/ ReadBack(d) \/ Write(d) \/ List(d) \/ Remove(d) \/ StoreGoesOn(d) \/ OtherBuild(d)
  \/ \E p \in Proc : Get(p) \/ Retag(p) \/ GivesUp(p)
  \/ \E a, b \in Dir : Transfers(a, b)

Spec == Init /\ [][Next]_vars

-----------------------------------------------------------------------------
(***************************************************************************)
(* What makes it correct.                                                  *)
(***************************************************************************)

(* A state file that was written or opened where it is keeps its key until *)
(* a wipe there: no probe, no wipe of another directory, no new pairing at *)
(* a path it was moved from and no `status` takes it away (Unwrap's re-tag,*)
(* the items' services, tryKeychain).                                      *)
KeysStay ==
  \A d \in Dir : settled[d] => file[d] # None /\ item[file[d]] # Gone

(* A Wipe that returns an error has not deleted the key in use; from the   *)
(* header alone it can have, where a newer item was listed.  A Wipe that   *)
(* returns nil left none of the items that the directory had when they     *)
(* were listed, with those that earlier processes left there, nor the one  *)
(* its protector opened, nor the key of a file that was at home here       *)
(* (Wipe).                                                                 *)
WipeSays ==
  \A d \in Dir : Destroys(d) =>
    /\ run[d].at = "failed" /\ file[d] \in run[d].removed =>
         run[d].mine = None /\ run[d].last > file[d]
    /\ run[d].at = "wiped" =>
         \A n \in run[d].was : item[n] = Gone

(***************************************************************************)
(* The inductive invariant behind KeysStay.                                *)
(***************************************************************************)

Ats == {"idle", "get", "retag", "add", "back", "write", "error", "nokeychain", "list", "remove", "wiped", "failed"}
Jobs == {"none", "load", "look", "probe", "unprobe", "new", "old", "wipe", "all"}

RunType ==
  [at: Ats, job: Jobs,
   dir: Dir \cup {Gone}, mine: 0..made, others: SUBSET (1..made), last: 0..made,
   removed: SUBSET (1..made), hurt: BOOLEAN, was: SUBSET (1..made)]

TypeOK ==
  /\ made \in 0..MaxItems /\ moves \in Nat /\ faults \in Nat
  /\ DOMAIN item = Name
  /\ \A n \in Name : item[n] \in Dir \cup {Gone, n} /\ (n > made => item[n] = Gone)
  /\ file \in [Dir -> 0..made] /\ loaded \in [Dir -> 0..made]
  /\ run \in [Proc -> RunType] /\ settled \in [Dir -> BOOLEAN]

\* Each process runs one kind of call at a time, for its own directory.
PlacedAt(d) ==
  /\ run[d].dir \in {d, Gone} /\ run[d].job # "look"
  /\ run[d].at = "idle" => run[d] = Idle
  /\ run[d].at # "idle" => run[d].dir = d
  /\ run[d].at \in {"get", "retag"} => run[d].job \in {"load", "probe"} /\ run[d].mine # None
  /\ run[d].at = "back" => run[d].job \in {"new", "probe"} /\ run[d].mine # None
  /\ run[d].at = "write" => run[d].job = "new" /\ run[d].mine # None
  /\ run[d].at = "add" => run[d].job \in {"new", "probe"} /\ Names(d) = {None}
  /\ run[d].at \in {"list", "remove", "wiped", "failed"} =>
       Destroys(d) \/ (run[d].job \in {"probe", "unprobe"} /\ run[d].mine # None)
Looking ==
  \/ run[Status] = Idle
  \/ /\ run[Status].at \in {"get", "retag", "error"} /\ run[Status].job = "look"
     /\ run[Status].dir \in Dir /\ run[Status].mine # None
Placed == (\A d \in Dir : PlacedAt(d)) /\ Looking

\* An item just made, which no file has, or a probe's.
Fresh(d) ==
  /\ run[d].mine # None
  /\ run[d].at \in {"back", "write"} \/ run[d].job \in {"probe", "unprobe"}

IsOwn(d, m) ==
  /\ \A e \in Dir : file[e] # m /\ loaded[e] # m
  /\ \A p \in Proc \ {d} : m \notin Names(p)
  /\ Names(d) \subseteq {m, None}
  /\ item[m] \in {Gone, Service(d, m)}
  /\ run[d].at = "write" => item[m] = d
FreshIsOwn == \A d \in Dir : Fresh(d) => IsOwn(d, run[d].mine)

\* A settled file's item has its tag, and nothing else has the item, but for a process that looks
\* or loads here.
Home(d, n) ==
  /\ n # None /\ item[n] = d
  /\ \A e \in Dir \ {d} : file[e] # n /\ loaded[e] # n
  /\ \A p \in Proc : run[p].dir # d => n \notin Names(p)
  /\ Destroys(d) => run[d].at \in {"list", "failed"}
AtHome == \A d \in Dir : settled[d] => Home(d, file[d])

IInv == TypeOK /\ Placed /\ FreshIsOwn /\ AtHome

(***************************************************************************)
(* And behind the other two.                                               *)
(***************************************************************************)

\* A probe's item is there until the probe deletes it, and what fails is hurt.
Unharmed(d) ==
  /\ run[d].at \in {"nokeychain", "failed"} \/ run[d].job = "unprobe" => run[d].hurt
  /\ run[d].job = "probe" /\ run[d].at \in {"get", "back"} => Found(run[d].mine)

\* The item that the protector opens, or has opened, is the file's.
KnownFile(d) ==
  /\ loaded[d] \in {None, file[d]}
  /\ run[d].job = "load" /\ run[d].at \in {"get", "retag"} => run[d].mine = file[d]
  /\ Destroys(d) => run[d].mine \in {None, file[d]}

\* The key in use goes last: it is the protector's own, or newer than all others.
LastOfAll(r) ==
  /\ r.others # {} => r.last # None
  /\ r.last # None =>
       /\ r.last \notin r.others \cup r.removed
       /\ IF r.mine # None THEN r.last = r.mine ELSE \A n \in r.others \cup r.removed : n < r.last

\* What a wipe of the directory has done so far.
SoFar(d) ==
  /\ run[d].at = "list" => run[d].removed = {} /\ run[d].others = {} /\ run[d].last = None
  /\ run[d].at \in {"remove", "wiped"} =>
       \A n \in run[d].was : item[n] = Gone \/ n \in run[d].others \cup {run[d].last}
  /\ run[d].at = "wiped" => run[d].others = {} /\ run[d].last = None
  /\ run[d].at \in {"remove", "failed"} => LastOfAll(run[d])
  /\ run[d].at = "failed" => (run[d].removed # {} => run[d].last # None)

ToldAt(d) == Unharmed(d) /\ KnownFile(d) /\ (Destroys(d) => SoFar(d))
ToldInv == \A d \in Dir : ToldAt(d)

(* The Keychain is not chosen only when one of the probe's own calls       *)
(* failed, whatever other processes try at the same time (tryKeychain).    *)
ProbeIsAlone == \A d \in Dir : run[d].at = "nokeychain" => run[d].hurt
=============================================================================
