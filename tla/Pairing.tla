------------------------------- MODULE Pairing -------------------------------
(***************************************************************************)
(* internal/pairing: Pair, the command that pairs a connector with a vault *)
(* and keeps its progress in the state file, over the steps of the Store.  *)
(*                                                                         *)
(* An attempt has new keys (client.New) and a number.  Its record is saved *)
(* as started, as waiting before the code to compare (SAS) is shown, and   *)
(* as paired before device.paired is acknowledged.  A run of Pair ends by  *)
(* itself, is interrupted, or dies between any two steps; the next one     *)
(* finds what the state directory holds.  Between runs nothing else uses   *)
(* it: `mcp` is in VaultConn.                                              *)
(*                                                                         *)
(* The vault approves or rejects an attempt after its handshake, at any    *)
(* time until the window ends.  Texts, codes, names and the relay's errors *)
(* are left out, except what the operator is told of the state directory;  *)
(* preparing a record for saving does not fail.  A definition used nowhere *)
(* is a mistake in the one that follows it (README, Mutants).              *)
(***************************************************************************)
EXTENDS StateStore

CONSTANT MaxTries   \* bound: attempts

ASSUME PairingAssumption == MaxTries \in Nat \ {0}

VARIABLES
  content,    \* per file: the record in it
  tries,      \* attempts so far
  vault,      \* per attempt: what the vault knows and decided
  acked,      \* attempts whose decision was acknowledged to the relay
  over,       \* attempts whose window ended
  at, run,    \* the run's step, and its fields
  \* history
  start,      \* the file the run found, and whether it opened
  promised    \* the attempt whose code was shown or approval acknowledged, until it is discarded

outside == <<tries, vault, acked, over>>
pairing == <<content, outside, at, run, start, promised>>
allvars == <<vars, pairing>>

Try == 1..MaxTries
Phases == {"started", "waiting", "paired"}
NoRecord == [phase |-> "none", try |-> 0]
NoRun == [try |-> 0, phase |-> "none", created |-> FALSE,
          replace |-> FALSE, replaced |-> FALSE, gone |-> FALSE, again |-> FALSE,
          why |-> "none", left |-> FALSE]

Unseen == [state |-> Nothing, opens |-> FALSE]

\* An earlier attempt may have left its file.
Earlier(p, phase) ==
  /\ pkey = [q \in Protectors |-> IF q = p /\ p \in Keyed THEN 1 ELSE 0]
  /\ file = [f \in File |-> IF f = 1 THEN [data |-> "synced", prot |-> p, key |-> pkey[p]]
                            ELSE [data |-> "none", prot |-> None, key |-> 0]]
  /\ dir = [state |-> 1, temps |-> {}] /\ writes = 1 /\ confirmed = 1
  /\ content = [f \in File |-> IF f = 1 THEN [phase |-> phase, try |-> 1] ELSE NoRecord]
  /\ tries = 1 /\ promised = IF phase = "started" THEN NoRecord ELSE content[1]
  /\ vault = [t \in Try |-> IF t # 1 \/ phase = "started" THEN "none"
                            ELSE IF phase = "waiting" THEN "asked" ELSE "paired"]
  /\ acked = IF phase = "paired" THEN {1} ELSE {}

PairingInit ==
  /\ over = {} /\ at = "none" /\ run = NoRun
  /\ start = Unseen
  /\ \/ /\ Init /\ content = [f \in File |-> NoRecord] /\ tries = 0 /\ promised = NoRecord
        /\ vault = [t \in Try |-> "none"] /\ acked = {}
     \/ /\ \E p \in Protectors, phase \in Phases : Earlier(p, phase)
        /\ disk = {dir} /\ faults = 0 /\ pc = "closed" /\ op = "none" /\ prot = None
        /\ loaded = NotLoaded /\ held = Nothing /\ bad = FALSE
        /\ result = "none" /\ before = start /\ stray = {}

-----------------------------------------------------------------------------
(***************************************************************************)
(* The vault and the window.  A run looks at them when it begins and while  *)
(* it waits, so that what happens during its other steps may as well happen *)
(* before it waits, or after it died.                                      *)
(***************************************************************************)

Elsewhere == at \in {"none", "wait"} /\ UNCHANGED <<vars, content, tries, at, run, start, promised>>

VaultDecides(t) ==
  /\ vault[t] = "asked" /\ t \notin over
  /\ \E v \in {"paired", "rejected"} : vault' = [vault EXCEPT ![t] = v]
  /\ UNCHANGED <<acked, over>> /\ Elsewhere

\* The record's deadline passes; the vault drops the attempt at the same time.
WindowEnds(t) ==
  /\ t \in 1..tries \ over /\ over' = over \cup {t}
  /\ UNCHANGED <<vault, acked>> /\ Elsewhere

-----------------------------------------------------------------------------
(***************************************************************************)
(* Calls of the Store, and what follows them.                              *)
(***************************************************************************)

Idle == pc = "open"
NoCall == UNCHANGED <<vars, content>>
Goes(to, r) == at' = to /\ run' = r
Stops(why) == NoCall /\ Goes("over", [run EXCEPT !.why = why])

\* The record that the write about to begin puts in its file.
Puts(phase, try) == content' = [content EXCEPT ![writes + 1] = [phase |-> phase, try |-> try]]

Saves(phase, to) ==
  /\ Save /\ Puts(phase, run.try)
  /\ Goes(to, [run EXCEPT !.phase = phase, !.again = FALSE])

\* What was there is about to be discarded, as the operator asked or will be told.
Discards == promised' = NoRecord

\* failWipe: this run's state is deleted, if it is in the state file.
FailWipe(r) ==
  IF r.created THEN Wipe /\ Discards /\ Goes("wiping", r) /\ UNCHANGED content
  ELSE NoCall /\ Goes("over", r) /\ UNCHANGED promised

Fails(why) == FailWipe([run EXCEPT !.why = why])

\* A wipe that failed leaves the file: the next run may resume it.
Wiped ==
  /\ at = "wiping" /\ Idle /\ NoCall
  /\ Goes("over", [run EXCEPT !.left = result # "wiped", !.created = @ /\ result # "wiped"])
  /\ UNCHANGED <<outside, start, promised>>

-----------------------------------------------------------------------------
(***************************************************************************)
(* A run begins: the operator may give a code, or --restart, and may not    *)
(* give the passphrase.                                                    *)
(***************************************************************************)

Start ==
  /\ at = "none" /\ Open /\ pc' = "open"
  /\ Goes("begun", NoRun)
  /\ start' = [state |-> dir.state, opens |-> Opens(dir.state)]
  /\ UNCHANGED <<content, outside, promised>>

NothingThere ==
  /\ at = "begun" /\ dir.state = Nothing /\ NoCall /\ Goes("new", run)
  /\ UNCHANGED <<outside, start, promised>>

\* The file does not open, or its passphrase was not given: only --restart goes on.
Unreadable ==
  /\ at = "begun" /\ dir.state # Nothing
  /\ Stops("unreadable") \/ (NoCall /\ Goes("new", [run EXCEPT !.replace = TRUE]))
  /\ UNCHANGED <<outside, start, promised>>

Found == content[dir.state]

Loads == Load /\ UNCHANGED <<content, outside, start>>

AlreadyPaired ==
  /\ at = "begun" /\ Loads /\ Found.phase = "paired"
  /\ Goes("over", [run EXCEPT !.why = "already"]) /\ UNCHANGED promised

\* Without a code or --restart the wait goes on with the saved keys, unless
\* it ended while nothing ran.
Resume ==
  /\ at = "begun" /\ Loads /\ Found.phase = "waiting"
  /\ UNCHANGED promised
  /\ LET r == [run EXCEPT !.try = Found.try, !.phase = "waiting", !.created = TRUE]
     IN IF Found.try \in over THEN Goes("expiring", [r EXCEPT !.why = "expired"])
        ELSE Goes("wait", r)

Expire ==
  /\ at = "expiring" /\ FailWipe(run) /\ UNCHANGED <<outside, start>>

\* --restart, a code given over a pairing that waits, or one that only started.
Replaces ==
  /\ at = "begun" /\ Loads
  /\ Goes("new", [run EXCEPT !.replace = TRUE]) /\ UNCHANGED promised

-----------------------------------------------------------------------------
(***************************************************************************)
(* A new attempt: the keys and the first write.                            *)
(***************************************************************************)

\* The code, the protector or the relay is refused; nothing was written.
NotBegun ==
  /\ at = "new" /\ Stops("failed") /\ UNCHANGED <<outside, start, promised>>

FirstWrite ==
  /\ at = "new" /\ tries < MaxTries /\ tries' = tries + 1 /\ Discards
  /\ LET r == [run EXCEPT !.try = tries + 1, !.phase = "started"]
     IN \/ ~run.replace /\ Create /\ Puts("started", r.try) /\ Goes("saving", r)
        \/ run.replace /\ CreateReplace /\ Puts("started", r.try) /\ Goes("saving", r)
        \/ \* ErrProtectorUnknown, of a file that did not open
           /\ run.replace /\ None \in OldProtector
           /\ WipeAll /\ Goes("wipingall", [r EXCEPT !.gone = TRUE]) /\ UNCHANGED content
  /\ UNCHANGED <<vault, acked, over, start>>

CreateAfterWipeAll ==
  /\ at = "wipingall" /\ Idle
  /\ IF result = "allwiped" THEN Create /\ Puts("started", run.try) /\ Goes("saving", run)
     ELSE Stops("failed")
  /\ UNCHANGED <<outside, start, promised>>

-----------------------------------------------------------------------------
(***************************************************************************)
(* save returns.                                                           *)
(***************************************************************************)

\* What write() notes of the Store's answer.
ForgetsIncomplete(r) ==
  [r EXCEPT !.created  = @ \/ result \in {"saved", "replaced", "notdurable", "partly"},
            !.replaced = @ \/ (r.replace /\ result \in {"saved", "replaced", "notdurable"}),
            !.gone     = @ \/ result = "partly"]
ForgetsPartly(r) ==
  [r EXCEPT !.created  = @ \/ result \in {"saved", "replaced", "notdurable"},
            !.replaced = @ \/ (r.replace /\ result \in {"saved", "replaced", "notdurable"}),
            !.gone     = @ \/ result \in {"partly", "incomplete"}]
Noted(r) ==
  [r EXCEPT !.created  = @ \/ result \in {"saved", "replaced", "notdurable", "partly"},
            !.replaced = @ \/ (r.replace /\ result \in {"saved", "replaced", "notdurable"}),
            !.gone     = @ \/ result \in {"partly", "incomplete"}]

\* In place and not flushed: saved once more.
SaveOnceMore ==
  /\ at = "saving" /\ Idle /\ result = "notdurable" /\ ~run.again
  /\ Save /\ Puts(run.phase, run.try) /\ Goes("saving", [Noted(run) EXCEPT !.again = TRUE])
  /\ UNCHANGED <<outside, start, promised>>

\* What lets the run go on, and show the SAS.
InPlace == result \in {"saved", "replaced", "notdurable"}
Durable == result \in {"saved", "replaced"}

SaveReturns ==
  /\ at = "saving" /\ Idle /\ (result = "notdurable" => run.again)
  /\ IF Durable
       THEN /\ NoCall
            /\ CASE run.phase = "started" -> Goes("handshake", Noted(run)) /\ UNCHANGED promised
                 [] run.phase = "waiting" ->
                      /\ Goes("wait", run) /\ promised' = [phase |-> "waiting", try |-> run.try]
                 [] run.phase = "paired" ->
                      /\ Goes("over", [run EXCEPT !.why = "paired"]) /\ UNCHANGED promised
     ELSE IF run.phase = "paired" /\ result = "notdurable"
       THEN Stops("pairedwarned") /\ UNCHANGED promised
     ELSE FailWipe([Noted(run) EXCEPT !.why = "failed"])
  /\ UNCHANGED <<outside, start>>

-----------------------------------------------------------------------------
(***************************************************************************)
(* The handshake and the wait.                                             *)
(***************************************************************************)

\* The batch with the vault's hs.resp is saved before it is acknowledged.
Handshake ==
  /\ at = "handshake" /\ vault' = [vault EXCEPT ![run.try] = "asked"]
  /\ \/ Saves("started", "persisting") /\ UNCHANGED promised
     \/ Fails("failed")
  /\ UNCHANGED <<tries, acked, over, start>>

\* Refused, interrupted or timed out before the vault has it.
HandshakeFails ==
  /\ at = "handshake" /\ Fails("failed") /\ UNCHANGED <<outside, start>>

\* The client goes on after a batch that could not be saved, or gives up.
BatchSaved ==
  /\ at = "persisting" /\ Idle
  /\ \/ run.phase = "started" /\ Saves("waiting", "saving") /\ UNCHANGED promised
     \/ run.phase = "waiting" /\ NoCall /\ Goes("wait", run) /\ UNCHANGED promised
     \/ run.phase # "paired" /\ Fails("failed")
  /\ UNCHANGED <<outside, start>>

\* A batch without the decision.
OtherBatch ==
  /\ at = "wait" /\ Saves("waiting", "persisting") /\ UNCHANGED <<outside, start, promised>>

Approved == vault[run.try] = "paired" /\ run.try \notin acked

ApprovalArrives ==
  /\ at = "wait" /\ Approved /\ Saves("paired", "persisting")
  /\ UNCHANGED <<outside, start, promised>>

\* A batch is acknowledged when it is saved.
MayAckUnsaved == TRUE
MayAck == result = "saved"

\* device.paired is saved: it is acknowledged, unless the relay cannot be reached.
Acknowledged ==
  /\ at = "persisting" /\ Idle /\ run.phase = "paired" /\ MayAck
  /\ NoCall /\ Goes("over", [run EXCEPT !.why = "paired"])
  /\ \/ acked' = acked \cup {run.try} /\ promised' = [phase |-> "paired", try |-> run.try]
     \/ UNCHANGED <<acked, promised>>
  /\ UNCHANGED <<tries, vault, over, start>>

\* The wait ends with an error all the same: an interrupt, the window's end, or one the client does not go on after.
\* What was saved as paired stays after an interrupt, and is deleted otherwise.
DecidedTooLate ==
  /\ at = "persisting" /\ Idle /\ run.phase = "paired"
  /\ \/ /\ Stops("interrupted")
        /\ \/ MayAck /\ acked' = acked \cup {run.try} /\ promised' = [phase |-> "paired", try |-> run.try]
           \/ UNCHANGED <<acked, promised>>
     \/ /\ Fails(IF run.try \in over THEN "expired" ELSE "failed")
        /\ acked' = acked \/ (MayAck /\ acked' = acked \cup {run.try})
  /\ UNCHANGED <<tries, vault, over, start>>

\* It is not saved: the batch stays, and the final save tries again.
FinalSave ==
  /\ at = "persisting" /\ Idle /\ run.phase = "paired" /\ result # "saved"
  /\ Saves("paired", "saving") /\ UNCHANGED <<outside, start, promised>>

Rejected ==
  /\ at = "wait" /\ vault[run.try] = "rejected" /\ run.try \notin acked
  /\ acked' = acked \cup {run.try} /\ Fails("rejected")
  /\ UNCHANGED <<tries, vault, over, start>>

Interrupted ==
  /\ at = "wait" /\ Stops("interrupted") /\ UNCHANGED <<outside, start, promised>>

TimedOut ==
  /\ at = "wait" /\ run.try \in over /\ Fails("expired") /\ UNCHANGED <<outside, start>>

AnswerUnreadable ==
  /\ at = "wait" /\ Fails("failed") /\ UNCHANGED <<outside, start>>

-----------------------------------------------------------------------------
(***************************************************************************)
(* The run ends, or dies.                                                  *)
(***************************************************************************)

\* No later run reads the record of a file that is no state file, on the disk or before a power loss,
\* and not among those written since the last durable one.
StillRead ==
  LET Kept == {f \in File : confirmed # Nothing /\ f >= confirmed} \cup {d.state : d \in Possible'}
  IN content' = [f \in File |-> IF f \in Kept THEN content[f] ELSE NoRecord]

Ended ==
  /\ at = "over" /\ CloseStore /\ Goes("none", NoRun) /\ start' = Unseen
  /\ StillRead /\ UNCHANGED <<outside, promised>>

Dies ==
  /\ at # "none" /\ (Crash \/ PowerLoss) /\ Goes("none", NoRun) /\ start' = Unseen
  /\ StillRead /\ UNCHANGED <<outside, promised>>

PowerGoes ==
  /\ at = "none" /\ PowerLoss /\ UNCHANGED pairing

\* A step of the Store's operation under way.
StoreStep ==
  /\ \/ OldKeyWiped \/ OverwriteFirst \/ Wrap \/ WriteTemp \/ SyncTemp \/ Rename \/ Flush \/ Reflush \/ Overwrite
     \/ KeyWiped \/ ZeroFile \/ Unlink \/ WipeTemps \/ SyncDir
  /\ UNCHANGED pairing

PairingNext ==
  \/ \E t \in Try : VaultDecides(t) \/ WindowEnds(t)
  \/ Start \/ NothingThere \/ Unreadable \/ AlreadyPaired \/ Resume \/ Expire \/ Replaces
  \/ NotBegun \/ FirstWrite \/ CreateAfterWipeAll \/ SaveOnceMore \/ SaveReturns
  \/ Handshake \/ HandshakeFails \/ BatchSaved \/ OtherBatch \/ ApprovalArrives
  \/ Acknowledged \/ DecidedTooLate \/ FinalSave \/ Rejected \/ Interrupted \/ TimedOut \/ AnswerUnreadable
  \/ Wiped \/ Ended \/ Dies \/ PowerGoes \/ StoreStep

PairingSpec == PairingInit /\ [][PairingNext]_allvars

-----------------------------------------------------------------------------
(***************************************************************************)
(* Properties.                                                             *)
(***************************************************************************)

Holds(d, t, phases) ==
  d.state # Nothing /\ content[d.state].try = t /\ content[d.state].phase \in phases

(* A shown SAS always has a resumable state behind it: until the attempt is *)
(* discarded, whatever directory a crash or a power loss leaves has its     *)
(* record, waiting or paired, in a file that opens (pairNew, persist).      *)
ShownIsResumable ==
  promised.try # 0 =>
    \A d \in Possible : Holds(d, promised.try, {"waiting", "paired"}) /\ OpensAfterLoss(d.state)

(* An approval that the relay dropped because it was acknowledged is in the *)
(* state file, as paired, whatever happens next, until the operator asks to *)
(* replace it or the run that waited ends with an error and deletes it      *)
(* (persist: saved before the batch is acknowledged).                       *)
ApprovalIsKept ==
  promised.phase = "paired" => \A d \in Possible : Holds(d, promised.try, {"paired"})

Failure == {"failed", "expired", "rejected"}
SaysKept == run.replace /\ ~run.replaced /\ ~run.gone /\ run.why \in Failure

(* What the operator reads is so.  "Kept" means that the earlier file is     *)
(* there and opens as before; when it is not, the run said that it was       *)
(* replaced or may be gone; "paired" means that the file in place says so,   *)
(* and opens, after a power loss too unless it warned (Pair, write, wait).   *)
ToldIsSo ==
  at = "over" =>
    /\ SaysKept => dir.state = start.state /\ (start.opens => Opens(dir.state))
    /\ run.replace /\ ~(dir.state = start.state /\ (start.opens => Opens(dir.state))) =>
         run.replaced \/ run.gone
    /\ run.why \in {"paired", "pairedwarned"} =>
         Holds(dir, run.try, {"paired"}) /\ Opens(dir.state)
    /\ run.why = "paired" =>
         \A d \in Possible : Holds(d, run.try, {"paired"}) /\ OpensAfterLoss(d.state)

(* Nothing of a failed pairing is kept: unless the operator was told that   *)
(* it could not be deleted, no state file of the attempt is left, now or    *)
(* after a power loss (failWipe).                                           *)
NothingIsKept ==
  at = "over" /\ run.why \in Failure /\ ~run.left =>
    \A d \in Possible : ~Holds(d, run.try, Phases)
=============================================================================
