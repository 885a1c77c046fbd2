------------------------------ MODULE VaultConn ------------------------------
(***************************************************************************)
(* internal/vaultconn: the one goroutine (Conn.Run) that owns the vault    *)
(* client, collects the mailbox, saves the state before a batch is         *)
(* acknowledged, hands responses to the requests that wait for them and    *)
(* events to OnEvent, and acts on device.unlinked and a refused key.       *)
(*                                                                         *)
(* Run is a loop with a program counter: "top" (vault.status), "send"      *)
(* (takeCalls, then Poll), "ack" (between the save and the acknowledgement *)
(* in Poll), "dispatch" and "check" (after it).  Requests run in goroutines *)
(* of their own and meet Run at the channel c.calls and at their buffer.   *)
(* What a batch does to the access session and to the grants is in         *)
(* AccessPolicy and LeashGrants; here its effect is that it was applied.   *)
(* Pauses, their lengths and the 6 hours between two vault.status are      *)
(* nondeterministic.  A definition used nowhere is a mistake in the one    *)
(* that follows it, which a run tells apart (README, Mutants).             *)
(***************************************************************************)
EXTENDS Integers, Sequences, FiniteSets

CONSTANTS
  Call,            \* requests of other goroutines (RequestWithID)
  Id,              \* inner ids they may carry
  None,            \* no id
  DrainMaxCollect, \* drainMaxCollect
  MaxMessages,     \* bound: events the vault sends
  MaxStatus,       \* bound: vault.status sent at start or when due again
  MaxFaults        \* bound: failures, ended contexts, crashes

ASSUME ConnAssumption ==
  /\ DrainMaxCollect \in Nat \ {0} /\ MaxMessages \in Nat /\ MaxStatus \in Nat /\ MaxFaults \in Nat
  /\ None \notin Id /\ None \notin Nat /\ None \notin Call /\ Id \cap Nat = {}

VARIABLES
  \* the vault and the relay
  mail,       \* the device's mailbox at the relay
  owed,       \* requests the vault has not answered
  serial,     \* messages sent so far
  events,     \* events sent so far
  removed,    \* the vault removed this agent: its key is refused
  faults,
  \* the state file
  saved,      \* messages whose effect it has
  wiped,
  \* Run's goroutine
  pc,
  applied,    \* messages applied in memory (the client recognises them)
  drained,    \* c.events: taken in persist, not yet dispatched
  batch,      \* collected, saved and about to be acknowledged
  pending,    \* c.pending
  statusID, statuses, due, refused, drains,
  poll,       \* how the last Poll ended
  outcome,    \* what Run returned
  handed,     \* events given to OnEvent by this process
  \* the requests
  call,       \* by goroutine: where it is and the id it carries
  dead,       \* requests whose context ended
  done        \* the buffered channel of each

relay  == <<mail, owed, serial, events, removed, faults>>
file   == <<saved, wiped>>
memory == <<applied, drained, batch>>
status == <<statusID, statuses, due>>
ending == <<refused, drains, poll, outcome>>
calls  == <<call, dead, done>>
vars   == <<relay, file, pc, memory, pending, status, ending, handed, calls>>

Types == {"response", "event", "device.unlinked"}
Message == [serial: Nat, type: Types, re: Id \cup Nat \cup {None}]

\* Errors, and "response" with the message.
Result == [err: {"", "context", "refused", "superseded", "send", "stopped"}, resp: Message \cup {None}]
Err(e) == [err |-> e, resp |-> None]
Resp(m) == [err |-> "", resp |-> m]

Init ==
  /\ mail = {} /\ owed = {} /\ serial = 0 /\ events = 0 /\ removed = FALSE /\ faults = 0
  /\ saved = {} /\ wiped = FALSE
  /\ pc = "top" /\ applied = {} /\ drained = {} /\ batch = {}
  /\ pending = [i \in Id |-> None]
  /\ statusID = 0 /\ statuses = 0 /\ due = TRUE
  /\ refused = FALSE /\ drains = 0 /\ poll = "ok" /\ outcome = "" /\ handed = {}
  /\ call = [c \in Call |-> [at |-> "idle", id |-> None]] /\ dead = {}
  /\ done = [c \in Call |-> <<>>]

Fault == faults < MaxFaults /\ faults' = faults + 1

-----------------------------------------------------------------------------
(***************************************************************************)
(* The vault.                                                              *)
(***************************************************************************)

Deposit(type, re) ==
  /\ mail' = mail \cup {[serial |-> serial + 1, type |-> type, re |-> re]}
  /\ serial' = serial + 1

Settled == UNCHANGED <<file, pc, memory, pending, status, ending, handed, calls>>

\* A request sent again under its id is answered again.
VaultAnswers(i) ==
  /\ i \in owed
  /\ Deposit("response", i)
  /\ \/ owed' = owed \ {i} /\ UNCHANGED faults
     \/ Fault /\ UNCHANGED owed
  /\ UNCHANGED <<events, removed>> /\ Settled

VaultEvent ==
  /\ events < MaxMessages /\ events' = events + 1 /\ ~removed
  /\ Deposit("event", None)
  /\ UNCHANGED <<owed, removed, faults>> /\ Settled

\* The member removes the agent: device.unlinked goes out, and its key is refused.
VaultUnlinks ==
  /\ events < MaxMessages /\ events' = events + 1 /\ ~removed /\ removed' = TRUE
  /\ Deposit("device.unlinked", None)
  /\ UNCHANGED <<owed, faults>> /\ Settled

-----------------------------------------------------------------------------
(***************************************************************************)
(* Requests, from other goroutines.                                        *)
(***************************************************************************)

Others == UNCHANGED <<relay, file, pc, memory, pending, status, ending, handed>>

\* It offers itself to Run at c.calls.
Request(c, i) ==
  /\ call[c].at = "idle"
  /\ call' = [call EXCEPT ![c] = [at |-> "offered", id |-> i]]
  /\ UNCHANGED <<dead, done>> /\ Others

ContextEnds(c) ==
  /\ call[c].at \in {"offered", "waiting"} /\ c \notin dead /\ Fault
  /\ dead' = dead \cup {c}
  /\ UNCHANGED <<mail, owed, serial, events, removed, file, pc, memory, pending, status, ending, handed, call, done>>

Returned(c) == call' = [call EXCEPT ![c] = [at |-> "returned", id |-> call[c].id]]

\* Its result, its context's end or Run's end, whichever select takes; a result goes before Run's end.
Returns(c) ==
  /\ \/ call[c].at = "waiting" /\ done[c] # <<>> /\ done' = [done EXCEPT ![c] = Tail(done[c])]
     \/ call[c].at \in {"offered", "waiting"} /\ c \in dead /\ UNCHANGED done
     \/ call[c].at = "offered" /\ pc = "ended" /\ UNCHANGED done
     \/ call[c].at = "waiting" /\ pc = "ended" /\ done[c] = <<>> /\ UNCHANGED done
  /\ Returned(c)
  /\ UNCHANGED dead /\ Others

-----------------------------------------------------------------------------
(***************************************************************************)
(* Run: sending.                                                           *)
(***************************************************************************)

\* The relay refuses the key of a removed agent; any other failure is a fault.
SendsOk == ~removed /\ UNCHANGED faults
SendFails == Fault /\ UNCHANGED refused
TokenRevoked == removed /\ UNCHANGED faults /\ refused' = TRUE

Give(S, r) == done' = [c \in Call |-> IF c \in S THEN Append(done[c], r) ELSE done[c]]
Waiters == {pending[i] : i \in Id} \ {None}
Nobody == [i \in Id |-> None]
KeepWaiters == UNCHANGED pending
ForgetWaiters == pending' = Nobody

\* vault.status when due; a failed send is due again after a pause.
NotDueAgain == due' = FALSE
DueAgain == UNCHANGED due
SendStatus ==
  /\ pc = "top" /\ pc' = "send" /\ due /\ ~refused /\ statuses < MaxStatus
  /\ \/ /\ SendsOk
        /\ statuses' = statuses + 1 /\ statusID' = statuses + 1 /\ owed' = owed \cup {statuses + 1}
        /\ due' = FALSE
        /\ UNCHANGED <<pending, done, refused>>
     \/ /\ SendFails /\ DueAgain
        /\ UNCHANGED <<owed, statusID, statuses, pending, done>>
     \/ /\ TokenRevoked /\ DueAgain /\ Give(Waiters, Err("refused")) /\ ForgetWaiters
        /\ UNCHANGED <<owed, statusID, statuses>>
  /\ UNCHANGED <<mail, serial, events, removed, file, memory, drains, poll, outcome, handed, call, dead>>

NoStatus ==
  /\ pc = "top" /\ pc' = "send" /\ (~due \/ refused \/ statuses >= MaxStatus)
  /\ UNCHANGED <<relay, file, memory, pending, status, ending, handed, calls>>

\* StatusEvery has passed.
StatusDue ==
  /\ ~due /\ due' = TRUE
  /\ UNCHANGED <<relay, file, pc, memory, pending, statusID, statuses, ending, handed, calls>>

Taken(c) == call' = [call EXCEPT ![c] = [at |-> "waiting", id |-> call[c].id]]
Unanswered(c, e) == UNCHANGED <<done, owed, pending>>
Answered(c, e) == Give({c}, Err(e)) /\ UNCHANGED <<owed, pending>>

\* The call that waited under the same id learns that another took its place.
ForgetOlder(c) == UNCHANGED done
SupersedeOlder(c) == Give({pending[call[c].id]} \ {None}, Err("superseded"))

TakeCall(c) ==
  /\ pc = "send" /\ call[c].at = "offered"
  /\ Taken(c)
  /\ \/ c \in dead /\ Answered(c, "context") /\ UNCHANGED <<refused, faults>>
     \/ c \notin dead /\ refused /\ Answered(c, "refused") /\ UNCHANGED <<refused, faults>>
     \/ /\ c \notin dead /\ ~refused /\ SendsOk /\ UNCHANGED refused
        /\ SupersedeOlder(c)
        /\ pending' = [pending EXCEPT ![call[c].id] = c]
        /\ owed' = owed \cup {call[c].id}
     \/ c \notin dead /\ ~refused /\ SendFails /\ Answered(c, "send")
     \/ /\ c \notin dead /\ ~refused /\ TokenRevoked
        /\ Give(Waiters \cup {c}, Err("refused"))
        /\ ForgetWaiters /\ UNCHANGED owed
  /\ UNCHANGED <<mail, serial, events, removed, file, pc, memory, status, drains, poll, outcome, handed, dead>>

-----------------------------------------------------------------------------
(***************************************************************************)
(* Run: Poll, with persist inside it.                                      *)
(***************************************************************************)

Unlinked(S) == \E m \in S : m.type = "device.unlinked"

\* takeCalls goes on while a request offers itself.
Collects == pc = "send" /\ \A c \in Call : call[c].at # "offered"

\* A long poll that brings nothing, or fails.
CollectNothing ==
  /\ Collects /\ pc' = "check"
  /\ \/ mail = {} /\ poll' = "empty" /\ UNCHANGED faults
     \/ Fault /\ poll' = "failed"
  /\ UNCHANGED <<mail, owed, serial, events, removed, file, memory, pending, status, refused, drains, outcome,
                 handed, calls>>

\* persist, with the batch B collected: what the client had not handled is drained and applied,
\* then the record is saved; an error leaves the batch unacknowledged.
Collected(B) ==
  /\ Collects /\ B # {} /\ B \subseteq mail
  /\ drained' = drained \cup (B \ applied)

AckAnyway == "ack"
LeaveUnacked == "dispatch"
Persist(B) ==
  /\ Collected(B) /\ ~Unlinked(B \ applied)
  /\ applied' = applied \cup B
  /\ \/ saved' = applied' /\ pc' = "ack" /\ poll' = "ok" /\ UNCHANGED faults
     \/ /\ Fault /\ saved' \in {saved, applied'}   \* ErrNotDurable: it may have been replaced
        /\ pc' = LeaveUnacked /\ poll' = "failed"
  /\ batch' = B
  /\ UNCHANGED <<mail, owed, serial, events, removed, wiped, pending, status, refused, drains, outcome, handed, calls>>

\* On device.unlinked the state is wiped and not saved; a wipe that fails may have wiped it.
WipeAfterAck == UNCHANGED wiped
WipeFirst == wiped' = TRUE
PersistUnlinked(B) ==
  /\ Collected(B) /\ Unlinked(B \ applied)
  /\ applied' = applied \cup B
  /\ \/ WipeFirst /\ pc' = "ack" /\ poll' = "unlinked" /\ UNCHANGED faults
     \/ Fault /\ wiped' \in BOOLEAN /\ pc' = "dispatch" /\ poll' = "wipeFailed"
  /\ batch' = B
  /\ UNCHANGED <<mail, owed, serial, events, removed, saved, pending, status, refused, drains, outcome, handed, calls>>

AckAll == mail' = {}
AckBatch == mail' = mail \ batch
Acknowledge ==
  /\ pc = "ack" /\ pc' = "dispatch"
  /\ \/ AckBatch /\ UNCHANGED <<poll, faults>>
     \/ Fault /\ UNCHANGED mail /\ poll' = IF poll = "ok" THEN "failed" ELSE poll
  /\ UNCHANGED <<owed, serial, events, removed, file, memory, pending, status, refused, drains,
                 outcome, handed, calls>>

-----------------------------------------------------------------------------
(***************************************************************************)
(* Run: what follows Poll.                                                 *)
(***************************************************************************)

\* A request is forgotten when its context ended; its answer takes it out.
Alive == {c \in Waiters : c \notin dead}
AnswerTo(c) == {m \in drained : m.re = call[c].id}
DrainedAgain == UNCHANGED drained
DrainedOnce == drained' = {}

Dispatch ==
  /\ pc = "dispatch" /\ pc' = "check"
  /\ LET heard == {c \in Alive : AnswerTo(c) # {}}
     IN  /\ \E answer \in [heard -> drained] :
              /\ \A c \in heard : answer[c] \in AnswerTo(c)
              /\ done' = [c \in Call |-> IF c \in heard THEN Append(done[c], Resp(answer[c])) ELSE done[c]]
         /\ pending' = [i \in Id |-> IF pending[i] \in Alive \ heard THEN pending[i] ELSE None]
  /\ statusID' = IF \E m \in drained : m.re = statusID THEN 0 ELSE statusID
  /\ handed' = handed \cup {m \in drained : m.type = "event"}
  /\ DrainedOnce /\ batch' = {}
  /\ UNCHANGED <<relay, file, applied, statuses, due, ending, call, dead>>

Ended(o) ==
  /\ pc' = "ended" /\ outcome' = o
  /\ Give(Waiters, Err("stopped")) /\ ForgetWaiters

\* drainMaxTime may have passed before drainMaxCollect.
DrainedAtOnce == TRUE
Drained == poll = "empty" \/ drains + 1 >= DrainMaxCollect

Check ==
  /\ pc = "check"
  /\ \/ poll \in {"unlinked", "wipeFailed"} /\ Ended(poll) /\ UNCHANGED <<drains, faults>>
     \/ /\ poll \notin {"unlinked", "wipeFailed"} /\ refused
        /\ \/ Drained /\ UNCHANGED faults
           \/ ~Drained /\ Fault
        /\ Ended("refused") /\ UNCHANGED drains
     \/ /\ poll \notin {"unlinked", "wipeFailed"}
        /\ \/ ~refused /\ UNCHANGED drains
           \/ refused /\ ~Drained /\ drains' = drains + 1
        /\ pc' = "top" /\ UNCHANGED <<outcome, pending, done, faults>>
  /\ UNCHANGED <<mail, owed, serial, events, removed, file, memory, status, refused, poll, handed, call, dead>>

\* The operator stops the connector: Run sees it at the top of the loop, or after Poll.
Stop ==
  /\ pc \in {"top", "check"} /\ poll \notin {"unlinked", "wipeFailed"}
  /\ Fault /\ Ended("stopped")
  /\ UNCHANGED <<mail, owed, serial, events, removed, file, memory, status, refused, drains, poll, handed, call, dead>>

\* The process ends, at any point, and the next one loads the state file, if there is one.
Restart ==
  /\ Fault /\ ~wiped
  /\ applied' = saved /\ drained' = {} /\ batch' = {} /\ pc' = "top"
  /\ pending' = Nobody /\ statusID' = 0 /\ due' = TRUE
  /\ refused' = FALSE /\ drains' = 0 /\ poll' = "ok" /\ outcome' = "" /\ handed' = {}
  /\ call' = [c \in Call |-> [at |-> "idle", id |-> None]] /\ dead' = {} /\ done' = [c \in Call |-> <<>>]
  /\ UNCHANGED <<mail, owed, serial, events, removed, file, statuses>>

\* It may end between the wipe and the acknowledgement: there is nothing to load then.
EndsWiped ==
  /\ Fault /\ wiped /\ pc # "ended"
  /\ pc' = "ended" /\ outcome' = "stopped"
  /\ pending' = Nobody /\ done' = [c \in Call |-> <<>>]
  /\ call' = [c \in Call |-> [at |-> "returned", id |-> None]]
  /\ UNCHANGED <<mail, owed, serial, events, removed, file, memory, status, refused, drains, poll, handed, dead>>

-----------------------------------------------------------------------------
Run ==
  \/ SendStatus \/ NoStatus \/ CollectNothing
  \/ \E c \in Call : TakeCall(c)
  \/ \E B \in SUBSET mail : Persist(B) \/ PersistUnlinked(B)
  \/ Acknowledge \/ Dispatch \/ Check

Next ==
  \/ \E i \in owed : VaultAnswers(i)
  \/ VaultEvent \/ VaultUnlinks
  \/ \E c \in Call : ContextEnds(c) \/ Returns(c) \/ \E i \in Id : Request(c, i)
  \/ Run \/ StatusDue \/ Stop \/ Restart \/ EndsWiped

Spec == Init /\ [][Next]_vars

\* The vault answers, Run goes on (bounded pauses, long polls), and a request whose select may return does.
Fairness ==
  /\ WF_vars(Run)
  /\ \A i \in Id \cup 1..MaxStatus : WF_vars(VaultAnswers(i))
  /\ \A c \in Call : WF_vars(Returns(c))
FairSpec == Spec /\ Fairness

-----------------------------------------------------------------------------
(***************************************************************************)
(* What makes it correct.                                                  *)
(***************************************************************************)

RelayType ==
  /\ mail \subseteq Message /\ owed \subseteq Id \cup Nat
  /\ serial \in Nat /\ events \in Nat /\ removed \in BOOLEAN /\ faults \in Nat

FileType == saved \subseteq Message /\ wiped \in BOOLEAN

RunType ==
  /\ pc \in {"top", "send", "ack", "dispatch", "check", "ended"}
  /\ applied \subseteq Message /\ drained \subseteq Message /\ batch \subseteq Message /\ handed \subseteq Message
  /\ pending \in [Id -> Call \cup {None}]
  /\ statusID \in Nat /\ statuses \in Nat /\ due \in BOOLEAN
  /\ refused \in BOOLEAN /\ drains \in Nat
  /\ poll \in {"ok", "empty", "failed", "unlinked", "wipeFailed"}
  /\ outcome \in {"", "unlinked", "wipeFailed", "refused", "stopped"}

CallsType ==
  /\ call \in [Call -> [at: {"idle", "offered", "waiting", "returned"}, id: Id \cup {None}]]
  /\ \A c \in Call : call[c].at \in {"offered", "waiting"} => call[c].id \in Id
  /\ dead \subseteq Call /\ done \in [Call -> Seq(Result)]

TypeOK == RelayType /\ FileType /\ RunType /\ CallsType

\* No message is lost: until the state is wiped, the relay keeps it or the state file has its effect,
\* whatever saves, acknowledgements and processes fail in between (persist before the acknowledgement).
NothingLost ==
  ~wiped => \A n \in 1..serial : \E m \in mail \cup saved : m.serial = n

\* What is applied in memory and not yet in the state file is still in the mailbox, and so is collected
\* again; a batch is acknowledged once it is in the state file, or the state wiped.
AppliedIsKept == saved \subseteq applied /\ (~wiped => applied \subseteq mail \cup saved)
AckedIsSaved == pc = "ack" => wiped \/ batch \subseteq saved

\* After a wipe Run never reaches another save.
WipedEnds ==
  wiped => \/ pc \in {"ack", "dispatch", "check"} /\ poll \in {"unlinked", "wipeFailed"}
           \/ pc = "ended"

\* The inductive invariant of the mailbox.
IInv == TypeOK /\ NothingLost /\ AppliedIsKept /\ AckedIsSaved /\ WipedEnds

\* Every request that waits for a result is one Run will answer (takeCalls, failPending, dispatch).
EveryWaiterIsHeard ==
  \A c \in Call :
    call[c].at = "waiting" /\ done[c] = <<>> /\ c \notin dead => pending[call[c].id] = c

\* Run gives a request at most one result: its buffered channel never blocks the one goroutine that
\* serves them all.
OneResult ==
  \A c \in Call : Len(done[c]) <= 1 /\ (c \in Waiters => done[c] = <<>>)

\* The inductive invariant of the requests: who is in c.pending was taken under that id and has no result
\* yet; a call has a result only once it was taken; every waiter is heard.
WaitersWait ==
  \A i \in Id : pending[i] # None =>
    /\ call[pending[i]].id = i /\ call[pending[i]].at \in {"waiting", "returned"}
    /\ done[pending[i]] = <<>>
AnsweredWhenTaken ==
  \A c \in Call : done[c] # <<>> => Len(done[c]) = 1 /\ call[c].at \in {"waiting", "returned"}
RequestsInv == WaitersWait /\ AnsweredWhenTaken /\ EveryWaiterIsHeard

\* In one process an event is handed to OnEvent once, though its batch is collected again after a
\* failed save or acknowledgement (Options.OnEvent: "not delivered twice in this process").
HandedOnce == drained \cap handed = {}

\* What is handed over was applied, and so is not drained when it is collected again.
HandedIsApplied == drained \subseteq applied /\ handed \subseteq applied

\* A removed agent learns it: the relay refuses its key while device.unlinked is still in the mailbox,
\* and Run does not end before it was read (Run: "keep collecting while device.unlinked may still be
\* waiting"), unless more messages were sent than it collects times, or something failed meanwhile.
DrainReadsUnlinked ==
  outcome = "refused" /\ faults = 0 /\ serial <= DrainMaxCollect => ~Unlinked(mail)

\* The inductive invariant of the drain: a round of Run that found messages takes one from the mailbox or
\* fails, and after the refusal the vault sends answers only.
RefusedWhenRemoved == (outcome = "refused" => refused) /\ (refused => removed)
EachRoundCounts ==
  /\ pc = "ack" => batch # {} /\ batch \subseteq mail
  /\ drains + Cardinality(mail) + (IF pc \in {"dispatch", "check"} /\ poll # "empty" THEN 1 ELSE 0)
       <= serial + faults
EmptyWhenDrained ==
  /\ pc \in {"ack", "dispatch"} => poll # "empty"
  /\ pc = "check" /\ refused /\ poll = "empty" => ~Unlinked(mail)
DrainInv == RefusedWhenRemoved /\ EachRoundCounts /\ EmptyWhenDrained /\ DrainReadsUnlinked

\* What the vault holds is read at start: vault.status is sent again until it goes out, and answered,
\* unless Run ends or is refused (Run, sendStatus).
StatusIsRead == <>((statuses > 0 /\ statusID = 0) \/ refused \/ pc = "ended")

\* Every request ends, without its context's end: with its answer, or because it was replaced, refused,
\* not sent or Run ended (request).
RequestsEnd == \A c \in Call : call[c].at = "offered" ~> call[c].at \in {"returned", "idle"}

\* The mailbox is what DurableMailbox promises.
Mailbox == INSTANCE DurableMailbox
  WITH box <- mail, durable <- saved, wiped <- wiped, Message <- Message,
       Unlinks <- {m \in Message : m.type = "device.unlinked"}
KeepsMail == Mailbox!Spec
=============================================================================
