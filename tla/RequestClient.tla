---------------------------- MODULE RequestClient ----------------------------
(***************************************************************************)
(* internal/leash/request: the Client that makes agent.request requests    *)
(* for tool calls.                                                         *)
(*                                                                         *)
(* A tool call registers an entry and waits a while; the request runs in a *)
(* goroutine of its own, sends up to 1 + Retransmissions copies under one  *)
(* inner id, and records the outcome.  A call whose wait ended returns the *)
(* id, and Status collects the outcome later, once.  Times are what is     *)
(* left of them: a tick takes one from every running wait.                 *)
(*                                                                         *)
(* Each critical section of Client.mu is one action.  The vault connection *)
(* is as VaultConn models it; access sessions are in AccessPolicy.  What a *)
(* request asks and answers is left out, except whether it is a result     *)
(* (kept, wiped) or an error.  A definition used nowhere is a mistake in   *)
(* the one that follows it, which a run tells apart (README, Mutants).     *)
(***************************************************************************)
EXTENDS Naturals, FiniteSets

CONSTANTS
  Tool,             \* tool calls; each makes one request
  Retransmissions,  \* copies after the first
  MaxPending,       \* requests in flight and results kept, at once
  Attempt,          \* the wait for an answer to a copy
  Window,           \* ApprovalTTL and Grace: the wait for a held request
  MaxHolds,         \* bound: approval.waiting events
  MaxFaults         \* bound: contexts that end, sends that fail, events delivered again, a lost connection

ASSUME RequestAssumption ==
  /\ Retransmissions \in Nat /\ MaxPending \in Nat \ {0}
  /\ Attempt \in Nat \ {0} /\ Window \in Nat \ {0} /\ MaxHolds \in Nat /\ MaxFaults \in Nat

VARIABLES
  \* the vault
  copies,    \* copies on their way to it
  verdict,   \* what it made of each inner id
  holds,     \* approval.waiting events sent
  answers,   \* inner ids whose answer is on its way
  waits,     \* approval.waiting events on their way
  ran,       \* how often it executed each tool call's request
  faults,
  \* the Client
  pc,        \* tool calls, and what they returned
  ended,     \* those whose context ended
  entry,
  run,       \* the request's goroutine
  conn,      \* what Conn.RequestWithID has for it
  left,      \* of Attempt, for the current copy
  hold,      \* until a held request's exp plus Grace
  closed,
  \* history
  given,     \* how often its result was handed to a caller
  promised   \* the longest wait an approval.waiting announced

vault   == <<copies, verdict, holds, answers, waits, ran>>
waiting == <<left, hold, promised>>
vars    == <<vault, faults, pc, ended, entry, run, conn, waiting, closed, given>>

\* The inner id of a copy.
OwnId(t, n) == <<t, n>>
InnerId(t, n) == <<t, 0>>

Id == Tool \X (0..Retransmissions)

\* An entry, who may collect its outcome, and that; a "kept" one has its timer (evict).
Entry(at, who, out) == [at |-> at, who |-> who, out |-> out]
NoEntry == Entry("none", "nobody", "none")
InFlight == Entry("inflight", "tool", "none")
Handed == Entry("inflight", "status", "none")
Abandoned == Entry("inflight", "nobody", "none")
Gone == Entry("gone", "nobody", "none")
GoneInError == Entry("gone", "nobody", "error")

\* run's goroutine and its copy: to be sent, sent, or past its deadline.
Run(at, n) == [at |-> at, n |-> n]
NoRun == Run("none", 0)

Init ==
  /\ copies = {} /\ verdict = [i \in Id |-> "none"] /\ holds = 0 /\ answers = {} /\ waits = {}
  /\ ran = [t \in Tool |-> 0] /\ faults = 0
  /\ pc = [t \in Tool |-> "idle"] /\ ended = {}
  /\ entry = [t \in Tool |-> NoEntry] /\ run = [t \in Tool |-> NoRun]
  /\ conn = [t \in Tool |-> "none"]
  /\ left = [t \in Tool |-> 0] /\ hold = [t \in Tool |-> 0] /\ promised = [t \in Tool |-> 0]
  /\ closed = "no" /\ given = [t \in Tool |-> 0]

Fault == faults < MaxFaults /\ faults' = faults + 1

-----------------------------------------------------------------------------
(***************************************************************************)
(* Time, the vault and the connection.                                     *)
(***************************************************************************)

OneLess(n) == IF n = 0 THEN 0 ELSE n - 1

Tick ==
  /\ \E t \in Tool : left[t] > 0 \/ hold[t] > 0
  /\ left' = [t \in Tool |-> OneLess(left[t])]
  /\ hold' = [t \in Tool |-> OneLess(hold[t])]
  /\ promised' = [t \in Tool |-> OneLess(promised[t])]
  /\ waits' = {[w EXCEPT !.hold = OneLess(w.hold)] : w \in waits}
  /\ UNCHANGED <<copies, verdict, holds, answers, ran, faults, pc, ended, entry, run, conn, closed, given>>

Client == <<pc, ended, entry, run, conn, waiting, closed, given>>

Decide(i, v) ==
  /\ verdict' = [verdict EXCEPT ![i] = v] /\ answers' = answers \cup {i}
  /\ ran' = IF v = "ok" THEN [ran EXCEPT ![i[1]] = @ + 1] ELSE ran
Announces(t) ==
  /\ holds < MaxHolds /\ holds' = holds + 1
  /\ \E h \in 1..Window : waits' = waits \cup {[tool |-> t, hold |-> h]}

\* The first copy under an id is executed, refused or held; a later one is answered from the dedupe.
VaultTakes(c) ==
  /\ c \in copies /\ copies' = copies \ {c}
  /\ \/ /\ verdict[c.id] = "none" /\ UNCHANGED <<holds, waits>>
        /\ \E v \in {"ok", "error"} : Decide(c.id, v)
     \/ /\ verdict[c.id] \in {"none", "held"} /\ Announces(c.tool)
        /\ verdict' = [verdict EXCEPT ![c.id] = "held"]
        /\ UNCHANGED <<ran, answers>>
     \/ verdict[c.id] = "held" /\ UNCHANGED <<verdict, holds, waits, ran, answers>>
     \/ verdict[c.id] \in {"ok", "error"} /\ answers' = answers \cup {c.id} /\ UNCHANGED <<verdict, holds, waits, ran>>
  /\ UNCHANGED <<faults, Client>>

\* The member decides on a held request, or its time passes.
VaultDecides(i) ==
  /\ verdict[i] = "held"
  /\ \E v \in {"ok", "error"} : Decide(i, v)
  /\ UNCHANGED <<copies, holds, waits, faults, Client>>

\* An answer reaches the call that waits under its id, if one does.
ConnAnswers(i) ==
  /\ i \in answers /\ answers' = answers \ {i}
  /\ conn' = IF conn[i[1]] = "pending" /\ i = InnerId(i[1], run[i[1]].n)
             THEN [conn EXCEPT ![i[1]] = verdict[i]] ELSE conn
  /\ UNCHANGED <<copies, verdict, holds, waits, ran, faults, pc, ended, entry, run, waiting, closed, given>>

\* approval.waiting, delivered once or more, in any order; hold is what is left until its exp plus Grace.
LongerOnly(w) == hold' = [hold EXCEPT ![w.tool] = IF w.hold > hold[w.tool] THEN w.hold ELSE hold[w.tool]]
OnEvent(w) ==
  /\ w \in waits
  /\ \/ waits' = waits \ {w} /\ UNCHANGED faults
     \/ Fault /\ UNCHANGED waits
  /\ IF entry[w.tool].at = "inflight"
     THEN /\ LongerOnly(w)
          /\ promised' = [promised EXCEPT ![w.tool] = IF w.hold > @ THEN w.hold ELSE @]
     ELSE UNCHANGED <<hold, promised>>
  /\ UNCHANGED <<copies, verdict, holds, answers, ran, pc, ended, entry, run, conn, left, closed, given>>

-----------------------------------------------------------------------------
(***************************************************************************)
(* Entries.                                                                *)
(***************************************************************************)

\* In flight, or a result kept.
Held == {t \in Tool : entry[t].at = "inflight" \/ (entry[t].at \in {"done", "kept"} /\ entry[t].out = "result")}

\* Removed, a result zeroed; an error stays with whoever still waits for the entry.
Dropped(out) == IF out = "error" THEN GoneInError ELSE Gone

\* finish: dropped if nobody can collect it, kept for a while if its id was handed out.
KeptForGood(t) == FALSE
KeptAWhile(t) == entry[t].who = "status"
Recorded(t, out) ==
  [entry EXCEPT ![t] = IF entry[t].who = "nobody" \/ closed # "no" THEN Dropped(out)
                       ELSE Entry(IF KeptAWhile(t) THEN "kept" ELSE "done", entry[t].who, out)]

\* The caller's now, and removed.
Takes(t) == entry' = [entry EXCEPT ![t] = Gone]
Give(t) == given' = [given EXCEPT ![t] = IF entry[t].out = "result" THEN @ + 1 ELSE @]

Evict(t) ==
  /\ entry[t].at = "kept"
  /\ entry' = [entry EXCEPT ![t] = Dropped(@.out)]
  /\ UNCHANGED <<vault, faults, pc, ended, run, conn, waiting, closed, given>>

-----------------------------------------------------------------------------
(***************************************************************************)
(* Tool calls.                                                             *)
(***************************************************************************)

Tools == UNCHANGED <<vault, faults, conn, waiting>>

\* do, up to the access check (access.Manager.Ensure), which may take a while, or fail.
Do(t) ==
  /\ pc[t] = "idle"
  /\ \E at \in IF closed = "no" THEN {"ensured", "error"} ELSE {"error"} : pc' = [pc EXCEPT ![t] = at]
  /\ UNCHANGED <<ended, entry, run, closed, given>> /\ Tools

\* The entry is added under the lock that Close takes, and within the bound.
OpenWhenAsked == TRUE
StillOpen == closed = "no"
RoomForAll == Cardinality(Held) <= MaxPending
Room == Cardinality(Held) < MaxPending

Register(t) ==
  /\ pc[t] = "ensured"
  /\ \/ /\ StillOpen /\ t \notin ended /\ Room
        /\ entry' = [entry EXCEPT ![t] = InFlight]
        /\ run' = [run EXCEPT ![t] = Run("ready", 0)]
        /\ pc' = [pc EXCEPT ![t] = "waiting"]
     \/ /\ ~(StillOpen /\ t \notin ended /\ Room)
        /\ pc' = [pc EXCEPT ![t] = "error"]
        /\ UNCHANGED <<entry, run>>
  /\ UNCHANGED <<ended, closed, given>> /\ Tools

ContextEnds(t) ==
  /\ pc[t] \in {"ensured", "waiting"} /\ t \notin ended /\ Fault
  /\ ended' = ended \cup {t}
  /\ UNCHANGED <<vault, pc, entry, run, conn, waiting, closed, given>>

\* The request ended, the call's budget or its context: what was recorded decides.
ToolTakes(t) ==
  /\ entry[t].at \in {"done", "kept", "gone"} /\ Takes(t) /\ Give(t)
  /\ pc' = [pc EXCEPT ![t] = entry[t].out]

ToolEnds(t) ==
  /\ entry[t].at = "inflight" /\ UNCHANGED given
  /\ \/ t \in ended /\ entry' = [entry EXCEPT ![t] = Abandoned] /\ pc' = [pc EXCEPT ![t] = "error"]
     \/ t \notin ended /\ entry' = [entry EXCEPT ![t] = Handed] /\ pc' = [pc EXCEPT ![t] = "pending"]

Wakes(t) ==
  /\ pc[t] = "waiting"
  /\ ToolTakes(t) \/ ToolEnds(t)
  /\ UNCHANGED <<ended, run, closed>> /\ Tools

\* leash.check_status takes a result; an error is kept.
Status(t) ==
  /\ entry[t].who = "status" /\ entry[t].at \in {"done", "kept"} /\ entry[t].out = "result"
  /\ Takes(t) /\ Give(t)
  /\ UNCHANGED <<pc, ended, run, closed>> /\ Tools

-----------------------------------------------------------------------------
(***************************************************************************)
(* The request's goroutine.                                                *)
(***************************************************************************)

Finish(t, out) ==
  /\ entry' = Recorded(t, out)
  /\ run' = [run EXCEPT ![t] = NoRun]
  /\ conn' = [conn EXCEPT ![t] = "none"]
  /\ left' = [left EXCEPT ![t] = 0] /\ hold' = [hold EXCEPT ![t] = 0] /\ promised' = [promised EXCEPT ![t] = 0]

Goes == UNCHANGED <<pc, ended, closed, given>>

SameAgain(n) == n
OneMore(n) == n + 1

\* A copy is sent, or the send fails and another follows a pause: the relay may have taken the copy all the same.
Sends(t) ==
  LET copy == [tool |-> t, id |-> InnerId(t, run[t].n), copy |-> run[t].n] IN
  /\ run[t].at = "ready" /\ run[t].n <= Retransmissions
  /\ \/ /\ copies' = copies \cup {copy}
        /\ conn' = [conn EXCEPT ![t] = "pending"]
        /\ run' = [run EXCEPT ![t] = Run("sent", @.n)]
        /\ left' = [left EXCEPT ![t] = Attempt]
        /\ UNCHANGED faults
     \/ /\ Fault /\ run' = [run EXCEPT ![t] = Run("ready", OneMore(@.n))]
        /\ copies' \in {copies, copies \cup {copy}}
        /\ UNCHANGED <<conn, left>>
  /\ UNCHANGED <<verdict, holds, answers, waits, ran, hold, promised, entry>> /\ Goes

\* deadline: neither the copy's wait nor a held request's is left.
AttemptOnly(t) == left[t] = 0
DeadlinePassed(t) == left[t] = 0 /\ hold[t] = 0
TimesOut(t) ==
  /\ run[t].at = "sent" /\ DeadlinePassed(t)
  /\ run' = [run EXCEPT ![t] = Run("late", @.n)]
  /\ UNCHANGED <<vault, faults, entry, conn, waiting>> /\ Goes

\* An answer is final; one that comes with the timeout may be missed.
Answered(t) ==
  /\ run[t].at \in {"sent", "late"} /\ conn[t] \in {"ok", "error"}
  /\ Finish(t, IF conn[t] = "ok" THEN "result" ELSE "error")
  /\ UNCHANGED <<vault, faults>> /\ Goes

\* No answer in time: the next copy.
NextCopy(t) ==
  /\ run[t].at = "late"
  /\ run' = [run EXCEPT ![t] = Run("ready", OneMore(@.n))]
  /\ conn' = [conn EXCEPT ![t] = "none"]
  /\ UNCHANGED <<vault, faults, entry, waiting>> /\ Goes

\* After the last: the vault did not answer.
GivesUp(t) ==
  /\ run[t].at = "ready" /\ run[t].n > Retransmissions
  /\ Finish(t, "error")
  /\ UNCHANGED <<vault, faults>> /\ Goes

\* The Client is closed (a copy may still go out), or the connection refused or stopped.
Ends(t) ==
  /\ run[t].at # "none"
  /\ \/ closed = "closing" /\ UNCHANGED faults
     \/ closed = "no" /\ Fault
  /\ Finish(t, "error")
  /\ UNCHANGED vault /\ Goes

Close ==
  /\ closed = "no" /\ closed' = "closing"
  /\ UNCHANGED <<vault, faults, pc, ended, entry, run, conn, waiting, given>>

\* Close waits for the goroutines, and drops every kept result.
Closed ==
  /\ closed = "closing" /\ \A t \in Tool : run[t].at = "none"
  /\ closed' = "closed"
  /\ entry' = [t \in Tool |-> IF entry[t].at \in {"done", "kept"} THEN Dropped(entry[t].out) ELSE entry[t]]
  /\ UNCHANGED <<vault, faults, pc, ended, run, conn, waiting, given>>

-----------------------------------------------------------------------------
Goroutine(t) == Sends(t) \/ TimesOut(t) \/ Answered(t) \/ NextCopy(t) \/ GivesUp(t) \/ Ends(t)

Next ==
  \/ Tick
  \/ \E c \in copies : VaultTakes(c)
  \/ \E i \in answers : ConnAnswers(i)
  \/ \E i \in Id : VaultDecides(i)
  \/ \E w \in waits : OnEvent(w)
  \/ \E t \in Tool : \/ Do(t) \/ Register(t) \/ ContextEnds(t) \/ Wakes(t) \/ Status(t)
                     \/ Evict(t) \/ Goroutine(t)
  \/ Close \/ Closed

Spec == Init /\ [][Next]_vars

\* As long as time can pass or a goroutine can go on, one does; the vault owes no answer.
GoesOn == Tick \/ \E t \in Tool : Goroutine(t) \/ Wakes(t) \/ Evict(t)
FairSpec == Spec /\ WF_vars(GoesOn)

-----------------------------------------------------------------------------
(***************************************************************************)
(* What makes it correct.                                                  *)
(***************************************************************************)

Copy == [tool: Tool, id: Id, copy: 0..Retransmissions]
EntryType == [at: {"none", "inflight", "done", "kept", "gone"}, who: {"nobody", "tool", "status"},
              out: {"none", "result", "error"}]
PcType == {"idle", "ensured", "waiting", "result", "error", "pending", "none"}
RunType == [at: {"none", "ready", "sent", "late"}, n: Nat]

VaultType ==
  /\ copies \subseteq Copy /\ verdict \in [Id -> {"none", "held", "ok", "error"}] /\ holds \in Nat
  /\ answers \subseteq Id /\ waits \subseteq [tool: Tool, hold: Nat] /\ ran \in [Tool -> Nat]

WaitType == left \in [Tool -> Nat] /\ hold \in [Tool -> Nat] /\ promised \in [Tool -> Nat]

TypeOK ==
  /\ VaultType /\ WaitType /\ faults \in Nat
  /\ pc \in [Tool -> PcType] /\ ended \subseteq Tool
  /\ entry \in [Tool -> EntryType] /\ run \in [Tool -> RunType]
  /\ conn \in [Tool -> {"none", "pending", "held", "ok", "error"}]
  /\ closed \in {"no", "closing", "closed"} /\ given \in [Tool -> Nat]

\* However the end of a request, of the call that made it and of the Client interleave, a kept outcome has
\* someone who will take or drop it: its tool call, the timer, or Close (finish, do).
NothingKeptForGood ==
  \A t \in Tool : entry[t].at = "done" => pc[t] = "waiting" \/ closed = "closing"

\* A request in flight has its goroutine and its tool call, unless the call handed out the id or gave it up; a
\* tool call that has not got that far has no entry.
Accounted ==
  \A t \in Tool :
    /\ entry[t].at = "inflight" <=> run[t].at # "none"
    /\ entry[t].at = "inflight" /\ entry[t].who = "tool" => pc[t] = "waiting"
    /\ pc[t] \in {"idle", "ensured"} => entry[t].at = "none"

\* A result taken is a result gone.
TakenIsGone ==
  \A t \in Tool :
    /\ given[t] <= 1
    /\ given[t] > 0 => entry[t].at = "gone"
    /\ entry[t].at = "gone" => entry[t].out # "result"

\* What the vault made of a request is made of its one inner id.
OneId ==
  /\ \A c \in copies : c.id = InnerId(c.tool, c.copy)
  /\ \A i \in Id : i # InnerId(i[1], i[2]) => verdict[i] = "none"
  /\ \A t \in Tool : ran[t] = IF verdict[InnerId(t, 0)] = "ok" THEN 1 ELSE 0

\* The goroutine waits for every approval.waiting that came.
WaitsAsLong == \A t \in Tool : promised[t] = hold[t]

\* After Close nothing runs and nothing is kept, whatever tool call was about to send (do, Close).
ClosedKeepsNothing == closed = "closed" => \A t \in Tool : entry[t].at \in {"none", "gone"} /\ run[t].at = "none"

\* MaxPending bounds requests in flight and results kept, for tool calls that come at once (heldLocked, do).
Bounded == Cardinality(Held) <= MaxPending

\* What every step keeps.
IInv ==
  /\ TypeOK /\ NothingKeptForGood /\ Accounted /\ TakenIsGone /\ OneId /\ WaitsAsLong
  /\ ClosedKeepsNothing /\ IsFiniteSet(Held) /\ Bounded

\* The vault executes a request at most once, however many copies reach it and when (run, one inner id).
ExecutedOnce == \A t \in Tool : ran[t] <= 1

\* A copy's wait ends only when the window of every approval.waiting that came is over, in whatever order
\* they came and however often (deadline, OnEvent).
WaitsForTheMember ==
  [][\A t \in Tool : run'[t].at = "late" /\ run[t].at # "late" => promised[t] = 0]_vars

\* Every request ends and its outcome is taken or dropped, whether or not the vault answers (run, finish).
EveryRequestEnds == []<>(\A t \in Tool : entry[t].at \in {"none", "gone"})

\* What a tool call returns when it is not an error is a Result, or pending (Outcome).
ResultOrPending == \A t \in Tool : pc[t] # "none"

\* What the vault made of a tool call's request, and what the call returned.
Decided(t) == IF verdict[InnerId(t, 0)] = "held" THEN "none" ELSE verdict[InnerId(t, 0)]
Told(t) == IF pc[t] \in {"idle", "ensured", "waiting"} THEN "nothing" ELSE pc[t]
Requests == INSTANCE AtMostOnce
  WITH Call <- Tool, decided <- [t \in Tool |-> Decided(t)], told <- [t \in Tool |-> Told(t)]

\* A result that is given is that of a request the vault executed, is given once, by the tool call or by Status,
\* and not to a call that was told an error (takeLocked, do, finish).
GivenOnce == Requests!GivenOnce

\* The Client implements AtMostOnce: every change of these outcomes is one that it allows (do, Status, finish).
ResultsAreReal == Requests!Spec
=============================================================================
