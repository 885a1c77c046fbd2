---------------------------- MODULE AccessPolicy ----------------------------
(***************************************************************************)
(* internal/access: the Manager that knows whether the connector has an    *)
(* access session, asks the member for one when a tool call needs it       *)
(* (Ensure), and keeps to the bounds on asking.                            *)
(*                                                                         *)
(* The Manager is driven by tool calls, by the goroutines of the requests  *)
(* it runs in the background (a caller that stops waiting cancels none),   *)
(* and by vaultconn's goroutine, which applies a session event to          *)
(* Conn.Access() in the save of its batch and hands it to OnEvent later.   *)
(* Each critical section of Manager.mu is one action.  Responses are       *)
(* handed to the goroutine that waits, which takes them in its own time.   *)
(*                                                                         *)
(* Time is a counter.  Texts and the reason of a quiet period are left     *)
(* out.  A definition used nowhere is a mistake in the one that follows    *)
(* it, which a run tells apart (README, Mutants).                          *)
(***************************************************************************)
EXTENDS Integers, Sequences

CONSTANTS
  Caller,       \* tool calls
  None,         \* no event
  Quiet,        \* QuietAfterRefusal
  Hour,         \* the span of MaxPerHour
  MaxPerHour,   \* automatic requests in any hour
  HoldRecheck,  \* how often, at most, CheckHold asks
  Life,         \* how long a session lasts
  MaxTime,      \* bound: the clock
  MaxSession,   \* bound: sessions the member grants
  MaxHolds,     \* bound: times the vault's owner check falls due
  MaxFaults     \* bound: timeouts, callers that give up, redeliveries, restarts

ASSUME AccessAssumption ==
  /\ Quiet \in Nat \ {0} /\ Hour \in Nat \ {0} /\ MaxPerHour \in Nat \ {0}
  /\ HoldRecheck \in Nat /\ Life \in Nat \ {0}
  /\ MaxTime \in Nat /\ MaxSession \in Nat /\ MaxHolds \in Nat /\ MaxFaults \in Nat
  /\ Caller \cap {"request", "probe", "status", "conn"} = {}

VARIABLES
  now, faults,
  vault,      \* pending request (until; 0: none), last accepted one (0: none), session, its end, held
  strays,     \* device.session.requests whose call timed out before the vault read them
  mail,       \* session events on their way
  acc,        \* Conn.Access(); the session number is the model's, exp 0 is "not known"
  applying,   \* the event between the save of its batch and OnEvent
  saved,      \* the access session in the state file
  flight,     \* the requests to the vault, by who waits for the answer
  pc,         \* tool calls
  outstanding, outExp, quietUntil, allowedAfter, sent, held, statusAt,
  asked,      \* history: when this process sent device.session.request
  refusal     \* history: the end of the last refusal's quiet period, and whether this process learned it

clock  == <<now, faults>>
net    == <<vault, strays, mail>>
conn   == <<acc, applying, saved>>
quiets == <<outstanding, outExp, quietUntil>>
limits == <<allowedAfter, sent>>
hist   == <<asked, refusal>>
vars   == <<clock, net, conn, flight, pc, quiets, limits, held, statusAt, hist>>

Acc == [state: {"unknown", "none", "active"}, session: Nat, exp: Nat]
NoAccess == [state |-> "none", session |-> 0, exp |-> 0]
Event == [type: {"granted", "denied", "ended"}, session: Nat, exp: Nat]
ASSUME NoneAssumption == None \notin Event

Codes == {"", "ok", "session_required", "owner_check_required", "too_soon"}
Flight == [at: {"none", "started", "sent", "answered"}, with: Acc, code: Codes, note: Nat]
NoFlight == [at |-> "none", with |-> NoAccess, code |-> "", note |-> 0]
Started == [at |-> "started", with |-> NoAccess, code |-> "", note |-> 0]
Sent(with) == [at |-> "sent", with |-> with, code |-> "", note |-> 0]

\* The requests by who waits: a tool call, or the Manager's goroutines; "conn" is the vault.status that
\* vaultconn sends on its own when it starts (and every 6 hours: longer than a run).
Keys == Caller \cup {"request", "probe", "status", "conn"}
AtStart == [k \in Keys |-> IF k = "conn" THEN Sent(NoAccess) ELSE NoFlight]

Init ==
  /\ now = 1 /\ faults = 0
  /\ \E s \in {0, 1} :   \* a session granted with the pairing, or none
       vault = [pend |-> 0, last |-> 0, session |-> s, exp |-> IF s = 0 THEN 0 ELSE 1 + Life, sessions |-> s,
                holds |-> 0, held |-> FALSE]
  /\ strays = 0 /\ mail = {}
  /\ acc = [state |-> "unknown", session |-> 0, exp |-> 0] /\ applying = None /\ saved = acc
  /\ flight = AtStart
  /\ pc = [c \in Caller |-> "idle"]
  /\ outstanding = FALSE /\ outExp = 0 /\ quietUntil = 0
  /\ allowedAfter = 0 /\ sent = <<>> /\ held = FALSE /\ statusAt = 0
  /\ asked = <<>> /\ refusal = [until |-> 0, here |-> FALSE]

Fault == faults < MaxFaults /\ faults' = faults + 1 /\ UNCHANGED now

\* Time passes, and with it what the vault keeps for a time.
Tick ==
  /\ now < MaxTime /\ now' = now + 1
  /\ vault' = [vault EXCEPT !.pend = IF now' < @ THEN @ ELSE 0,
                             !.last = IF now' < @ + Quiet THEN @ ELSE 0,
                             !.session = IF now' < vault.exp THEN @ ELSE 0,
                             !.exp = IF now' < @ THEN @ ELSE 0]
  /\ UNCHANGED <<faults, strays, mail, conn, flight, pc, quiets, limits, held, statusAt, hist>>

-----------------------------------------------------------------------------
(***************************************************************************)
(* The vault and the member.                                               *)
(***************************************************************************)

\* The member allows the request that waits, or access without one; the vault drops the request.
MemberGrants ==
  /\ vault.sessions < MaxSession
  /\ LET s == vault.sessions + 1
     IN  /\ vault' = [vault EXCEPT !.session = s, !.exp = now + Life, !.sessions = s, !.pend = 0]
         /\ mail' = mail \cup {[type |-> "granted", session |-> s, exp |-> now + Life]}
  /\ UNCHANGED <<clock, strays, conn, flight, pc, quiets, limits, held, statusAt, hist>>

MemberDenies ==
  /\ vault.pend # 0
  /\ vault' = [vault EXCEPT !.pend = 0]
  /\ mail' = mail \cup {[type |-> "denied", session |-> 0, exp |-> 0]}
  /\ UNCHANGED <<clock, strays, conn, flight, pc, quiets, limits, held, statusAt, hist>>

MemberEnds ==
  /\ vault.session # 0
  /\ vault' = [vault EXCEPT !.session = 0, !.exp = 0, !.pend = 0]
  /\ mail' = mail \cup {[type |-> "ended", session |-> vault.session, exp |-> 0]}
  /\ UNCHANGED <<clock, strays, conn, flight, pc, quiets, limits, held, statusAt, hist>>

VaultHold ==
  /\ ~vault.held /\ vault.holds < MaxHolds
  /\ vault' = [vault EXCEPT !.held = TRUE, !.holds = @ + 1]
  /\ UNCHANGED <<clock, strays, mail, conn, flight, pc, quiets, limits, held, statusAt, hist>>

MemberChecks ==
  /\ vault.held
  /\ vault' = [vault EXCEPT !.held = FALSE]
  /\ UNCHANGED <<clock, strays, mail, conn, flight, pc, quiets, limits, held, statusAt, hist>>

TooSoon == vault.last # 0

\* A reply's note is the time it names (exp, allowed_after), or the session that a probe found.
\* device.session.request: one every Quiet, kept for Quiet.
TakeRequest ==
  vault' = IF vault.held \/ TooSoon THEN vault
           ELSE [vault EXCEPT !.pend = now + Quiet, !.last = now]

RequestReply ==
  CASE vault.held -> [code |-> "owner_check_required", note |-> 0]
    [] ~vault.held /\ TooSoon -> [code |-> "too_soon", note |-> vault.last + Quiet]
    [] OTHER -> [code |-> "ok", note |-> now + Quiet]

\* Any request that needs a session; vault.status passes always, and says whether the vault is held.
OtherReply(k) ==
  [code |-> IF k \in {"status", "conn"} THEN IF vault.held THEN "owner_check_required" ELSE "ok"
            ELSE IF vault.session = 0 THEN "session_required"
            ELSE IF vault.held THEN "owner_check_required" ELSE "ok",
   note |-> IF k = "probe" THEN vault.session ELSE 0]

\* Its answer comes in a batch, whose save has the session as it then is; or the process ends before.
VaultAnswers(k) ==
  /\ flight[k].at = "sent"
  /\ LET r == IF k = "request" THEN RequestReply ELSE OtherReply(k)
     IN  flight' = [flight EXCEPT ![k] = [at |-> "answered", with |-> flight[k].with,
                                          code |-> r.code, note |-> r.note]]
  /\ IF k = "request" THEN TakeRequest ELSE UNCHANGED vault
  /\ saved' \in {saved, acc}
  /\ UNCHANGED <<clock, strays, mail, acc, applying, pc, quiets, limits, held, statusAt, hist>>

VaultTakesStray ==
  /\ strays > 0 /\ strays' = strays - 1
  /\ TakeRequest
  /\ UNCHANGED <<clock, mail, conn, flight, pc, quiets, limits, held, statusAt, hist>>

-----------------------------------------------------------------------------
(***************************************************************************)
(* Session events.                                                         *)
(***************************************************************************)

\* In the save of the batch: the session is applied, and is in the state file with it.
ApplyEvent(e) ==
  /\ e \in mail /\ applying = None
  /\ acc' = CASE e.type = "granted" -> [state |-> "active", session |-> e.session, exp |-> e.exp]
              [] e.type \in {"denied", "ended"} -> NoAccess
  /\ saved' = acc'
  /\ applying' = e
  /\ UNCHANGED <<clock, net, flight, pc, quiets, limits, held, statusAt, hist>>

\* A refusal starts a quiet period; a grant decides the request that waited.
NoQuiet == UNCHANGED quietUntil
StartQuiet == quietUntil' = now + Quiet

OnEvent ==
  /\ applying # None /\ applying' = None
  /\ outstanding' = FALSE
  /\ \/ applying.type = "granted" /\ UNCHANGED <<quietUntil, refusal>>
     \/ /\ applying.type \in {"denied", "ended"} /\ StartQuiet
        /\ refusal' = [until |-> now + Quiet, here |-> TRUE]
  /\ \/ mail' = mail \ {applying} /\ UNCHANGED clock
     \/ Fault /\ UNCHANGED mail
  /\ UNCHANGED <<vault, strays, acc, saved, flight, pc, outExp, limits, held, statusAt, asked>>

-----------------------------------------------------------------------------
(***************************************************************************)
(* Ensure.                                                                 *)
(***************************************************************************)

Active(a) == a.state = "active" /\ (a.exp = 0 \/ now < a.exp)

\* A tool call in Ensure: at its start, or again after a probe.
Ensuring(c) == pc[c] \in {"idle", "retry"} /\ ~held

Return(c) == pc' = [pc EXCEPT ![c] = "idle"]

\* There is a session: the tool call sends its own request.
EnsureOk(c) ==
  /\ Ensuring(c) /\ Active(acc)
  /\ pc' = [pc EXCEPT ![c] = "ready"]
  /\ UNCHANGED <<clock, net, conn, flight, quiets, limits, held, statusAt, hist>>

\* Not known whether there is: one probe at a time, and every caller waits for it.
EnsureProbes(c) ==
  /\ Ensuring(c) /\ acc.state = "unknown"
  /\ pc' = [pc EXCEPT ![c] = "probe"]
  /\ IF flight["probe"].at = "none"
     THEN flight' = [flight EXCEPT !["probe"] = Started]
     ELSE UNCHANGED flight
  /\ UNCHANGED <<clock, net, conn, quiets, limits, held, statusAt, hist>>

\* The vault held, seen again after a probe.
EnsureHeld(c) ==
  /\ pc[c] = "retry" /\ held
  /\ Return(c)
  /\ UNCHANGED <<clock, net, conn, flight, quiets, limits, held, statusAt, hist>>

\* A request no one answered in time ends, and its quiet period starts.
Unanswered == outstanding /\ now >= outExp
StillWaiting == outstanding /\ now < outExp
QuietNow == IF Unanswered THEN outExp + Quiet ELSE quietUntil
ForgetUnanswered == outstanding' = StillWaiting /\ quietUntil' = QuietNow /\ UNCHANGED outExp

\* pruneSent drops the first k: all those an hour old or older, up to the first that is not.
PrunesTo(k) ==
  /\ \A i \in 1..k : sent[i] + Hour <= now
  /\ k < Len(sent) => now < sent[k + 1] + Hour
Pruned(k) == SubSeq(sent, k + 1, Len(sent))

RoomForOneMore(k) == Len(sent) - k <= MaxPerHour
Room(k) == Len(sent) - k < MaxPerHour

NeedsAccess(c) == Ensuring(c) /\ ~Active(acc) /\ acc.state # "unknown"
AskedAlready == StillWaiting \/ flight["request"].at # "none"

MayAsk == now >= QuietNow /\ now >= allowedAfter

EnsureAsks(c) ==
  /\ NeedsAccess(c) /\ ~AskedAlready /\ MayAsk
  /\ ForgetUnanswered
  /\ \E k \in 0..Len(sent) : PrunesTo(k) /\ Room(k) /\ sent' = Append(Pruned(k), now)
  /\ asked' = Append(asked, now)
  /\ flight' = [flight EXCEPT !["request"] = Sent(NoAccess)]
  /\ pc' = [pc EXCEPT ![c] = "request"]
  /\ UNCHANGED <<clock, net, conn, allowedAfter, held, statusAt, refusal>>

\* One is outstanding, or it is too early, or there were too many: the tool call is told when.
EnsureWaits(c) ==
  /\ NeedsAccess(c)
  /\ ForgetUnanswered
  /\ \/ (AskedAlready \/ ~MayAsk) /\ UNCHANGED sent
     \/ /\ ~AskedAlready /\ MayAsk
        /\ \E k \in 0..Len(sent) : PrunesTo(k) /\ ~Room(k) /\ sent' = Pruned(k)
  /\ Return(c)
  /\ UNCHANGED <<clock, net, conn, flight, allowedAfter, held, statusAt, hist>>

\* The tool call's budget ends; the request it waits for goes on.
GiveUp(c) ==
  /\ pc[c] \in {"probe", "request", "work"} /\ Fault
  /\ Return(c)
  /\ flight' = [flight EXCEPT ![c] = NoFlight]
  /\ UNCHANGED <<net, conn, quiets, limits, held, statusAt, hist>>

-----------------------------------------------------------------------------
(***************************************************************************)
(* The requests' goroutines.                                               *)
(***************************************************************************)

Ended(k) == flight' = [flight EXCEPT ![k] = NoFlight]
Wake(at, to) == pc' = [c \in Caller |-> IF pc[c] = at THEN to ELSE pc[c]]

\* What a probe found has neither an id nor an expiry (session numbers it in the model only), so two of
\* them are alike to CompareAndSetAccess.
Found(a) == a.state = "active" /\ a.exp = 0
Same(a, b) == a = b \/ (Found(a) /\ Found(b))

\* An answer sets the session only if no event changed it since the request was sent.
SetAlways(before, a) == acc' = a
SetIfUnchanged(before, a) == acc' = IF Same(acc, before) THEN a ELSE acc

ProbeSends ==
  /\ flight["probe"].at = "started"
  /\ flight' = [flight EXCEPT !["probe"] = Sent(acc)]
  /\ UNCHANGED <<clock, net, conn, pc, quiets, limits, held, statusAt, hist>>

\* A session the connector did not know of, neither its id nor its expiry.
ProbeTellsNothing(f) == UNCHANGED acc
ProbeFound(f) ==
  IF f.with.state # "active"
  THEN SetIfUnchanged(f.with, [state |-> "active", session |-> f.note, exp |-> 0])
  ELSE UNCHANGED acc

ProbeEnds ==
  LET f == flight["probe"] IN
  /\ f.at = "answered" /\ Ended("probe")
  /\ \/ f.code = "ok" /\ ProbeFound(f) /\ Wake("probe", "retry") /\ UNCHANGED held
     \/ /\ f.code = "session_required"
        /\ SetIfUnchanged(f.with, NoAccess) /\ Wake("probe", "retry") /\ UNCHANGED held
     \/ f.code = "owner_check_required" /\ held' = TRUE /\ Wake("probe", "idle") /\ UNCHANGED acc
  /\ UNCHANGED <<clock, net, applying, saved, quiets, limits, statusAt, hist>>

\* The answer's time may be unreadable, or past when it is taken.
RequestEnds ==
  LET f == flight["request"] IN
  /\ f.at = "answered" /\ Ended("request") /\ Wake("request", "idle")
  /\ \/ /\ f.code = "ok"
        /\ outstanding' = TRUE
        /\ outExp' \in {IF f.note > now THEN f.note ELSE now + Quiet, now + Quiet}
        /\ UNCHANGED <<allowedAfter, held>>
     \/ /\ f.code = "too_soon"
        /\ \E after \in {f.note, now + Quiet} :
             allowedAfter' = IF after > allowedAfter THEN after ELSE allowedAfter
        /\ UNCHANGED <<outstanding, outExp, held>>
     \/ f.code = "owner_check_required" /\ held' = TRUE /\ UNCHANGED <<outstanding, outExp, allowedAfter>>
  /\ UNCHANGED <<clock, net, conn, quietUntil, sent, statusAt, hist>>

\* The tool call's own request, and Start's check of a saved session: Snapshot, answer, OnAnswer.
WorkSends(c) ==
  /\ pc[c] = "ready"
  /\ pc' = [pc EXCEPT ![c] = "work"]
  /\ flight' = [flight EXCEPT ![c] = Sent(acc)]
  /\ UNCHANGED <<clock, net, conn, quiets, limits, held, statusAt, hist>>

WorkEnds(c) ==
  LET f == flight[c] IN
  /\ f.at = "answered" /\ Ended(c) /\ Return(c)
  /\ \/ f.code = "ok" /\ UNCHANGED <<acc, held>>
     \/ f.code = "session_required" /\ SetIfUnchanged(f.with, NoAccess) /\ UNCHANGED held
     \/ f.code = "owner_check_required" /\ held' = TRUE /\ UNCHANGED acc
  /\ UNCHANGED <<clock, net, applying, saved, quiets, limits, statusAt, hist>>

\* No answer (RequestTimeout, a refusing relay, a stopped connection): the vault may have read the request, may yet, or never will.
TimesOut(k) ==
  /\ k \notin Caller \cup {"conn"} /\ flight[k].at \in {"sent", "answered"} /\ Fault
  /\ Ended(k) /\ Wake(k, "idle")
  /\ strays' \in IF k = "request" /\ flight[k].at = "sent" THEN {strays, strays + 1} ELSE {strays}
  /\ UNCHANGED <<vault, mail, conn, quiets, limits, held, statusAt, hist>>

-----------------------------------------------------------------------------
(***************************************************************************)
(* The hold, and restarts.                                                 *)
(***************************************************************************)

\* A tool call while the vault is held asks it again, one at a time, at most once per HoldRecheck.
MayCheck == flight["status"].at = "none" /\ (statusAt = 0 \/ now >= statusAt + HoldRecheck)
CheckHold ==
  /\ held /\ MayCheck
  /\ statusAt' = now
  /\ flight' = [flight EXCEPT !["status"] = Sent(NoAccess)]
  /\ UNCHANGED <<clock, net, conn, pc, quiets, limits, held, hist>>

HeldForGood(f) == held' = (held \/ f.code = "owner_check_required")
HeldAsTold(f) == held' = (f.code = "owner_check_required")
OnStatus ==
  /\ \E k \in {"status", "conn"} : flight[k].at = "answered" /\ Ended(k) /\ HeldAsTold(flight[k])
  /\ UNCHANGED <<clock, net, conn, pc, quiets, limits, statusAt, hist>>

\* A new process knows only the saved session.
Restart ==
  /\ Fault
  /\ acc' = saved /\ applying' = None
  /\ flight' = AtStart
  /\ pc' = [c \in Caller |-> "idle"]
  /\ outstanding' = FALSE /\ outExp' = 0 /\ quietUntil' = 0
  /\ allowedAfter' = 0 /\ sent' = <<>> /\ held' = FALSE /\ statusAt' = 0
  /\ asked' = <<>> /\ refusal' = [refusal EXCEPT !.here = FALSE]
  /\ UNCHANGED <<vault, strays, mail, saved>>

-----------------------------------------------------------------------------
VaultNext == MemberGrants \/ MemberDenies \/ MemberEnds \/ VaultHold \/ MemberChecks \/ VaultTakesStray

Ensure(c) == EnsureOk(c) \/ EnsureProbes(c) \/ EnsureHeld(c) \/ EnsureAsks(c) \/ EnsureWaits(c)

\* What the goroutines of this process do on their own.
Background ==
  \/ ProbeSends \/ ProbeEnds \/ RequestEnds \/ OnStatus
  \/ \E c \in Caller : WorkSends(c) \/ WorkEnds(c)

Next ==
  \/ Tick \/ VaultNext
  \/ \E k \in Keys : VaultAnswers(k) \/ TimesOut(k)
  \/ \E e \in mail : ApplyEvent(e)
  \/ OnEvent \/ Background \/ CheckHold \/ Restart
  \/ \E c \in Caller : Ensure(c) \/ GiveUp(c)

Spec == Init /\ [][Next]_vars

\* The vault answers, the process's goroutines go on, tool calls keep coming while the vault is held
\* (each calls CheckHold first), and the member does the daily check.
Fairness ==
  /\ \A k \in Keys : WF_vars(VaultAnswers(k))
  /\ WF_vars(Background) /\ WF_vars(OnStatus)
  /\ WF_vars(CheckHold) /\ WF_vars(MemberChecks)

FairSpec == Spec /\ Fairness

-----------------------------------------------------------------------------
(***************************************************************************)
(* What makes it correct.                                                  *)
(***************************************************************************)

VaultState ==
  [pend: Nat, last: Nat, session: Nat, exp: Nat, sessions: Nat, holds: Nat, held: BOOLEAN]

VaultType ==
  /\ vault \in VaultState
  /\ strays \in Nat /\ mail \subseteq Event

ConnType == acc \in Acc /\ saved \in Acc /\ applying \in Event \cup {None}

CallsType ==
  /\ flight \in [Keys -> Flight]
  /\ pc \in [Caller -> {"idle", "probe", "retry", "request", "ready", "work"}]

ManagerType ==
  /\ outstanding \in BOOLEAN /\ held \in BOOLEAN
  /\ outExp \in Nat /\ quietUntil \in Nat /\ allowedAfter \in Nat /\ statusAt \in Nat
  /\ sent \in Seq(Nat) /\ asked \in Seq(Nat)
  /\ refusal \in [until: Nat, here: BOOLEAN]

TypeOK == now \in Nat /\ faults \in Nat /\ VaultType /\ ConnType /\ CallsType /\ ManagerType

\* MaxPerHour in any hour: the request MaxPerHour after another is sent an hour after it, or later,
\* whatever became of those between (sent keeps the time of a request that failed, too).
RateBound ==
  \A i \in 1..Len(asked) :
    i + MaxPerHour <= Len(asked) => asked[i + MaxPerHour] - asked[i] >= Hour

\* What this process sent and has not pruned is the end of all it sent; what it pruned is an hour old.
Gone == Len(asked) - Len(sent)
SentIsTheEnd ==
  /\ Gone >= 0
  /\ \A i \in 1..Gone : asked[i] + Hour <= now
  /\ \A i \in 1..Len(sent) : sent[i] = asked[Gone + i]

InOrder == \A i, j \in 1..Len(asked) : i <= j => asked[i] <= asked[j] /\ asked[j] <= now

\* The inductive invariant: why the bound on requests in any hour holds.
IInv == TypeOK /\ SentIsTheEnd /\ InOrder /\ RateBound

\* No device.session.request is sent within Quiet of a refusal this process was told of, nor while the
\* vault's answer says it is too soon, nor while or within Quiet after an unanswered one (Ensure).
Asks == flight["request"].at = "none" /\ flight'["request"].at = "sent"
AsksPolitely ==
  [][Asks => /\ refusal.here => now >= refusal.until
             /\ outstanding => now >= outExp + Quiet
             /\ now >= allowedAfter]_vars

\* The inductive invariant behind it: a refusal is within the quiet period, whether that has begun or
\* begins when the request outstanding goes unanswered.
RefusalIsQuiet ==
  refusal.here =>
    /\ refusal.until <= now + Quiet /\ refusal.until <= quietUntil
    /\ outstanding => refusal.until <= outExp + Quiet

\* A request's answer ends only a session that is over at the vault: never one granted while the answer
\* was on its way (CompareAndSetAccess, OnAnswer, probe).
DropsOnlyEndedSessions ==
  [][acc.state = "active" /\ acc' = NoAccess /\ UNCHANGED <<applying, faults>> =>
         acc.session # vault.session]_vars

\* The inductive invariant behind it: every session the connector is told of, has or compares with is
\* one the vault granted, so that a later one is another, and an answer that says there is no session is
\* about one that was over when the vault wrote it.
Known(a) == a.session <= vault.sessions /\ (a.state = "active" => a.session # 0)
Over(f) == f.code = "session_required" /\ f.with.state = "active" => f.with.session # vault.session
SessionsKnown ==
  /\ vault.session <= vault.sessions /\ Known(acc) /\ Known(saved)
  /\ \A e \in mail : e.session <= vault.sessions /\ (e.type = "granted" => e.session # 0)
AnswersKnown ==
  /\ \A k \in Keys : Known(flight[k].with) /\ Over(flight[k])
  /\ flight["probe"].code = "ok" => flight["probe"].note \in 1..vault.sessions

\* CompareAndSetAccess cannot tell one session found by a probe from another, and need not: a probe begins
\* only while it is not known whether there is a session, so a process finds one at most.
FoundOnce ==
  /\ acc.state = "unknown" \/ flight["probe"].at # "none" =>
       ~Found(acc) /\ \A k \in Keys : ~Found(flight[k].with)
  /\ \A k \in Keys : Found(acc) /\ Found(flight[k].with) => flight[k].with = acc
  /\ \A e \in mail : e.type = "granted" => e.exp # 0

\* A probe that brought no error settled whether there is a session, so that Ensure, which starts over,
\* never probes again (Ensure's recursion).
ProbeSettles == \A c \in Caller : pc[c] = "retry" => acc.state # "unknown"

\* A hold ends once the member has done the check, in whatever order the answers come.
HoldEnds == <>[](~held)

\* access.go, on Manager.outstanding: "a device.session.request the vault accepted, waiting for a
\* decision".  Not so when the decision's event is handled before the goroutine takes the answer.
OutstandingIsUndecided ==
  outstanding /\ applying = None /\ mail = {} /\ now < outExp /\ strays = 0 => vault.pend # 0
=============================================================================
