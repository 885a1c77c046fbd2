----------------------------- MODULE LeashGrants -----------------------------
(***************************************************************************)
(* internal/leash: the Manager that keeps the grants a connector holds     *)
(* from its vault, and decides which of them it may present.               *)
(*                                                                         *)
(* The vault changes its policy on its own (a grant is issued, issued      *)
(* again in a new version, or revoked; the agent is suspended or resumed)  *)
(* and every message it sends carries the policy of the moment it was      *)
(* sent.  Messages reach the connector in any order.  The Manager is       *)
(* driven by vaultconn's goroutine (Apply), by tool calls (Present) and by *)
(* its own loop (Run); each critical section of Manager.mu is one action.  *)
(*                                                                         *)
(* gen is compared only for equality with its value when a list was sent,  *)
(* so it is kept as `fresh`, the lists sent since gen last changed: gen++  *)
(* is fresh' = {}.  Pauses (nextList, backoff) are delays an action may    *)
(* take anyway and are left out, as is a grant's own expiry.               *)
(*                                                                         *)
(* A definition placed just before the one it resembles, and used nowhere, *)
(* is a mistake in that one which a run tells apart (README, Mutants).     *)
(***************************************************************************)
EXTENDS Naturals, FiniteSets

CONSTANTS
  Grant,        \* grant ids
  Presenter,    \* tool calls that present a grant (Present)
  Loop,         \* the Manager's own goroutine (Run)
  ListTries,    \* lists one List sends when its answers are overtaken
  ReqId,        \* inner ids of requests; an id is reused once nothing names it
  None,         \* no request, no message
  MaxEpoch,     \* bound: policies the vault goes through
  MaxSession,   \* bound: access sessions the vault grants
  MaxFaults     \* bound: faults (lost requests, timeouts, redeliveries, bad sets, holds, restarts)

ASSUME LeashAssumption ==
  /\ Loop \notin Presenter
  /\ None \notin ReqId /\ None \notin Grant
  /\ ListTries \in Nat \ {0}
  /\ MaxEpoch \in Nat /\ MaxSession \in Nat /\ MaxFaults \in Nat

Proc == Presenter \cup {Loop}

VARIABLES
  vault,      \* its policy: epoch, grants (version, 0: not granted), suspended; session (0: none), held
  inbox,      \* messages the vault sent, not acknowledged
  reqs,       \* requests sent to the vault, not answered
  faults,     \* faults so far
  acc,        \* Conn.Access(): the session the connector believes active, 0: none
  applying,   \* the session message between applyAccess and Grants.Apply
  grants, suspended, listed, needList, held,
  lists,      \* ids of lists this process sent, not applied
  fresh,      \* those sent since gen last changed
  stmts,      \* grant -> [ver, age] of the statement held (ver 0: none)
  dead,       \* grants answered not_found
  list,       \* the List in flight (m.listing) or None
  pc, arg,    \* where each goroutine is, and the grant it presents or refreshes
  todo,       \* grants Run's step found due and has not refreshed yet
  call,       \* its leash.status.get: id, session when sent, answer
  saved,      \* the record's access and leash members in the state file
  told,       \* history: the newest a set or a refusal said of each grant, when the connector took it
  noted       \* history: told, without what only a list given up said, taking nothing away

env   == <<vault, faults>>
net   == <<inbox, reqs>>
conn  == <<acc, applying>>
news  == <<told, noted>>
core  == <<grants, suspended, listed, needList, lists, fresh, stmts, dead, news>>
procs == <<list, pc, arg, todo, call>>
vars  == <<env, net, conn, core, held, procs, saved>>

\* A statement that is shown as it is: before its refresh time, or refreshed less than minGap ago; or past both.
Ages == {"none", "usable", "due"}
NoStmt == [ver |-> 0, age |-> "none"]
NoCall == [id |-> None, sentWith |-> 0, reply |-> None]

Policy == [epoch: Nat, grants: [Grant -> Nat], suspended: BOOLEAN]
policy == [epoch |-> vault.epoch, grants |-> vault.grants, suspended |-> vault.suspended]

Codes == {"ok", "session_required", "owner_check_required", "not_found", "forbidden"}

\* A message from the vault; body is its policy when it sent the message.
Message == [type: {"updated", "granted", "ended", "list", "status"},
            re: ReqId \cup {None}, code: Codes, bad: BOOLEAN, session: Nat, body: Policy]

Request == [type: {"list", "status"}, id: ReqId, grant: Grant \cup {None}]

\* A List in flight; the caller that sends it, and how often it has.
ListState == [id: ReqId, by: Proc, try: Nat, sentWith: Nat, reply: Codes \cup {None}]

ASSUME NoneAssumption == None \notin Message /\ None \notin ListState /\ None \notin Codes

Event(type, s) == [type |-> type, re |-> None, code |-> "ok", bad |-> FALSE,
                   session |-> s, body |-> policy]

Init ==
  /\ vault = [epoch |-> 0, grants |-> [g \in Grant |-> 0], suspended |-> FALSE, session |-> 0,
              sessions |-> 0, held |-> FALSE, last |-> [g \in Grant |-> 0]]
  /\ inbox = {} /\ reqs = {} /\ faults = 0
  /\ acc = 0 /\ applying = None
  /\ grants = [g \in Grant |-> 0] /\ suspended = FALSE
  /\ listed = FALSE /\ needList = FALSE /\ held = FALSE
  /\ lists = {} /\ fresh = {}
  /\ stmts = [g \in Grant |-> NoStmt]
  /\ dead = {}
  /\ list = None
  /\ pc = [p \in Proc |-> "idle"]
  /\ arg = [p \in Proc |-> None]
  /\ todo = {}
  /\ call = [p \in Proc |-> NoCall]
  /\ saved = [acc |-> 0, grants |-> [g \in Grant |-> 0], suspended |-> FALSE]
  /\ told = [g \in Grant |-> [epoch |-> 0, ver |-> 0, suspended |-> FALSE]] /\ noted = told

\* One of the MaxFaults things that may go wrong.
Fault == faults < MaxFaults /\ faults' = faults + 1

-----------------------------------------------------------------------------
(***************************************************************************)
(* The vault.  It sends leash.grant.updated only within a session, and     *)
(* answers a request as it stands when it reads it.                        *)
(***************************************************************************)

\* The member issues, re-issues or revokes grants, or suspends or resumes the agent.
VaultChange ==
  /\ vault.epoch < MaxEpoch
  /\ \E to \in [Grant -> {"same", "new", "gone"}], susp \in BOOLEAN :
       LET last == [g \in Grant |-> IF to[g] = "new" THEN vault.last[g] + 1 ELSE vault.last[g]]
           gs == [g \in Grant |-> CASE to[g] = "new"  -> last[g]
                                    [] to[g] = "gone" -> 0
                                    [] to[g] = "same" -> vault.grants[g]]
           body == [epoch |-> vault.epoch + 1, grants |-> gs, suspended |-> susp]
       IN  /\ gs # vault.grants \/ susp # vault.suspended
           /\ vault' = [vault EXCEPT !.epoch = @ + 1, !.grants = gs, !.suspended = susp, !.last = last]
           /\ inbox' = IF vault.session = 0 THEN inbox
                       ELSE inbox \cup {[Event("updated", 0) EXCEPT !.body = body]}
  /\ UNCHANGED <<faults, reqs, conn, core, held, procs, saved>>

\* The member grants an access session, or ends it in the app.
VaultGrantSession ==
  /\ vault.sessions < MaxSession
  /\ vault' = [vault EXCEPT !.session = vault.sessions + 1, !.sessions = @ + 1]
  /\ inbox' = inbox \cup {Event("granted", vault.sessions + 1)}
  /\ UNCHANGED <<faults, reqs, conn, core, held, procs, saved>>

VaultEndSession ==
  /\ vault.session # 0
  /\ vault' = [vault EXCEPT !.session = 0]
  /\ inbox' = inbox \cup {Event("ended", vault.session)}
  /\ UNCHANGED <<faults, reqs, conn, core, held, procs, saved>>

\* A session expires by the clock: no event is sent; activeAt is false from then on.
SessionExpires ==
  /\ vault.session # 0
  /\ vault' = [vault EXCEPT !.session = 0]
  /\ acc' = IF acc = vault.session THEN 0 ELSE acc
  /\ UNCHANGED <<faults, net, applying, core, held, procs, saved>>

\* The daily owner check is due (the vault is held), or the member has done it.
VaultHold ==
  /\ Fault /\ ~vault.held
  /\ vault' = [vault EXCEPT !.held = TRUE]
  /\ UNCHANGED <<net, conn, core, held, procs, saved>>

VaultRelease ==
  /\ vault.held
  /\ vault' = [vault EXCEPT !.held = FALSE]
  /\ UNCHANGED <<faults, net, conn, core, held, procs, saved>>

AnswerCode(r) ==
  CASE vault.session = 0 -> "session_required"
    [] vault.session # 0 /\ vault.held -> "owner_check_required"
    [] vault.session # 0 /\ ~vault.held /\ r.type = "status" /\ vault.suspended -> "forbidden"
    [] vault.session # 0 /\ ~vault.held /\ r.type = "status" /\ ~vault.suspended
         /\ vault.grants[r.grant] = 0 -> "not_found"
    [] OTHER -> "ok"

\* The vault answers a request; one answer may be a body that does not parse.
VaultAnswer(r) ==
  /\ \E bad \in BOOLEAN :
       /\ IF bad THEN Fault ELSE UNCHANGED faults
       /\ inbox' = inbox \cup {[type |-> r.type, re |-> r.id, code |-> AnswerCode(r), bad |-> bad,
                                session |-> vault.session, body |-> policy]}
  /\ reqs' = reqs \ {r}
  /\ UNCHANGED <<vault, conn, core, held, procs, saved>>

-----------------------------------------------------------------------------
(***************************************************************************)
(* Apply, in vaultconn's goroutine inside the save of the batch.           *)
(***************************************************************************)

\* gen++: no list in flight may be applied in full any more.
LearnedButListStands == UNCHANGED fresh
Learned == fresh' = {}

\* A list is wanted.
NoListAsked == UNCHANGED needList
AskAgain == needList' = TRUE

\* How the newest thing said of a grant changes with a policy the vault sent.
Newer(k, body, g) ==
  IF body.epoch < k.epoch THEN k
  ELSE [epoch |-> body.epoch, ver |-> body.grants[g], suspended |-> body.suspended]

Tell(body) == told' = [g \in Grant |-> Newer(told[g], body, g)]
Note(body) == noted' = [g \in Grant |-> Newer(noted[g], body, g)]

\* applySet with a set that does not parse.
ApplyBad == /\ listed' = FALSE /\ AskAgain
            /\ UNCHANGED <<grants, suspended, stmts, dead, news>>

\* modeNarrow: keep only what the set also has, in the same version; suspend, never resume.
KeptInAnyVersion(body) == [g \in Grant |-> IF body.grants[g] # 0 THEN grants[g] ELSE 0]
Narrowed(body) == [g \in Grant |-> IF body.grants[g] = grants[g] THEN grants[g] ELSE 0]
Changed(body) == Narrowed(body) # grants \/ (body.suspended /\ ~suspended)

ApplyNarrow(body) ==
  /\ grants' = Narrowed(body)
  /\ suspended' = (suspended \/ body.suspended)
  /\ stmts' = [g \in Grant |-> IF Narrowed(body)[g] # grants[g] \/ (body.suspended /\ ~suspended)
                               THEN NoStmt ELSE stmts[g]]
  /\ AskAgain
  /\ UNCHANGED <<listed, dead>>

\* modeList: the set replaces the grants; a grant in an older version is dropped and asked for again.
\* A grant has the statement that came with it, unless there is none or it is refused.
Older(body) == {g \in Grant : body.grants[g] # 0 /\ body.grants[g] < grants[g]}

ApplyList(body) ==
  /\ grants' = [g \in Grant |-> IF g \in Older(body) THEN 0 ELSE body.grants[g]]
  /\ suspended' = body.suspended
  /\ \E with \in SUBSET {g \in Grant : grants'[g] # 0 /\ ~body.suspended} :
       stmts' = [g \in Grant |-> IF g \in with THEN [ver |-> body.grants[g], age |-> "usable"] ELSE NoStmt]
  /\ dead' = {}
  /\ listed' = TRUE
  /\ needList' = (needList \/ Older(body) # {})

\* leash.grant.updated narrows, and always counts as something learned.
ApplyUpdated(m) ==
  /\ m.type = "updated"
  /\ Learned
  /\ IF m.bad THEN ApplyBad
     ELSE ApplyNarrow(m.body) /\ Tell(m.body) /\ Note(m.body)
  /\ UNCHANGED lists

\* The answer to a list: in full only if this process sent it and learned nothing since.
ApplyListAnswer(m) ==
  /\ m.type = "list" /\ m.code = "ok"
  /\ lists' = lists \ {m.re}
  /\ \/ /\ m.bad
        /\ ApplyBad
        /\ fresh' = fresh \ {m.re}
     \/ /\ ~m.bad /\ m.re \in fresh
        /\ ApplyList(m.body) /\ Tell(m.body) /\ Note(m.body)
        /\ fresh' = fresh \ {m.re}
     \/ /\ ~m.bad /\ m.re \notin fresh
        /\ ApplyNarrow(m.body) /\ Tell(m.body)
        /\ IF Changed(m.body) THEN Learned ELSE UNCHANGED fresh
        /\ IF Changed(m.body) \/ m.re \in lists THEN Note(m.body) ELSE UNCHANGED noted

ApplySession(m) ==
  /\ \/ /\ m.type = "granted" /\ AskAgain
     \/ /\ m.type = "ended" /\ UNCHANGED needList
  /\ listed' = FALSE
  /\ UNCHANGED <<grants, suspended, lists, fresh, stmts, dead, news>>

\* persist's first half: the batch's session events reach Conn.Access() before the Manager.
ApplyAccess(m) ==
  /\ applying = None /\ m.type \in {"granted", "ended"}
  /\ acc' = IF m.type = "granted" THEN m.session ELSE 0
  /\ applying' = m
  /\ UNCHANGED <<env, net, core, held, procs, saved>>

\* The batch is saved and acknowledged, or the relay delivers it again.
SavedAndAcked(m) ==
  /\ saved' = [acc |-> acc, grants |-> grants', suspended |-> suspended']
  /\ \/ inbox' = inbox \ {m} /\ UNCHANGED faults
     \/ Fault /\ UNCHANGED inbox

\* The response goes to the call that waits for it, if one still does.
Dispatch(m) ==
  /\ list' = IF m.type = "list" /\ list # None /\ list.id = m.re
             THEN [list EXCEPT !.reply = m.code] ELSE list
  /\ call' = [p \in Proc |-> IF m.type = "status" /\ call[p].id = m.re
                             THEN [call[p] EXCEPT !.reply = m] ELSE call[p]]

\* persist's second half: Apply, Snapshot, save; then the dispatch.
Apply(m) ==
  /\ applying = (IF m.type \in {"granted", "ended"} THEN m ELSE None)
  /\ applying' = None
  /\ \/ ApplyUpdated(m)
     \/ ApplyListAnswer(m)
     \/ ApplySession(m)
     \/ /\ m.type = "status" \/ (m.type = "list" /\ m.code # "ok")
        /\ UNCHANGED core
  /\ SavedAndAcked(m)
  /\ Dispatch(m)
  /\ UNCHANGED <<vault, reqs, acc, held, pc, arg, todo>>

-----------------------------------------------------------------------------
(***************************************************************************)
(* List and listOnce: one at a time; callers that find one in flight wait. *)
(***************************************************************************)

\* No message, request or call still carries the id.
Unused(i) ==
  /\ i \notin lists
  /\ \A r \in reqs : r.id # i
  /\ \A m \in inbox : m.re # i
  /\ list # None => list.id # i
  /\ \A p \in Proc : call[p].id # i

\* The id of a request: ids are alike, so one of the unused stands for all.
New(i) == Unused(i) /\ i = CHOOSE j \in ReqId : Unused(j)

\* One list is sent; what is learned from here on overtakes its answer.
SendList(p, try) ==
  \E i \in ReqId :
    /\ New(i)
    /\ lists' = lists \cup {i}
    /\ fresh' = fresh \cup {i}
    /\ needList' = FALSE
    /\ list' = [id |-> i, by |-> p, try |-> try, sentWith |-> acc, reply |-> None]
    /\ reqs' = reqs \cup {[type |-> "list", id |-> i, grant |-> None]}

\* The list in flight ends: its caller goes on or gives up, and those who waited wake.
EndList(p, next) ==
  /\ list' = None
  /\ pc' = [q \in Proc |-> IF q = p THEN next ELSE IF pc[q] = "await" THEN "woken" ELSE pc[q]]

\* After a list that confirmed the grants Present checks again, and Run's step goes on.
Listed(p) == IF p = Loop THEN "step" ELSE "check"

ListBegin(p) ==
  /\ pc[p] = "list" /\ list = None
  /\ SendList(p, 1)
  /\ pc' = [pc EXCEPT ![p] = "listing"]
  /\ UNCHANGED <<env, inbox, conn, grants, suspended, listed, stmts, dead, news,
                 held, arg, todo, call, saved>>

ListAwait(p) ==
  /\ pc[p] = "list" /\ list # None
  /\ pc' = [pc EXCEPT ![p] = "await"]
  /\ UNCHANGED <<env, net, conn, core, held, list, arg, todo, call, saved>>

ListWoken(p) ==
  /\ pc[p] = "woken"
  /\ pc' = [pc EXCEPT ![p] = IF listed /\ ~needList THEN Listed(p) ELSE "idle"]
  /\ UNCHANGED <<env, net, conn, core, held, list, arg, todo, call, saved>>

\* session_required: the session that request was sent in is over, unless it changed since.
CompareAndSetAccess(sentWith) == acc' = IF acc = sentWith THEN 0 ELSE acc

\* The answer said yes: Apply saw it, in full or as a narrowing.
ListAnswered(p) ==
  /\ pc[p] = "listing" /\ list.reply = "ok"
  /\ IF needList /\ list.try < ListTries
     THEN SendList(p, list.try + 1) /\ UNCHANGED pc
     ELSE /\ EndList(p, IF needList \/ ~listed THEN "idle" ELSE Listed(p))
          /\ UNCHANGED <<reqs, lists, fresh, needList>>
  /\ UNCHANGED <<env, inbox, conn, grants, suspended, listed, stmts, dead, news,
                 held, arg, todo, call, saved>>

\* The vault refused it: no session, or it is held.
ListRefused(p) ==
  /\ pc[p] = "listing"
  /\ lists' = lists \ {list.id} /\ fresh' = fresh \ {list.id}
  /\ AskAgain
  /\ \/ /\ list.reply = "session_required"
        /\ listed' = FALSE /\ CompareAndSetAccess(list.sentWith)
        /\ UNCHANGED held
     \/ /\ list.reply = "owner_check_required"
        /\ held' = TRUE
        /\ UNCHANGED <<listed, acc>>
  /\ EndList(p, "idle")
  /\ UNCHANGED <<env, net, applying, grants, suspended, stmts, dead, news,
                 arg, todo, call, saved>>

\* It was not sent, or no answer was taken in time: the answer may still come, or be applied already.
ListTimesOut(p) ==
  /\ pc[p] = "listing" /\ Fault
  /\ lists' = lists \ {list.id} /\ fresh' = fresh \ {list.id}
  /\ AskAgain
  /\ reqs' \in {reqs, {r \in reqs : r.id # list.id}}
  /\ EndList(p, "idle")
  /\ UNCHANGED <<vault, inbox, conn, grants, suspended, listed, stmts, dead, news,
                 held, arg, todo, call, saved>>

-----------------------------------------------------------------------------
(***************************************************************************)
(* refresh: leash.status.get for one grant, by Present or by Run.          *)
(***************************************************************************)

SendStatus(p, g) ==
  \E i \in ReqId :
    /\ New(i)
    /\ call' = [call EXCEPT ![p] = [id |-> i, sentWith |-> acc, reply |-> None]]
    /\ reqs' = reqs \cup {[type |-> "status", id |-> i, grant |-> g]}
    /\ arg' = [arg EXCEPT ![p] = g]
    /\ pc' = [pc EXCEPT ![p] = "refresh"]

RefreshEnds(p, next) ==
  /\ call' = [call EXCEPT ![p] = NoCall]
  /\ pc' = [pc EXCEPT ![p] = IF p = Loop THEN "due" ELSE next]
  /\ arg' = IF p = Loop THEN [arg EXCEPT ![p] = None] ELSE arg
  /\ UNCHANGED <<list, todo>>

\* The grant is still current, and the statement parses and is for its delegation.
AnyStatement(g, m) == grants[g] # 0 /\ g \notin dead /\ ~suspended /\ ~m.bad /\ m.body.grants[g] # 0
IsCurrent(g, m) ==
  /\ grants[g] # 0 /\ g \notin dead /\ ~suspended
  /\ ~m.bad /\ m.body.grants[g] = grants[g]

\* A statement came: kept if it is for what is held now, whatever arrived since it was asked for.
Refreshed(p) ==
  /\ pc[p] = "refresh" /\ call[p].reply # None /\ call[p].reply.code = "ok"
  /\ LET g == arg[p]
         m == call[p].reply
     IN  \/ /\ IsCurrent(g, m)
            /\ stmts' = [stmts EXCEPT ![g] = [ver |-> m.body.grants[g], age |-> "usable"]]
            /\ RefreshEnds(p, "again")
         \/ /\ ~IsCurrent(g, m)
            /\ RefreshEnds(p, "idle")
            /\ UNCHANGED stmts
  /\ UNCHANGED <<env, net, conn, grants, suspended, listed, needList, lists, fresh, dead, news,
                 held, saved>>

\* not_found: the grant is not in force until a list sent after this says otherwise.
RefreshNotFound(p) ==
  /\ pc[p] = "refresh" /\ call[p].reply # None /\ call[p].reply.code = "not_found"
  /\ stmts' = [stmts EXCEPT ![arg[p]] = NoStmt]
  /\ dead' = dead \cup {arg[p]}
  /\ Learned /\ AskAgain
  /\ told' = [told EXCEPT ![arg[p]] = Newer(@, call[p].reply.body, arg[p])]
  /\ noted' = [noted EXCEPT ![arg[p]] = Newer(@, call[p].reply.body, arg[p])]
  /\ RefreshEnds(p, "idle")
  /\ UNCHANGED <<env, net, conn, grants, suspended, listed, lists, held, saved>>

\* forbidden: the agent is suspended until a list sent after this says otherwise.
RefreshForbidden(p) ==
  /\ pc[p] = "refresh" /\ call[p].reply # None /\ call[p].reply.code = "forbidden"
  /\ suspended' = TRUE
  /\ stmts' = [g \in Grant |-> NoStmt]
  /\ Learned /\ AskAgain
  /\ Tell(call[p].reply.body) /\ Note(call[p].reply.body)
  /\ RefreshEnds(p, "idle")
  /\ UNCHANGED <<env, net, conn, grants, listed, dead, lists, held, saved>>

\* No session, or held.
RefreshRefused(p) ==
  /\ pc[p] = "refresh" /\ call[p].reply # None
  /\ \/ /\ call[p].reply.code = "session_required"
        /\ listed' = FALSE /\ CompareAndSetAccess(call[p].sentWith)
        /\ UNCHANGED held
     \/ /\ call[p].reply.code = "owner_check_required"
        /\ held' = TRUE
        /\ UNCHANGED <<listed, acc>>
  /\ RefreshEnds(p, "idle")
  /\ UNCHANGED <<env, net, applying, grants, suspended, needList, lists, fresh, stmts, dead,
                 news, saved>>

RefreshTimesOut(p) ==
  /\ pc[p] = "refresh" /\ Fault
  /\ reqs' \in {reqs, {r \in reqs : r.id # call[p].id}}
  /\ RefreshEnds(p, "idle")
  /\ UNCHANGED <<vault, inbox, conn, core, held, saved>>

-----------------------------------------------------------------------------
(***************************************************************************)
(* Present, and the Manager's own loop.                                    *)
(***************************************************************************)

Presentable(g) == ~suspended /\ acc # 0 /\ listed /\ grants[g] # 0 /\ g \notin dead
Usable(g) == stmts[g].age = "usable"

\* A tool call asks for a grant: the grants are listed first if they are not confirmed.
Present(p, g) ==
  /\ p \in Presenter /\ pc[p] = "idle"
  /\ arg' = [arg EXCEPT ![p] = g]
  /\ \/ /\ ~suspended /\ acc # 0 /\ ~listed
        /\ pc' = [pc EXCEPT ![p] = "list"]
     \/ /\ Presentable(g)
        /\ pc' = [pc EXCEPT ![p] = "check"]
  /\ UNCHANGED <<env, net, conn, core, held, list, todo, call, saved>>

\* Checked under the lock, also again after a list and after a refresh, and presented.
ShowUnchecked(p) ==
  /\ pc[p] \in {"check", "again"} /\ Usable(arg[p])
  /\ pc' = [pc EXCEPT ![p] = "shown"]
  /\ UNCHANGED <<env, net, conn, core, held, list, arg, todo, call, saved>>

Show(p) ==
  /\ pc[p] \in {"check", "again"}
  /\ Presentable(arg[p]) /\ Usable(arg[p])
  /\ pc' = [pc EXCEPT ![p] = "shown"]
  /\ UNCHANGED <<env, net, conn, core, held, list, arg, todo, call, saved>>

\* The statement must be refreshed first, once.
CheckRefresh(p) ==
  /\ pc[p] = "check" /\ Presentable(arg[p]) /\ ~Usable(arg[p])
  /\ SendStatus(p, arg[p])
  /\ UNCHANGED <<env, inbox, conn, core, held, list, todo, saved>>

\* Present returns: what it presented, or why it presents nothing.
Return(p) ==
  /\ \/ pc[p] = "shown"
     \/ pc[p] = "check" /\ ~Presentable(arg[p])
     \/ pc[p] = "again" /\ ~(Presentable(arg[p]) /\ Usable(arg[p]))
  /\ pc' = [pc EXCEPT ![p] = "idle"]
  /\ UNCHANGED <<env, net, conn, core, held, list, arg, todo, call, saved>>

\* Run's step: nothing without a session or while held; a list if one is wanted.
LoopStep ==
  /\ pc[Loop] = "idle" /\ ~held /\ acc # 0
  /\ pc' = [pc EXCEPT ![Loop] = IF needList \/ ~listed THEN "list" ELSE "step"]
  /\ UNCHANGED <<env, net, conn, core, held, list, arg, todo, call, saved>>

\* Grants whose statement is past its refresh time, or that have none.  Run refreshes those that
\* Present was asked for within wantedFor and whose pauses are over: any of them.
DueGrants == IF suspended THEN {}
             ELSE {g \in Grant : grants[g] # 0 /\ g \notin dead /\ stmts[g].age \in {"none", "due"}}

LoopCollect ==
  /\ pc[Loop] = "step"
  /\ todo' \in SUBSET DueGrants
  /\ pc' = [pc EXCEPT ![Loop] = "due"]
  /\ UNCHANGED <<env, net, conn, core, held, list, arg, call, saved>>

LoopRefresh ==
  /\ pc[Loop] = "due"
  /\ \E g \in todo : SendStatus(Loop, g) /\ todo' = todo \ {g}
  /\ UNCHANGED <<env, inbox, conn, core, held, list, saved>>

LoopRests ==
  /\ pc[Loop] = "due" /\ todo = {}
  /\ pc' = [pc EXCEPT ![Loop] = "idle"]
  /\ UNCHANGED <<env, net, conn, core, held, list, arg, todo, call, saved>>

\* Time passes a statement's refresh time, and minGap since it was refreshed.
TimePasses ==
  /\ \E g \in Grant : Usable(g) /\ stmts' = [stmts EXCEPT ![g].age = "due"]
  /\ UNCHANGED <<env, net, conn, grants, suspended, listed, needList, lists, fresh, dead, news,
                 held, procs, saved>>

\* A vault.status that is not held; one sent before the hold can come after it.
OnStatus ==
  /\ held /\ held' = FALSE
  /\ IF vault.held THEN Fault ELSE UNCHANGED faults
  /\ UNCHANGED <<vault, net, conn, core, procs, saved>>

\* The process ends, and a new one binds what the state file holds.
Restart ==
  /\ Fault
  /\ acc' = saved.acc /\ applying' = None
  /\ grants' = saved.grants /\ suspended' = saved.suspended
  /\ listed' = FALSE /\ needList' = FALSE /\ held' = FALSE
  /\ lists' = {} /\ fresh' = {}
  /\ stmts' = [g \in Grant |-> NoStmt]
  /\ dead' = {}
  /\ list' = None
  /\ pc' = [p \in Proc |-> "idle"]
  /\ arg' = [p \in Proc |-> None]
  /\ todo' = {}
  /\ call' = [p \in Proc |-> NoCall]
  /\ UNCHANGED <<vault, net, news, saved>>

-----------------------------------------------------------------------------
VaultNext == \/ VaultChange \/ VaultGrantSession \/ VaultEndSession \/ SessionExpires
             \/ VaultHold \/ VaultRelease
             \/ \E r \in reqs : VaultAnswer(r)

Deliver == \E m \in inbox : ApplyAccess(m) \/ Apply(m)

ProcStep(p) ==
  \/ ListBegin(p) \/ ListAwait(p) \/ ListWoken(p) \/ ListAnswered(p) \/ ListRefused(p)
  \/ Refreshed(p) \/ RefreshNotFound(p) \/ RefreshForbidden(p) \/ RefreshRefused(p)
  \/ Show(p) \/ CheckRefresh(p) \/ Return(p)

LoopNext == LoopStep \/ LoopCollect \/ LoopRefresh \/ LoopRests

Next ==
  \/ VaultNext \/ Deliver
  \/ \E p \in Proc : ProcStep(p) \/ ListTimesOut(p) \/ RefreshTimesOut(p)
  \/ \E p \in Presenter, g \in Grant : Present(p, g)
  \/ LoopNext \/ TimePasses \/ OnStatus \/ Restart

Spec == Init /\ [][Next]_vars

\* The vault answers what it is asked and its member does the daily check; mailboxes deliver, and keep
\* no kind of message back for ever; and every goroutine goes on.  The member grants, changes and ends nothing by obligation.
Fairness ==
  /\ WF_vars(\E r \in reqs : VaultAnswer(r))
  /\ WF_vars(VaultRelease) /\ WF_vars(OnStatus)
  /\ WF_vars(Deliver)
  /\ SF_vars(\E m \in inbox : m.type = "updated" /\ (ApplyAccess(m) \/ Apply(m)))
  /\ \A p \in Proc : WF_vars(ProcStep(p))
  /\ WF_vars(LoopNext)

FairSpec == Spec /\ Fairness

-----------------------------------------------------------------------------
(***************************************************************************)
(* What makes it correct.                                                  *)
(***************************************************************************)

Statement == [ver: Nat, age: Ages]
Said == [epoch: Nat, ver: Nat, suspended: BOOLEAN]

VaultType ==
  vault \in [epoch: Nat, grants: [Grant -> Nat], suspended: BOOLEAN, session: Nat,
             sessions: Nat, held: BOOLEAN, last: [Grant -> Nat]]

MailType == inbox \subseteq Message /\ reqs \subseteq Request /\ applying \in Message \cup {None}

ManagerType ==
  /\ grants \in [Grant -> Nat] /\ suspended \in BOOLEAN
  /\ listed \in BOOLEAN /\ needList \in BOOLEAN /\ held \in BOOLEAN
  /\ lists \subseteq ReqId /\ fresh \subseteq ReqId
  /\ stmts \in [Grant -> Statement] /\ dead \subseteq Grant
  /\ told \in [Grant -> Said] /\ noted \in [Grant -> Said]

\* Where a goroutine can be: Present's callers and Run share the lists and the refreshes.
Waits == {"idle", "list", "await", "woken", "listing", "refresh"}

CallState == [id: ReqId \cup {None}, sentWith: Nat, reply: Message \cup {None}]

ProcType ==
  /\ list \in ListState \cup {None}
  /\ pc \in [Proc -> Waits \cup {"check", "again", "shown", "step", "due"}]
  /\ arg \in [Proc -> Grant \cup {None}] /\ todo \subseteq Grant
  /\ \A p \in Presenter : /\ pc[p] \in Waits \cup {"check", "again", "shown"}
                          /\ pc[p] # "idle" => arg[p] \in Grant
  /\ pc[Loop] \in Waits \cup {"step", "due"}
  /\ pc[Loop] = "refresh" => arg[Loop] \in Grant
  /\ call \in [Proc -> CallState]

TypeOK ==
  /\ VaultType /\ MailType /\ ManagerType /\ ProcType
  /\ faults \in Nat /\ acc \in Nat
  /\ saved \in [acc: Nat, grants: [Grant -> Nat], suspended: BOOLEAN]

\* A history says of a grant what is held.
Says(history, g) == history[g].ver = grants[g] /\ ~history[g].suspended

\* A list was sent whose answer is still to be applied.
Awaited == list # None /\ list.id \in lists

\* A grant that may be presented is in force, in that version, in the newest that a set or a refusal said
\* of it, whatever order they came in: nothing that was taken away comes back because an older answer
\* arrives after it (Apply, applySet, refresh, presentable).  One message may be overlooked, the answer to a
\* list given up that takes nothing away from what is held: if it says otherwise, a newer list is wanted
\* or on its way.
PresentableInForce ==
  \A g \in Grant : Presentable(g) => Says(noted, g) /\ (Says(told, g) \/ needList \/ Awaited)

\* The same with nothing overlooked, as the comment on gen (leash.go:160) has it: every narrowing.
\* It does not hold, and no run checks it (README, Findings): applySet changes gen only when a narrowing
\* removes something, so a list still in flight, answered before, is applied in full after it.
PresentableAsTold == \A g \in Grant : Presentable(g) => Says(told, g)

\* The statement kept for a grant is for the version that is held, and none is kept while suspended:
\* a refresh whose answer crosses a narrowing leaves nothing behind (refresh, applySet).
StatementsMatchGrants ==
  \A g \in Grant : /\ stmts[g].ver # 0 => stmts[g].ver = grants[g] /\ ~suspended
                   /\ stmts[g].ver = 0 <=> stmts[g].age = "none"

\* What is given back to a confirmed set, a grant or another version of it, one answered not_found, or all
\* when a suspension ends, is given back as the newest that was noted has it (gen, lists, applySet).
GivenBack(g) ==
  /\ listed' /\ grants'[g] # 0
  /\ \/ grants'[g] # grants[g]
     \/ g \in dead \ dead'
     \/ suspended /\ ~suspended'

NeverGoesBack ==
  [][\A g \in Grant : GivenBack(g) =>
        noted'[g].ver = grants'[g] /\ noted'[g].suspended = suspended']_vars

\* The lists this process waits for, and of those the lists that may be applied in full: at most one,
\* the list in flight, until it is answered.
OneList ==
  /\ fresh \subseteq lists /\ lists \subseteq {i \in ReqId : list # None /\ list.id = i}
  /\ list # None /\ list.reply = "ok" => list.id \notin lists
  /\ \A p \in Proc : pc[p] = "listing" => list # None /\ list.by = p

\* What answers them is no older than anything noted, which is no newer than the vault.
FreshIsNewest ==
  /\ \A g \in Grant : noted[g].epoch <= vault.epoch
  /\ \A m \in inbox : m.body.epoch <= vault.epoch
  /\ \A p \in Proc : call[p].reply # None => call[p].reply.body.epoch <= vault.epoch
  /\ \A m \in inbox : m.type = "list" /\ m.re \in fresh =>
       \A g \in Grant : noted[g].epoch <= m.body.epoch

\* Once confirmed, what is held and not answered not_found is in force in the newest noted of it.
HeldInForce ==
  listed /\ ~suspended => \A g \in Grant : grants[g] # 0 /\ g \notin dead => Says(noted, g)

\* While no other list is wanted, what answers the list awaited is no older than anything told.
AnswerIsNews ==
  /\ \A g \in Grant : told[g].epoch <= vault.epoch
  /\ ~needList => \A m \in inbox : m.type = "list" /\ m.re \in lists =>
                    \A g \in Grant : told[g].epoch <= m.body.epoch

\* What was overlooked is asked for.
Asked == listed => needList \/ Awaited \/ told = noted

\* The inductive invariant: why presenting is safe.
IInv == TypeOK /\ OneList /\ FreshIsNewest /\ HeldInForce /\ AnswerIsNews /\ Asked

\* A grant that is held with its statement, in a session, and in force in the newest noted of it.
InForce(g) == grants[g] # 0 /\ Says(noted, g) /\ stmts[g].ver = grants[g] /\ acc # 0

\* What Present returns is in force in the newest that a set or a refusal said (but for the answers that
\* PresentableInForce leaves out), and its statement is for that version, whatever arrived while it
\* waited for a list or a refresh (Present checks again).
ShownInForce ==
  [][\A p \in Proc : pc[p] # "shown" /\ pc'[p] = "shown" => InForce(arg[p])]_vars

\* While a session lasts and the vault is not held, the connector comes to hold what the vault has
\* granted, and confirmed: no wanted list is forgotten, whatever overtakes the answers (needList, Run).
InSync == listed /\ grants = vault.grants /\ suspended = vault.suspended

Converges == <>[](acc # 0 /\ vault.session # 0 => InSync)
=============================================================================
