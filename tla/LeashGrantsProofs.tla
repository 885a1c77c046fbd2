--------------------------- MODULE LeashGrantsProofs ---------------------------
(***************************************************************************)
(* For any grants, tool calls, request ids and bounds: LeashGrants keeps   *)
(* its types, never goes back to an older policy than one it noted, and    *)
(* presents only what is in force in the newest of them.  What it notes is *)
(* every set and refusal it takes, but for the answer to a list given up   *)
(* that takes nothing away (LeashGrants, PresentableAsTold).               *)
(*                                                                         *)
(* The inductive invariant says why the lists in `fresh` may be applied in *)
(* full: there is at most one, the list in flight, and whatever answers it *)
(* is no older than anything noted so far.                                 *)
(***************************************************************************)
EXTENDS LeashGrants, TLAPS

USE DEF Learned, AskAgain, IsCurrent, news

LEMMA NewerType ==
  ASSUME NEW k \in Said, NEW body \in Policy, NEW g \in Grant
  PROVE  Newer(k, body, g) \in Said /\ Newer(k, body, g).epoch >= k.epoch
  BY DEF Newer, Policy, Said

LEMMA AnswerCodeType == ASSUME NEW r PROVE AnswerCode(r) \in Codes
  BY DEF AnswerCode, Codes

LEMMA PolicyType == VaultType => policy \in Policy
  BY DEF VaultType, policy, Policy

LEMMA EventType ==
  ASSUME VaultType, NEW s \in Nat, NEW type \in {"updated", "granted", "ended"}
  PROVE  Event(type, s) \in Message
  BY PolicyType DEF Event, Message, Codes

LEMMA TypeInit == Init => TypeOK
<1> SUFFICES ASSUME Init PROVE TypeOK
  OBVIOUS
<1>1. VaultType
  BY DEF Init, VaultType
<1>2. MailType
  BY DEF Init, MailType
<1>3. ManagerType
  BY DEF Init, ManagerType, NoStmt, Statement, Said, Ages
<1>4. ProcType
  BY DEF Init, ProcType, NoCall, CallState, Proc, Waits
<1>5. saved \in [acc: Nat, grants: [Grant -> Nat], suspended: BOOLEAN]
  BY DEF Init
<1> QED
  BY <1>1, <1>2, <1>3, <1>4, <1>5 DEF Init, TypeOK

LEMMA VaultChangeFacts ==
  ASSUME TypeOK, VaultChange
  PROVE  /\ VaultType' /\ vault'.epoch = vault.epoch + 1
         /\ \E b \in Policy : /\ b.epoch = vault.epoch + 1
                             /\ inbox' \subseteq inbox \cup {[Event("updated", 0) EXCEPT !.body = b]}
<1> USE DEF TypeOK
<1>1. PICK to \in [Grant -> {"same", "new", "gone"}], susp \in BOOLEAN :
        LET last == [g \in Grant |-> IF to[g] = "new" THEN vault.last[g] + 1 ELSE vault.last[g]]
            gs == [g \in Grant |-> CASE to[g] = "new"  -> last[g]
                                     [] to[g] = "gone" -> 0
                                     [] to[g] = "same" -> vault.grants[g]]
            body == [epoch |-> vault.epoch + 1, grants |-> gs, suspended |-> susp]
        IN  /\ vault' = [vault EXCEPT !.epoch = @ + 1, !.grants = gs, !.suspended = susp, !.last = last]
            /\ inbox' = IF vault.session = 0 THEN inbox
                        ELSE inbox \cup {[Event("updated", 0) EXCEPT !.body = body]}
  BY DEF VaultChange
<1> DEFINE last == [g \in Grant |-> IF to[g] = "new" THEN vault.last[g] + 1 ELSE vault.last[g]]
           gs == [g \in Grant |-> CASE to[g] = "new"  -> last[g]
                                    [] to[g] = "gone" -> 0
                                    [] to[g] = "same" -> vault.grants[g]]
           body == [epoch |-> vault.epoch + 1, grants |-> gs, suspended |-> susp]
<1>2. last \in [Grant -> Nat]
  BY DEF VaultType
<1>3. gs \in [Grant -> Nat]
  BY <1>2 DEF VaultType
<1>4. body \in Policy
  BY <1>3 DEF VaultType, Policy
<1> HIDE DEF last, gs, body
<1>6. VaultType' /\ vault'.epoch = vault.epoch + 1
  <2>1. vault' = [vault EXCEPT !.epoch = @ + 1, !.grants = gs, !.suspended = susp, !.last = last]
    BY <1>1 DEF last, gs
  <2> HIDE DEF last, gs
  <2>2. vault' = [epoch |-> vault.epoch + 1, grants |-> gs, suspended |-> susp,
                  session |-> vault.session, sessions |-> vault.sessions,
                  held |-> vault.held, last |-> last]
    BY <2>1 DEF VaultType
  <2> QED
    BY <2>2, <1>2, <1>3 DEF VaultType
<1>7. inbox' \subseteq inbox \cup {[Event("updated", 0) EXCEPT !.body = body]}
  BY <1>1 DEF last, gs, body
<1>8. body.epoch = vault.epoch + 1
  BY DEF body
<1> QED
  BY <1>4, <1>6, <1>7, <1>8

LEMMA VaultChangeType == TypeOK /\ VaultChange => TypeOK'
<1> SUFFICES ASSUME TypeOK, VaultChange PROVE TypeOK'
  OBVIOUS
<1>1. PICK b \in Policy : inbox' \subseteq inbox \cup {[Event("updated", 0) EXCEPT !.body = b]}
  BY VaultChangeFacts
<1>2. [Event("updated", 0) EXCEPT !.body = b] \in Message
  BY EventType DEF TypeOK, Message
<1> QED
  BY <1>1, <1>2, VaultChangeFacts
     DEF TypeOK, MailType, VaultChange, ManagerType, ProcType, conn, core, procs

LEMMA VaultTypeStep == TypeOK /\ VaultNext => TypeOK'
<1> SUFFICES ASSUME TypeOK, VaultNext PROVE TypeOK'
  OBVIOUS
<1> USE DEF TypeOK, env, net, conn, core, procs, ManagerType, ProcType
<1>1. CASE VaultChange
  BY <1>1, VaultChangeType
<1>2. CASE VaultGrantSession
  <2>1. Event("granted", vault.sessions + 1) \in Message
    BY EventType DEF VaultType
  <2>2. inbox' = inbox \cup {Event("granted", vault.sessions + 1)}
    BY <1>2 DEF VaultGrantSession
  <2>3. vault' = [epoch |-> vault.epoch, grants |-> vault.grants, suspended |-> vault.suspended,
                  session |-> vault.sessions + 1, sessions |-> vault.sessions + 1,
                  held |-> vault.held, last |-> vault.last]
    BY <1>2 DEF VaultGrantSession, VaultType
  <2>4. VaultType'
    BY <2>3 DEF VaultType
  <2> QED
    BY <1>2, <2>1, <2>2, <2>4 DEF VaultGrantSession, MailType
<1>3. CASE VaultEndSession
  <2>1. Event("ended", vault.session) \in Message
    BY EventType DEF VaultType
  <2>2. VaultType' /\ inbox' = inbox \cup {Event("ended", vault.session)}
    BY <1>3 DEF VaultEndSession, VaultType
  <2> QED
    BY <1>3, <2>1, <2>2 DEF VaultEndSession, MailType
<1>4. CASE SessionExpires
  BY <1>4 DEF SessionExpires, MailType, VaultType
<1>5. CASE VaultHold \/ VaultRelease
  <2>1. PICK h \in BOOLEAN : vault' = [vault EXCEPT !.held = h]
    BY <1>5 DEF VaultHold, VaultRelease
  <2>2. VaultType'
    BY <2>1 DEF VaultType
  <2>3. faults' \in Nat
    BY <1>5 DEF VaultHold, VaultRelease, Fault
  <2> QED
    BY <1>5, <2>2, <2>3 DEF VaultHold, VaultRelease, MailType
<1>6. ASSUME NEW r \in reqs, VaultAnswer(r) PROVE TypeOK'
  <2>1. ASSUME NEW bad \in BOOLEAN
        PROVE [type |-> r.type, re |-> r.id, code |-> AnswerCode(r), bad |-> bad,
               session |-> vault.session, body |-> policy] \in Message
    BY PolicyType, AnswerCodeType DEF MailType, VaultType, Request, Message
  <2>a. PICK bad \in BOOLEAN :
           inbox' = inbox \cup {[type |-> r.type, re |-> r.id, code |-> AnswerCode(r), bad |-> bad,
                                 session |-> vault.session, body |-> policy]}
    BY <1>6 DEF VaultAnswer
  <2>2. MailType'
    BY <1>6, <2>1, <2>a DEF VaultAnswer, MailType
  <2> QED
    BY <1>6, <2>2 DEF VaultAnswer, Fault, VaultType
<1> QED
  BY <1>1, <1>2, <1>3, <1>4, <1>5, <1>6 DEF VaultNext

LEMMA ApplyNarrowType ==
  ASSUME TypeOK, NEW body \in Policy, ApplyNarrow(body)
  PROVE  /\ grants' \in [Grant -> Nat] /\ suspended' \in BOOLEAN /\ stmts' \in [Grant -> Statement]
         /\ needList' \in BOOLEAN /\ listed' \in BOOLEAN /\ dead' \subseteq Grant
<1>1. Narrowed(body) \in [Grant -> Nat]
  BY DEF TypeOK, ManagerType, Narrowed
<1> QED
  BY <1>1 DEF TypeOK, ManagerType, ApplyNarrow, Statement, NoStmt, Ages, Policy

LEMMA ApplyListType ==
  ASSUME TypeOK, NEW body \in Policy, list # None, ApplyList(body)
  PROVE  /\ grants' \in [Grant -> Nat] /\ suspended' \in BOOLEAN /\ stmts' \in [Grant -> Statement]
         /\ needList' \in BOOLEAN /\ listed' \in BOOLEAN /\ dead' \subseteq Grant
<1>1. grants' \in [Grant -> Nat]
  BY DEF TypeOK, ManagerType, ApplyList, Policy
<1>2. stmts' \in [Grant -> Statement]
  BY DEF ApplyList, Statement, NoStmt, Ages, Policy
<1> QED
  BY <1>1, <1>2 DEF TypeOK, ManagerType, ProcType, ListState, ApplyList, Policy

LEMMA ApplyManagerType ==
  ASSUME TypeOK, NEW m \in Message, list # None \/ m.re \notin fresh,
         \/ ApplyUpdated(m) \/ ApplyListAnswer(m) \/ ApplySession(m) \/ UNCHANGED core,
         UNCHANGED held
  PROVE  ManagerType'
<1> m.body \in Policy /\ m.bad \in BOOLEAN
  BY DEF Message
<1>2. /\ Tell(m.body) => told' \in [Grant -> Said]
      /\ Note(m.body) => noted' \in [Grant -> Said]
  BY NewerType DEF Tell, Note, TypeOK, ManagerType
<1>3. CASE ApplyUpdated(m)
  BY <1>2, <1>3, ApplyNarrowType DEF ApplyUpdated, ApplyBad, TypeOK, ManagerType
<1>4. CASE ApplyListAnswer(m)
  <2>1. CASE m.bad
    BY <1>4, <2>1 DEF ApplyListAnswer, ApplyBad, TypeOK, ManagerType
  <2>2. CASE ~m.bad /\ m.re \in fresh
    BY <1>2, <1>4, <2>2, ApplyListType DEF ApplyListAnswer, TypeOK, ManagerType
  <2>3. CASE ~m.bad /\ m.re \notin fresh
    BY <1>2, <1>4, <2>3, ApplyNarrowType DEF ApplyListAnswer, TypeOK, ManagerType
  <2> QED
    BY <2>1, <2>2, <2>3
<1>5. CASE ApplySession(m)
  BY <1>5 DEF ApplySession, TypeOK, ManagerType
<1>6. CASE UNCHANGED core
  BY <1>6 DEF core, TypeOK, ManagerType
<1> QED
  BY <1>3, <1>4, <1>5, <1>6

LEMMA DispatchType ==
  ASSUME TypeOK, NEW m \in Message, Dispatch(m), UNCHANGED <<pc, arg, todo>>
  PROVE  ProcType'
<1> USE DEF TypeOK, ProcType
<1>1. list' \in ListState \cup {None}
  BY DEF Dispatch, ListState, Message
<1>2. call' \in [Proc -> CallState]
  BY DEF Dispatch, CallState
<1> QED
  BY <1>1, <1>2

LEMMA SendListType ==
  ASSUME TypeOK, NEW p \in Proc, NEW try \in Nat, SendList(p, try), UNCHANGED <<todo, call, arg>>,
         \/ pc' = [pc EXCEPT ![p] = "listing"] /\ pc[p] = "list"
         \/ UNCHANGED pc
  PROVE  /\ lists' \subseteq ReqId /\ fresh' \subseteq ReqId /\ needList' \in BOOLEAN
         /\ reqs' \subseteq Request /\ ProcType'
<1> USE DEF TypeOK
<1>1. PICK i \in ReqId :
        /\ lists' = lists \cup {i} /\ fresh' = fresh \cup {i} /\ needList' = FALSE
        /\ list' = [id |-> i, by |-> p, try |-> try, sentWith |-> acc, reply |-> None]
        /\ reqs' = reqs \cup {[type |-> "list", id |-> i, grant |-> None]}
  BY DEF SendList
<1>2. reqs' \subseteq Request
  BY <1>1 DEF MailType, Request
<1>3. list' \in ListState
  BY <1>1 DEF ListState
<1>4. ProcType'
  BY <1>3, LeashAssumption DEF ProcType, Waits, Proc
<1> QED
  BY <1>1, <1>2, <1>4 DEF ManagerType

LEMMA EndListType ==
  ASSUME TypeOK, NEW p \in Proc, pc[p] = "listing", NEW next \in {"idle", Listed(p)},
         EndList(p, next), UNCHANGED <<todo, call, arg>>
  PROVE  ProcType'
  BY LeashAssumption DEF TypeOK, ProcType, EndList, Listed, Waits, Proc

LEMMA SendStatusType ==
  ASSUME TypeOK, NEW p \in Proc, NEW g \in Grant, SendStatus(p, g), UNCHANGED list,
         todo' \subseteq Grant
  PROVE  reqs' \subseteq Request /\ ProcType'
<1> USE DEF TypeOK
<1>1. PICK i \in ReqId :
        /\ call' = [call EXCEPT ![p] = [id |-> i, sentWith |-> acc, reply |-> None]]
        /\ reqs' = reqs \cup {[type |-> "status", id |-> i, grant |-> g]}
        /\ arg' = [arg EXCEPT ![p] = g]
        /\ pc' = [pc EXCEPT ![p] = "refresh"]
  BY DEF SendStatus
<1>2. reqs' \subseteq Request
  BY <1>1 DEF MailType, Request
<1>3. call' \in [Proc -> CallState]
  BY <1>1 DEF ProcType, CallState
<1> QED
  BY <1>1, <1>2, <1>3, LeashAssumption DEF ProcType, Waits, Proc

LEMMA RefreshEndsType ==
  ASSUME TypeOK, NEW p \in Proc, pc[p] = "refresh", NEW next \in {"idle", "again"},
         RefreshEnds(p, next)
  PROVE  ProcType'
<1>1. call' \in [Proc -> CallState]
  BY DEF RefreshEnds, TypeOK, ProcType, NoCall, CallState
<1> QED
  BY <1>1, LeashAssumption DEF RefreshEnds, TypeOK, ProcType, Waits, Proc

LEMMA DeliverType == TypeOK /\ OneList /\ Deliver => TypeOK'
<1> SUFFICES ASSUME TypeOK, OneList, NEW m \in inbox, ApplyAccess(m) \/ Apply(m) PROVE TypeOK'
  BY DEF Deliver
<1>0. m \in Message
  BY DEF TypeOK, MailType
<1>1. CASE ApplyAccess(m)
  BY <1>0, <1>1 DEF ApplyAccess, env, net, core, procs, TypeOK, VaultType, MailType, ManagerType,
                    ProcType, Message
<1>2. CASE Apply(m)
  <2>1. list # None \/ m.re \notin fresh
    BY DEF OneList
  <2>2. ManagerType'
    BY <1>0, <1>2, <2>1, ApplyManagerType DEF Apply
  <2>3. ProcType'
    BY <1>0, <1>2, DispatchType DEF Apply
  <2>4. MailType' /\ faults' \in Nat
    BY <1>2 DEF Apply, SavedAndAcked, Fault, TypeOK, MailType
  <2>5. saved' \in [acc: Nat, grants: [Grant -> Nat], suspended: BOOLEAN]
    BY <1>2, <2>2 DEF Apply, SavedAndAcked, TypeOK, ManagerType
  <2> QED
    BY <1>2, <2>2, <2>3, <2>4, <2>5 DEF Apply, TypeOK, VaultType
<1> QED
  BY <1>1, <1>2

LEMMA ProcStepType == ASSUME TypeOK, OneList, NEW p \in Proc, ProcStep(p) PROVE TypeOK'
<1> USE DEF TypeOK, env, net, conn, core, procs
<1>1. CASE ListBegin(p)
  BY <1>1, SendListType DEF ListBegin, MailType, ManagerType, VaultType
<1>2. CASE ListAwait(p)
  BY <1>2, LeashAssumption DEF ListAwait, MailType, ManagerType, VaultType, ProcType, Waits, Proc
<1>3. CASE ListWoken(p)
  BY <1>3, LeashAssumption
     DEF ListWoken, Listed, MailType, ManagerType, VaultType, ProcType, Waits, Proc
<1>4. CASE ListAnswered(p)
  <2> list # None /\ list.try \in Nat
    BY <1>4 DEF ListAnswered, OneList, ProcType, ListState
  <2>1. CASE needList /\ list.try < ListTries
    <3>1. SendList(p, list.try + 1) /\ UNCHANGED <<todo, call, arg, pc>>
      BY <1>4, <2>1 DEF ListAnswered
    <3>2. reqs' \subseteq Request /\ ProcType' /\ lists' \subseteq ReqId /\ fresh' \subseteq ReqId
          /\ needList' \in BOOLEAN
      BY <3>1, SendListType
    <3> QED
      BY <1>4, <3>2 DEF ListAnswered, MailType, ManagerType, VaultType
  <2>2. CASE ~(needList /\ list.try < ListTries)
    <3>1. ProcType'
      BY <1>4, <2>2, EndListType DEF ListAnswered
    <3> QED
      BY <1>4, <2>2, <3>1 DEF ListAnswered, MailType, ManagerType, VaultType
  <2> QED
    BY <2>1, <2>2
<1>5. CASE ListRefused(p)
  <2>1. ProcType'
    BY <1>5, EndListType DEF ListRefused
  <2>2. acc' \in Nat
    BY <1>5 DEF ListRefused, CompareAndSetAccess
  <2> QED
    BY <1>5, <2>1, <2>2 DEF ListRefused, MailType, ManagerType, VaultType
<1>6. CASE Refreshed(p)
  <2> DEFINE m == call[p].reply
             g == arg[p]
  <2>1. m \in Message /\ g \in Grant
    BY <1>6 DEF Refreshed, ProcType, CallState, Proc, Waits
  <2>2. ProcType'
    BY <1>6, RefreshEndsType DEF Refreshed
  <2>3. stmts' \in [Grant -> Statement]
    BY <1>6, <2>1 DEF Refreshed, ManagerType, Statement, Ages, Message, Policy
  <2> QED
    BY <1>6, <2>2, <2>3 DEF Refreshed, MailType, ManagerType, VaultType
<1>7. CASE RefreshNotFound(p)
  <2>1. call[p].reply.body \in Policy /\ arg[p] \in Grant
    BY <1>7 DEF RefreshNotFound, ProcType, CallState, Message, Proc, Waits
  <2>2. ProcType'
    BY <1>7, RefreshEndsType DEF RefreshNotFound
  <2>3. told' \in [Grant -> Said] /\ noted' \in [Grant -> Said]
    BY <1>7, <2>1, NewerType DEF RefreshNotFound, ManagerType
  <2>4. stmts' \in [Grant -> Statement]
    BY <1>7 DEF RefreshNotFound, ManagerType, Statement, NoStmt, Ages
  <2> QED
    BY <1>7, <2>1, <2>2, <2>3, <2>4 DEF RefreshNotFound, MailType, ManagerType, VaultType
<1>8. CASE RefreshForbidden(p)
  <2>1. call[p].reply.body \in Policy
    BY <1>8 DEF RefreshForbidden, ProcType, CallState, Message
  <2>2. ProcType'
    BY <1>8, RefreshEndsType DEF RefreshForbidden
  <2>3. told' \in [Grant -> Said] /\ noted' \in [Grant -> Said]
    BY <1>8, <2>1, NewerType DEF RefreshForbidden, Tell, Note, ManagerType
  <2>4. stmts' \in [Grant -> Statement]
    BY <1>8 DEF RefreshForbidden, Statement, NoStmt, Ages
  <2> QED
    BY <1>8, <2>2, <2>3, <2>4 DEF RefreshForbidden, MailType, ManagerType, VaultType
<1>9. CASE RefreshRefused(p)
  <2>1. ProcType'
    BY <1>9, RefreshEndsType DEF RefreshRefused
  <2>2. acc' \in Nat
    BY <1>9 DEF RefreshRefused, CompareAndSetAccess
  <2> QED
    BY <1>9, <2>1, <2>2 DEF RefreshRefused, MailType, ManagerType, VaultType
<1>10. CASE Show(p)
  BY <1>10, LeashAssumption DEF Show, MailType, ManagerType, VaultType, ProcType, Waits, Proc
<1>11. CASE CheckRefresh(p)
  <2>1. arg[p] \in Grant
    BY <1>11 DEF CheckRefresh, ProcType, Waits, Proc
  <2>2. reqs' \subseteq Request /\ ProcType'
    BY <1>11, <2>1, SendStatusType DEF CheckRefresh, ProcType
  <2> QED
    BY <1>11, <2>2 DEF CheckRefresh, MailType, ManagerType, VaultType
<1>12. CASE Return(p)
  BY <1>12, LeashAssumption DEF Return, MailType, ManagerType, VaultType, ProcType, Waits, Proc
<1> QED
  BY <1>1, <1>2, <1>3, <1>4, <1>5, <1>6, <1>7, <1>8, <1>9, <1>10, <1>11, <1>12 DEF ProcStep

LEMMA TypeStep == TypeOK /\ OneList /\ [Next]_vars => TypeOK'
<1> SUFFICES ASSUME TypeOK, OneList, [Next]_vars PROVE TypeOK'
  OBVIOUS
<1> USE DEF TypeOK, env, net, conn, core, procs
<1>1. CASE VaultNext
  BY <1>1, VaultTypeStep
<1>2. CASE Deliver
  BY <1>2, DeliverType
<1>3. ASSUME NEW p \in Proc, ProcStep(p) PROVE TypeOK'
  BY <1>3, ProcStepType
<1>4. ASSUME NEW p \in Proc, ListTimesOut(p) PROVE TypeOK'
  <2>1. ProcType'
    BY <1>4, EndListType DEF ListTimesOut
  <2> QED
    BY <1>4, <2>1 DEF ListTimesOut, Fault, MailType, ManagerType, VaultType
<1>5. ASSUME NEW p \in Proc, RefreshTimesOut(p) PROVE TypeOK'
  <2>1. ProcType'
    BY <1>5, RefreshEndsType DEF RefreshTimesOut
  <2> QED
    BY <1>5, <2>1 DEF RefreshTimesOut, Fault, MailType, ManagerType, VaultType
<1>6. ASSUME NEW p \in Presenter, NEW g \in Grant, Present(p, g) PROVE TypeOK'
  BY <1>6, LeashAssumption DEF Present, MailType, ManagerType, VaultType, ProcType, Waits, Proc
<1>7. CASE LoopNext
  <2>1. CASE LoopStep
    BY <1>7, <2>1, LeashAssumption
       DEF LoopStep, MailType, ManagerType, VaultType, ProcType, Waits, Proc
  <2>2. CASE LoopCollect
    <3>1. todo' \subseteq Grant
      BY <2>2 DEF LoopCollect, DueGrants
    <3> QED
      BY <2>2, <3>1, LeashAssumption
         DEF LoopCollect, MailType, ManagerType, VaultType, ProcType, Waits, Proc
  <2>3. CASE LoopRefresh
    <3>1. PICK g \in todo : SendStatus(Loop, g) /\ todo' = todo \ {g}
      BY <2>3 DEF LoopRefresh
    <3>2. g \in Grant /\ todo' \subseteq Grant /\ Loop \in Proc
      BY <3>1 DEF ProcType, Proc
    <3>3. reqs' \subseteq Request /\ ProcType'
      BY <2>3, <3>1, <3>2, SendStatusType DEF LoopRefresh
    <3> QED
      BY <2>3, <3>3 DEF LoopRefresh, MailType, ManagerType, VaultType
  <2>4. CASE LoopRests
    BY <2>4, LeashAssumption DEF LoopRests, MailType, ManagerType, VaultType, ProcType, Waits, Proc
  <2> QED
    BY <1>7, <2>1, <2>2, <2>3, <2>4 DEF LoopNext
<1>8. CASE TimePasses
  <2>1. stmts' \in [Grant -> Statement]
    BY <1>8 DEF TimePasses, ManagerType, Statement, Ages
  <2> QED
    BY <1>8, <2>1 DEF TimePasses, MailType, ManagerType, VaultType, ProcType
<1>9. CASE OnStatus
  <2>1. faults' \in Nat
    BY <1>9 DEF OnStatus, Fault
  <2>2. UNCHANGED <<vault, net, conn, core, procs, saved>> /\ held' = FALSE
    BY <1>9 DEF OnStatus
  <2> QED
    BY <2>1, <2>2 DEF MailType, ManagerType, VaultType, ProcType
<1>10. CASE Restart
  <2>1. ProcType'
    BY <1>10, LeashAssumption DEF Restart, ProcType, NoCall, CallState, Waits, Proc
  <2>2. ManagerType'
    BY <1>10 DEF Restart, ManagerType, NoStmt, Statement, Ages
  <2> QED
    BY <1>10, <2>1, <2>2 DEF Restart, Fault, MailType, VaultType
<1>11. CASE UNCHANGED vars
  BY <1>11 DEF vars, MailType, ManagerType, VaultType, ProcType
<1> QED
  BY <1>1, <1>2, <1>3, <1>4, <1>5, <1>6, <1>7, <1>8, <1>9, <1>10, <1>11 DEF Next

-----------------------------------------------------------------------------
(* At most one list may be applied in full: the one in flight. *)

LEMMA OneListStep == TypeOK /\ OneList /\ [Next]_vars => OneList'
<1> SUFFICES ASSUME TypeOK, OneList, [Next]_vars PROVE OneList'
  OBVIOUS
<1> USE DEF env, net, conn, core, procs
<1>1. ASSUME UNCHANGED <<lists, fresh, list>>,
             \A p \in Proc : pc'[p] = "listing" => pc[p] = "listing"
      PROVE  OneList'
  BY <1>1 DEF OneList
<1>2. ASSUME fresh' = {}, UNCHANGED <<lists, list>>,
             \A p \in Proc : pc'[p] = "listing" => pc[p] = "listing"
      PROVE  OneList'
  BY <1>2 DEF OneList
<1>3. ASSUME NEW p \in Proc, NEW try \in Nat, SendList(p, try),
             \/ list = None /\ pc' = [pc EXCEPT ![p] = "listing"]
             \/ list.reply = "ok" /\ pc[p] = "listing" /\ UNCHANGED pc
      PROVE  OneList'
  <2>1. PICK i \in ReqId :
          /\ lists' = lists \cup {i} /\ fresh' = fresh \cup {i}
          /\ list' = [id |-> i, by |-> p, try |-> try, sentWith |-> acc, reply |-> None]
    BY <1>3 DEF SendList
  <2>2. lists = {} /\ fresh = {}
    BY <1>3, LeashAssumption DEF OneList
  <2>3. \A q \in Proc : pc'[q] = "listing" => q = p
    BY <1>3 DEF OneList, TypeOK, ProcType
  <2> QED
    <3>1. list' \in ListState
      BY <2>1 DEF ListState, TypeOK, Codes
    <3>2. list' # None /\ list'.reply # "ok" /\ list'.id = i /\ list'.by = p
      BY <2>1, <3>1, NoneAssumption DEF Codes
    <3> QED
      BY <2>1, <2>2, <2>3, <3>2 DEF OneList
<1>4. ASSUME NEW p \in Proc, pc[p] = "listing", NEW next \in {"idle", "step", "check"},
             EndList(p, next), lists' \subseteq lists \ {list.id}, fresh' \subseteq lists'
      PROVE  OneList'
  <2>1. lists' = {} /\ fresh' = {}
    BY <1>4 DEF OneList
  <2>2. \A q \in Proc : pc'[q] # "listing"
    BY <1>4 DEF OneList, EndList, TypeOK, ProcType
  <2> QED
    BY <1>4, <2>1, <2>2 DEF OneList, EndList
<1>5. CASE VaultNext
  BY <1>1, <1>5 DEF VaultNext, VaultChange, VaultGrantSession, VaultEndSession, SessionExpires,
                    VaultHold, VaultRelease, VaultAnswer
<1>6. ASSUME NEW m \in inbox, ApplyAccess(m) PROVE OneList'
  BY <1>1, <1>6 DEF ApplyAccess
<1>7. ASSUME NEW m \in inbox, Apply(m) PROVE OneList'
  <2>1. UNCHANGED pc /\ Dispatch(m) /\ m \in Message
    BY <1>7 DEF Apply, TypeOK, MailType
  <2>2. lists' \subseteq lists /\ fresh' \subseteq lists'
    BY <1>7 DEF OneList, Apply, ApplyUpdated, ApplyListAnswer, ApplySession
  <2>3. m.type = "list" /\ m.code = "ok" => m.re \notin lists'
    BY <1>7 DEF Apply, ApplyUpdated, ApplyListAnswer, ApplySession
  <2>4. list # None => list' # None /\ list'.id = list.id /\ list'.by = list.by
    <3>1. list # None => list' \in ListState /\ list'.id = list.id /\ list'.by = list.by
      BY <2>1 DEF Dispatch, TypeOK, ProcType, ListState, Message
    <3> QED
      BY <3>1, NoneAssumption
  <2>5. list # None /\ list'.reply = "ok" =>
          list.reply = "ok" \/ (m.type = "list" /\ m.code = "ok" /\ m.re = list.id)
    BY <2>1 DEF Dispatch, TypeOK, ProcType, ListState
  <2>6. list = None => list' = None
    BY <2>1 DEF Dispatch
  <2> QED
    BY <2>1, <2>2, <2>3, <2>4, <2>5, <2>6 DEF OneList
<1>8. ASSUME NEW p \in Proc, ProcStep(p) PROVE OneList'
  <2>1. CASE ListBegin(p)
    BY <1>3, <2>1 DEF ListBegin
  <2>2. CASE ListAnswered(p)
    <3>1. list # None /\ list.reply = "ok" /\ list.try + 1 \in Nat
      BY <2>2 DEF ListAnswered, OneList, TypeOK, ProcType, ListState
    <3>2. CASE needList /\ list.try < ListTries
      BY <1>3, <2>2, <3>1, <3>2 DEF ListAnswered
    <3>3. CASE ~(needList /\ list.try < ListTries)
      <4>1. lists' \subseteq lists \ {list.id} /\ fresh' \subseteq lists'
        BY <2>2, <3>1, <3>3 DEF ListAnswered, OneList
      <4> QED
        BY <1>4, <2>2, <3>3, <4>1 DEF ListAnswered, Listed
    <3> QED
      BY <3>2, <3>3
  <2>3. CASE ListRefused(p)
    BY <1>4, <2>3 DEF ListRefused, OneList
  <2>4. CASE ListAwait(p) \/ ListWoken(p) \/ Show(p) \/ Return(p)
    BY <1>1, <2>4 DEF ListAwait, ListWoken, Listed, Show, Return, TypeOK, ProcType
  <2>5. CASE Refreshed(p) \/ RefreshRefused(p)
    BY <1>1, <2>5 DEF Refreshed, RefreshRefused, RefreshEnds, TypeOK, ProcType
  <2>6. CASE RefreshNotFound(p) \/ RefreshForbidden(p)
    BY <1>2, <2>6 DEF RefreshNotFound, RefreshForbidden, RefreshEnds, TypeOK, ProcType
  <2>7. CASE CheckRefresh(p)
    BY <1>1, <2>7 DEF CheckRefresh, SendStatus, TypeOK, ProcType
  <2> QED
    BY <1>8, <2>1, <2>2, <2>3, <2>4, <2>5, <2>6, <2>7 DEF ProcStep
<1>9. ASSUME NEW p \in Proc, ListTimesOut(p) PROVE OneList'
  BY <1>4, <1>9 DEF ListTimesOut, OneList
<1>10. ASSUME NEW p \in Proc, RefreshTimesOut(p) PROVE OneList'
  BY <1>1, <1>10 DEF RefreshTimesOut, RefreshEnds, TypeOK, ProcType
<1>11. ASSUME NEW p \in Presenter, NEW g \in Grant, Present(p, g) PROVE OneList'
  BY <1>1, <1>11 DEF Present, TypeOK, ProcType
<1>12. CASE LoopNext
  BY <1>1, <1>12 DEF LoopNext, LoopStep, LoopCollect, LoopRefresh, LoopRests, SendStatus,
                     TypeOK, ProcType
<1>13. CASE TimePasses \/ OnStatus \/ UNCHANGED vars
  BY <1>1, <1>13 DEF TimePasses, OnStatus, vars
<1>14. CASE Restart
  BY <1>14 DEF Restart, OneList
<1> QED
  BY <1>5, <1>6, <1>7, <1>8, <1>9, <1>10, <1>11, <1>12, <1>13, <1>14 DEF Next, Deliver

-----------------------------------------------------------------------------
(* Whatever may be applied in full is no older than anything noted. *)

LEMMA FreshIsNewestStep ==
  TypeOK /\ OneList /\ FreshIsNewest /\ [Next]_vars => FreshIsNewest'
<1> SUFFICES ASSUME TypeOK, OneList, FreshIsNewest, [Next]_vars PROVE FreshIsNewest'
  OBVIOUS
<1> USE DEF env, net, conn, core, procs
<1>0. /\ \A g \in Grant : noted[g].epoch \in Nat
      /\ \A m \in inbox : m \in Message /\ m.body \in Policy /\ m.body.epoch \in Nat
      /\ vault.epoch \in Nat
  BY DEF TypeOK, VaultType, MailType, ManagerType, Message, Policy, Said
<1>1. ASSUME UNCHANGED <<noted, inbox, call, vault>>, fresh' \subseteq fresh PROVE FreshIsNewest'
  BY <1>1 DEF FreshIsNewest
<1>2. ASSUME NEW p \in Proc, NEW try, SendList(p, try), UNCHANGED <<noted, inbox, call, vault>>
      PROVE  FreshIsNewest'
  BY <1>2 DEF FreshIsNewest, SendList, New, Unused
<1>3. ASSUME UNCHANGED <<noted, inbox, vault>>, fresh' \subseteq fresh, NEW p \in Proc, NEW c,
             c.reply = None, call' = [call EXCEPT ![p] = c]
      PROVE  FreshIsNewest'
  BY <1>3 DEF FreshIsNewest, TypeOK, ProcType
<1>4. CASE VaultChange
  <2>1. vault'.epoch = vault.epoch + 1
    BY <1>4, VaultChangeFacts
  <2>2. \A m \in inbox' : m \in inbox \/ (m.type = "updated" /\ m.body.epoch = vault.epoch + 1)
    <3>1. \E b : b.epoch = vault.epoch + 1
                 /\ inbox' \subseteq inbox \cup {[Event("updated", 0) EXCEPT !.body = b]}
      BY <1>4, VaultChangeFacts
    <3>2. ASSUME NEW b
          PROVE  /\ [Event("updated", 0) EXCEPT !.body = b].type = "updated"
                 /\ [Event("updated", 0) EXCEPT !.body = b].body = b
      BY DEF Event
    <3> QED
      BY <3>1, <3>2
  <2>3. UNCHANGED <<noted, fresh, call>>
    BY <1>4 DEF VaultChange
  <2>4. \A n \in Nat : n <= vault.epoch => n <= vault'.epoch
    BY <1>0, <2>1
  <2>5. \A m \in inbox' : m.body.epoch <= vault'.epoch
    BY <1>0, <2>1, <2>2, <2>4 DEF FreshIsNewest
  <2>6. \A p \in Proc : call'[p].reply # None => call'[p].reply.body.epoch <= vault'.epoch
    BY <2>3, <2>4 DEF FreshIsNewest, TypeOK, ProcType, CallState, Message, Policy
  <2> QED
    BY <1>0, <2>2, <2>3, <2>4, <2>5, <2>6 DEF FreshIsNewest
<1>5. ASSUME NEW type \in {"granted", "ended"}, NEW s, inbox' = inbox \cup {Event(type, s)},
             vault'.epoch = vault.epoch, UNCHANGED <<noted, fresh, call>>
      PROVE  FreshIsNewest'
  BY <1>0, <1>5 DEF FreshIsNewest, Event, policy
<1>6. CASE VaultGrantSession \/ VaultEndSession
  <2>1. vault'.epoch = vault.epoch
    BY <1>6 DEF VaultGrantSession, VaultEndSession, TypeOK, VaultType
  <2> QED
    BY <1>5, <1>6, <2>1 DEF VaultGrantSession, VaultEndSession
<1>7. CASE SessionExpires \/ VaultHold \/ VaultRelease
  <2>1. vault'.epoch = vault.epoch
    BY <1>7 DEF SessionExpires, VaultHold, VaultRelease, TypeOK, VaultType
  <2> QED
    BY <1>7, <2>1 DEF SessionExpires, VaultHold, VaultRelease, FreshIsNewest
<1>8. ASSUME NEW r \in reqs, VaultAnswer(r) PROVE FreshIsNewest'
  <2>1. \A m \in inbox' : m \in inbox \/ m.body.epoch = vault.epoch
    BY <1>8 DEF VaultAnswer, policy
  <2> QED
    BY <1>0, <1>8, <2>1 DEF VaultAnswer, FreshIsNewest
<1>9. ASSUME NEW m \in inbox, ApplyAccess(m) PROVE FreshIsNewest'
  BY <1>1, <1>9 DEF ApplyAccess
<1>10. ASSUME NEW m \in inbox, Apply(m) PROVE FreshIsNewest'
  <2>1. \A p \in Proc : call'[p].reply # None =>
          call'[p].reply = call[p].reply \/ call'[p].reply = m
    BY <1>10 DEF Apply, Dispatch, TypeOK, ProcType, CallState
  <2>2. inbox' \subseteq inbox /\ UNCHANGED vault
    BY <1>10 DEF Apply, SavedAndAcked
  <2>3. CASE UNCHANGED noted /\ fresh' \subseteq fresh
    BY <2>1, <2>2, <2>3 DEF FreshIsNewest
  <2>4. CASE fresh' = {} /\ Note(m.body)
    <3>1. \A g \in Grant : noted'[g].epoch <= vault.epoch
      BY <1>0, <2>4 DEF Note, Newer, FreshIsNewest
    <3> QED
      BY <2>1, <2>2, <2>4, <3>1 DEF FreshIsNewest
  <2>5. ASSUME ApplyListAnswer(m) PROVE fresh' = {} \/ (UNCHANGED noted /\ fresh' \subseteq fresh)
    BY <2>5 DEF ApplyListAnswer, ApplyBad, OneList
  <2>6. ASSUME ApplyListAnswer(m) PROVE Note(m.body) \/ UNCHANGED noted
    BY <2>6 DEF ApplyListAnswer, ApplyBad
  <2>7. ASSUME ~ApplyListAnswer(m)
        PROVE  (UNCHANGED noted /\ fresh' \subseteq fresh) \/ (fresh' = {} /\ Note(m.body))
    BY <1>10, <2>7 DEF Apply, ApplyUpdated, ApplyBad, ApplySession
  <2> QED
    BY <2>3, <2>4, <2>5, <2>6, <2>7
<1>11. ASSUME NEW p \in Proc, ProcStep(p) PROVE FreshIsNewest'
  <2>1. CASE ListBegin(p)
    BY <1>2, <2>1 DEF ListBegin
  <2>2. CASE ListAnswered(p)
    BY <1>1, <1>2, <2>2 DEF ListAnswered
  <2>3. CASE ListRefused(p) \/ ListAwait(p) \/ ListWoken(p) \/ Show(p) \/ Return(p)
    BY <1>1, <2>3 DEF ListRefused, ListAwait, ListWoken, Show, Return
  <2>4. CASE Refreshed(p) \/ RefreshRefused(p)
    BY <1>3, <2>4 DEF Refreshed, RefreshRefused, RefreshEnds, NoCall
  <2>5. CASE RefreshNotFound(p) \/ RefreshForbidden(p)
    <3>1. \A g \in Grant : noted'[g] = noted[g] \/ noted'[g] = Newer(noted[g], call[p].reply.body, g)
      BY <2>5 DEF RefreshNotFound, RefreshForbidden, Note, TypeOK, ManagerType
    <3>2. call[p].reply.body.epoch <= vault.epoch
      BY <2>5 DEF RefreshNotFound, RefreshForbidden, FreshIsNewest
    <3>3. \A g \in Grant : noted'[g].epoch <= vault.epoch
      <4> SUFFICES ASSUME NEW g \in Grant PROVE noted'[g].epoch <= vault.epoch
        OBVIOUS
      <4>1. noted[g].epoch <= vault.epoch
        BY DEF FreshIsNewest
      <4>2. Newer(noted[g], call[p].reply.body, g).epoch <= vault.epoch
        BY <3>2, <4>1 DEF Newer
      <4> QED
        BY <3>1, <4>1, <4>2
    <3>4. \A q \in Proc : call'[q].reply # None => call'[q] = call[q]
      BY <2>5 DEF RefreshNotFound, RefreshForbidden, RefreshEnds, NoCall, TypeOK, ProcType
    <3> QED
      BY <2>5, <3>3, <3>4 DEF RefreshNotFound, RefreshForbidden, FreshIsNewest
  <2>6. CASE CheckRefresh(p)
    BY <1>3, <2>6 DEF CheckRefresh, SendStatus
  <2> QED
    BY <1>11, <2>1, <2>2, <2>3, <2>4, <2>5, <2>6 DEF ProcStep
<1>12. ASSUME NEW p \in Proc, ListTimesOut(p) PROVE FreshIsNewest'
  BY <1>1, <1>12 DEF ListTimesOut
<1>13. ASSUME NEW p \in Proc, RefreshTimesOut(p) PROVE FreshIsNewest'
  BY <1>3, <1>13 DEF RefreshTimesOut, RefreshEnds, NoCall
<1>14. ASSUME NEW p \in Presenter, NEW g \in Grant, Present(p, g) PROVE FreshIsNewest'
  BY <1>1, <1>14 DEF Present
<1>15. CASE LoopNext
  <2>1. CASE LoopRefresh
    BY <1>3, <2>1 DEF LoopRefresh, SendStatus, Proc
  <2> QED
    BY <1>1, <1>15, <2>1 DEF LoopNext, LoopStep, LoopCollect, LoopRests
<1>16. CASE TimePasses \/ OnStatus \/ UNCHANGED vars
  BY <1>1, <1>16 DEF TimePasses, OnStatus, vars
<1>17. CASE Restart
  BY <1>17 DEF Restart, FreshIsNewest, NoCall
<1> QED
  BY <1>4, <1>6, <1>7, <1>8, <1>9, <1>10, <1>11, <1>12, <1>13, <1>14, <1>15, <1>16, <1>17
     DEF Next, VaultNext, Deliver

-----------------------------------------------------------------------------
(* What is held is in force in the newest noted of it. *)

LEMMA NarrowInForce ==
  ASSUME TypeOK, HeldInForce, NEW body \in Policy, ApplyNarrow(body), Note(body) \/ UNCHANGED noted
  PROVE  HeldInForce'
<1> SUFFICES ASSUME listed', ~suspended', NEW g \in Grant, grants'[g] # 0, g \notin dead'
             PROVE  noted'[g].ver = grants'[g] /\ ~noted'[g].suspended
  BY DEF HeldInForce, Says
<1>1. listed /\ ~suspended /\ ~body.suspended /\ g \notin dead
  BY DEF ApplyNarrow
<1>2. grants'[g] = grants[g] /\ grants[g] # 0 /\ body.grants[g] = grants[g]
  BY DEF ApplyNarrow, Narrowed
<1>3. noted[g].ver = grants[g] /\ ~noted[g].suspended
  BY <1>1, <1>2 DEF HeldInForce, Says
<1> QED
  BY <1>1, <1>2, <1>3 DEF Note, Newer

\* A list that is no older than what was noted becomes what is noted.
LEMMA ListIsNoted ==
  ASSUME TypeOK, NEW body \in Policy, ApplyList(body), Note(body),
         \A g \in Grant : noted[g].epoch <= body.epoch,
         NEW g \in Grant, grants'[g] # 0
  PROVE  noted'[g].ver = grants'[g] /\ noted'[g].suspended = suspended'
<1>1. noted'[g] = Newer(noted[g], body, g)
  BY DEF Note
<1>2. ~(body.epoch < noted[g].epoch)
  BY DEF TypeOK, ManagerType, Said, Policy
<1>3. noted'[g].ver = body.grants[g] /\ noted'[g].suspended = body.suspended
  BY <1>1, <1>2 DEF Newer
<1> QED
  BY <1>3 DEF ApplyList

\* The answer to a list in `fresh` is such a list.
LEMMA FreshAnswer ==
  ASSUME TypeOK, FreshIsNewest, NEW m \in inbox, m.type = "list", m.re \in fresh
  PROVE  m.body \in Policy /\ \A g \in Grant : noted[g].epoch <= m.body.epoch
  BY DEF FreshIsNewest, TypeOK, MailType, Message

LEMMA HeldInForceStep ==
  TypeOK /\ FreshIsNewest /\ HeldInForce /\ [Next]_vars => HeldInForce'
<1> SUFFICES ASSUME TypeOK, FreshIsNewest, HeldInForce, [Next]_vars PROVE HeldInForce'
  OBVIOUS
<1> USE DEF env, net, conn, core, procs
<1>1. ASSUME UNCHANGED <<grants, suspended, dead, noted>>, listed' => listed PROVE HeldInForce'
  BY <1>1 DEF HeldInForce, Says
<1>2. CASE VaultNext
  BY <1>1, <1>2 DEF VaultNext, VaultChange, VaultGrantSession, VaultEndSession, SessionExpires,
                    VaultHold, VaultRelease, VaultAnswer
<1>3. ASSUME NEW m \in inbox, ApplyAccess(m) PROVE HeldInForce'
  BY <1>1, <1>3 DEF ApplyAccess
<1>4. ASSUME NEW m \in inbox, Apply(m) PROVE HeldInForce'
  <2> m.body \in Policy
    BY DEF TypeOK, MailType, Message
  <2>1. CASE ApplyUpdated(m)
    BY <1>1, <2>1, NarrowInForce DEF ApplyUpdated, ApplyBad
  <2>2. CASE ApplyListAnswer(m)
    <3>1. CASE ~m.bad /\ m.re \in fresh
      BY <2>2, <3>1, FreshAnswer, ListIsNoted DEF ApplyListAnswer, HeldInForce, Says
    <3>2. CASE ~m.bad /\ m.re \notin fresh
      <4>1. ApplyNarrow(m.body) /\ (Note(m.body) \/ UNCHANGED noted)
        BY <2>2, <3>2 DEF ApplyListAnswer
      <4> QED
        BY <4>1, NarrowInForce
    <3> QED
      BY <1>1, <2>2, <3>1, <3>2 DEF ApplyListAnswer, ApplyBad
  <2>3. CASE ApplySession(m)
    BY <1>1, <2>3 DEF ApplySession
  <2> QED
    BY <1>1, <1>4, <2>1, <2>2, <2>3 DEF Apply
<1>5. ASSUME NEW p \in Proc, ProcStep(p) PROVE HeldInForce'
  <2>1. CASE RefreshNotFound(p)
    BY <2>1 DEF RefreshNotFound, HeldInForce, Says, TypeOK, ManagerType
  <2>2. CASE RefreshForbidden(p)
    BY <2>2 DEF RefreshForbidden, HeldInForce
  <2>3. CASE ListBegin(p) \/ ListAwait(p) \/ ListWoken(p) \/ ListAnswered(p) \/ ListRefused(p)
    BY <1>1, <2>3 DEF ListBegin, ListAwait, ListWoken, ListAnswered, ListRefused
  <2>4. CASE Refreshed(p) \/ RefreshRefused(p) \/ Show(p) \/ CheckRefresh(p) \/ Return(p)
    BY <1>1, <2>4 DEF Refreshed, RefreshRefused, Show, CheckRefresh, Return
  <2> QED
    BY <1>5, <2>1, <2>2, <2>3, <2>4 DEF ProcStep
<1>6. ASSUME NEW p \in Proc, ListTimesOut(p) \/ RefreshTimesOut(p) PROVE HeldInForce'
  BY <1>1, <1>6 DEF ListTimesOut, RefreshTimesOut
<1>7. ASSUME NEW p \in Presenter, NEW g \in Grant, Present(p, g) PROVE HeldInForce'
  BY <1>1, <1>7 DEF Present
<1>8. CASE LoopNext
  BY <1>1, <1>8 DEF LoopNext, LoopStep, LoopCollect, LoopRefresh, LoopRests
<1>9. CASE TimePasses \/ OnStatus \/ UNCHANGED vars
  BY <1>1, <1>9 DEF TimePasses, OnStatus, vars
<1>10. CASE Restart
  BY <1>10 DEF Restart, HeldInForce
<1> QED
  BY <1>2, <1>3, <1>4, <1>5, <1>6, <1>7, <1>8, <1>9, <1>10 DEF Next, Deliver

-----------------------------------------------------------------------------
(* What was overlooked is asked for, and the answer is no older. *)

LEMMA AnswerIsNewsStep ==
  TypeOK /\ OneList /\ FreshIsNewest /\ AnswerIsNews /\ [Next]_vars => AnswerIsNews'
<1> SUFFICES ASSUME TypeOK, OneList, FreshIsNewest, AnswerIsNews, [Next]_vars PROVE AnswerIsNews'
  OBVIOUS
<1> USE DEF env, net, conn, core, procs
<1>0. /\ \A g \in Grant : told[g].epoch \in Nat
      /\ \A m \in inbox : m \in Message /\ m.body \in Policy /\ m.body.epoch \in Nat
      /\ vault.epoch \in Nat
  BY DEF TypeOK, VaultType, MailType, ManagerType, Message, Policy, Said
<1>1. ASSUME UNCHANGED <<told, vault>>, inbox' \subseteq inbox, lists' \subseteq lists, needList => needList'
      PROVE  AnswerIsNews'
  BY <1>1 DEF AnswerIsNews
<1>2. ASSUME NEW body, \A g \in Grant : told'[g] \in {told[g], Newer(told[g], body, g)},
             body.epoch <= vault.epoch, UNCHANGED vault, needList' \/ lists' = {}
      PROVE  AnswerIsNews'
  <2>1. \A g \in Grant : told'[g].epoch <= vault.epoch
    BY <1>2 DEF AnswerIsNews, Newer
  <2> QED
    BY <1>2, <2>1 DEF AnswerIsNews
<1>3. ASSUME UNCHANGED <<told, lists, needList>>, vault'.epoch \in Nat, vault.epoch <= vault'.epoch,
             \A m \in inbox' : m \in inbox \/ m.type # "list" \/ m.body.epoch = vault.epoch
      PROVE  AnswerIsNews'
  <2>1. \A g \in Grant : told[g].epoch <= vault'.epoch
    BY <1>0, <1>3 DEF AnswerIsNews
  <2> QED
    BY <1>0, <1>3, <2>1 DEF AnswerIsNews
<1>4. ASSUME NEW p \in Proc, NEW try, SendList(p, try), UNCHANGED <<told, inbox, vault>>,
             list = None \/ list.reply = "ok"
      PROVE  AnswerIsNews'
  <2>1. lists = {}
    BY <1>4 DEF OneList
  <2> QED
    BY <1>4, <2>1 DEF AnswerIsNews, SendList, New, Unused
<1>5. CASE VaultChange
  <2>1. vault'.epoch = vault.epoch + 1
    BY <1>5, VaultChangeFacts
  <2>2. \A m \in inbox' : m \in inbox \/ m.type = "updated"
    <3>1. \E b : inbox' \subseteq inbox \cup {[Event("updated", 0) EXCEPT !.body = b]}
      BY <1>5, VaultChangeFacts
    <3>2. ASSUME NEW b PROVE [Event("updated", 0) EXCEPT !.body = b].type = "updated"
      BY DEF Event
    <3> QED
      BY <3>1, <3>2
  <2> QED
    BY <1>0, <1>3, <1>5, <2>1, <2>2 DEF VaultChange
<1>6. CASE VaultGrantSession \/ VaultEndSession
  <2>1. vault'.epoch = vault.epoch
    BY <1>6 DEF VaultGrantSession, VaultEndSession, TypeOK, VaultType
  <2>2. \A m \in inbox' : m \in inbox \/ m.type # "list"
    BY <1>6 DEF VaultGrantSession, VaultEndSession, Event
  <2> QED
    BY <1>0, <1>3, <1>6, <2>1, <2>2 DEF VaultGrantSession, VaultEndSession
<1>7. CASE SessionExpires \/ VaultHold \/ VaultRelease
  <2>1. vault'.epoch = vault.epoch
    BY <1>7 DEF SessionExpires, VaultHold, VaultRelease, TypeOK, VaultType
  <2> QED
    BY <1>0, <1>3, <1>7, <2>1 DEF SessionExpires, VaultHold, VaultRelease
<1>8. ASSUME NEW r \in reqs, VaultAnswer(r) PROVE AnswerIsNews'
  <2>1. \A m \in inbox' : m \in inbox \/ m.body.epoch = vault.epoch
    BY <1>8 DEF VaultAnswer, policy
  <2> QED
    BY <1>0, <1>3, <1>8, <2>1 DEF VaultAnswer
<1>9. ASSUME NEW m \in inbox, ApplyAccess(m) PROVE AnswerIsNews'
  BY <1>1, <1>9 DEF ApplyAccess
<1>10. ASSUME NEW m \in inbox, Apply(m) PROVE AnswerIsNews'
  <2>1. inbox' \subseteq inbox /\ UNCHANGED vault
    BY <1>10 DEF Apply, SavedAndAcked
  <2>2. m.body.epoch <= vault.epoch
    BY DEF FreshIsNewest
  <2>3. CASE ApplyUpdated(m) \/ ApplyListAnswer(m)
    <3>1. \A g \in Grant : told'[g] \in {told[g], Newer(told[g], m.body, g)}
      BY <2>3 DEF ApplyUpdated, ApplyListAnswer, ApplyBad, Tell
    <3>2. needList' \/ lists' = {}
      BY <2>3 DEF ApplyUpdated, ApplyListAnswer, ApplyBad, ApplyNarrow, OneList
    <3> QED
      BY <1>2, <2>1, <2>2, <3>1, <3>2
  <2>4. CASE ApplySession(m) \/ UNCHANGED core
    BY <1>1, <2>1, <2>4 DEF ApplySession
  <2> QED
    BY <1>10, <2>3, <2>4 DEF Apply
<1>11. ASSUME NEW p \in Proc, ProcStep(p) PROVE AnswerIsNews'
  <2>1. CASE ListBegin(p)
    BY <1>4, <2>1 DEF ListBegin
  <2>2. CASE ListAnswered(p)
    BY <1>1, <1>4, <2>2 DEF ListAnswered
  <2>3. CASE ListRefused(p) \/ ListAwait(p) \/ ListWoken(p) \/ Show(p) \/ Return(p) \/ CheckRefresh(p)
    BY <1>1, <2>3 DEF ListRefused, ListAwait, ListWoken, Show, Return, CheckRefresh
  <2>4. CASE Refreshed(p) \/ RefreshRefused(p)
    BY <1>1, <2>4 DEF Refreshed, RefreshRefused
  <2>5. CASE RefreshNotFound(p) \/ RefreshForbidden(p)
    <3>1. \A g \in Grant : told'[g] \in {told[g], Newer(told[g], call[p].reply.body, g)}
      BY <2>5 DEF RefreshNotFound, RefreshForbidden, Tell, TypeOK, ManagerType
    <3>2. call[p].reply.body.epoch <= vault.epoch
      BY <2>5 DEF RefreshNotFound, RefreshForbidden, FreshIsNewest
    <3> QED
      BY <1>2, <2>5, <3>1, <3>2 DEF RefreshNotFound, RefreshForbidden
  <2> QED
    BY <1>11, <2>1, <2>2, <2>3, <2>4, <2>5 DEF ProcStep
<1>12. ASSUME NEW p \in Proc, ListTimesOut(p) \/ RefreshTimesOut(p) PROVE AnswerIsNews'
  BY <1>1, <1>12 DEF ListTimesOut, RefreshTimesOut
<1>13. ASSUME NEW p \in Presenter, NEW g \in Grant, Present(p, g) PROVE AnswerIsNews'
  BY <1>1, <1>13 DEF Present
<1>14. CASE LoopNext
  BY <1>1, <1>14 DEF LoopNext, LoopStep, LoopCollect, LoopRefresh, LoopRests
<1>15. CASE TimePasses \/ OnStatus \/ UNCHANGED vars
  BY <1>1, <1>15 DEF TimePasses, OnStatus, vars
<1>16. CASE Restart
  BY <1>16 DEF Restart, AnswerIsNews
<1> QED
  BY <1>5, <1>6, <1>7, <1>8, <1>9, <1>10, <1>11, <1>12, <1>13, <1>14, <1>15, <1>16
     DEF Next, VaultNext, Deliver

\* Applied in full, the answer to the list in flight settles what was overlooked.
LEMMA ListSettles ==
  ASSUME TypeOK, OneList, FreshIsNewest, AnswerIsNews, ~needList,
         NEW m \in inbox, m.type = "list", m.re \in fresh, Tell(m.body), Note(m.body)
  PROVE  told' = noted'
<1>1. /\ m.body.epoch \in Nat
      /\ \A g \in Grant : told[g].epoch \in Nat /\ noted[g].epoch \in Nat
  BY DEF TypeOK, MailType, ManagerType, Message, Policy, Said
<1>2. \A g \in Grant : told[g].epoch <= m.body.epoch
  BY DEF OneList, AnswerIsNews
<1>3. \A g \in Grant : noted[g].epoch <= m.body.epoch
  BY DEF FreshIsNewest
<1>4. \A g \in Grant : Newer(told[g], m.body, g) = Newer(noted[g], m.body, g)
  BY <1>1, <1>2, <1>3 DEF Newer
<1> QED
  BY <1>4 DEF Tell, Note

LEMMA AskedStep ==
  TypeOK /\ OneList /\ FreshIsNewest /\ AnswerIsNews /\ Asked /\ [Next]_vars => Asked'
<1> SUFFICES ASSUME TypeOK, OneList, FreshIsNewest, AnswerIsNews, Asked, [Next]_vars PROVE Asked'
  OBVIOUS
<1> USE DEF env, net, conn, core, procs
<1>1. ASSUME UNCHANGED <<told, noted, lists, list>>, listed' => listed, needList => needList'
      PROVE  Asked'
  BY <1>1 DEF Asked, Awaited
<1>2. ASSUME needList' \/ ~listed' PROVE Asked'
  BY <1>2 DEF Asked
<1>3. ASSUME NEW p \in Proc, NEW try \in Nat, SendList(p, try) PROVE Asked'
  <2>1. PICK i \in ReqId :
          /\ lists' = lists \cup {i}
          /\ list' = [id |-> i, by |-> p, try |-> try, sentWith |-> acc, reply |-> None]
    BY <1>3 DEF SendList
  <2>2. list' \in ListState
    BY <2>1 DEF ListState, TypeOK
  <2>3. list' # None
    BY <2>2, NoneAssumption
  <2> QED
    BY <2>1, <2>3 DEF Asked, Awaited
<1>4. CASE VaultNext
  BY <1>1, <1>4 DEF VaultNext, VaultChange, VaultGrantSession, VaultEndSession, SessionExpires,
                    VaultHold, VaultRelease, VaultAnswer
<1>5. ASSUME NEW m \in inbox, ApplyAccess(m) PROVE Asked'
  BY <1>1, <1>5 DEF ApplyAccess
<1>6. ASSUME NEW m \in inbox, Apply(m) PROVE Asked'
  <2>1. CASE ApplyUpdated(m)
    BY <1>2, <2>1 DEF ApplyUpdated, ApplyBad, ApplyNarrow
  <2>2. CASE ApplyListAnswer(m)
    <3>1. CASE ~m.bad /\ m.re \in fresh
      <4>1. Tell(m.body) /\ Note(m.body) /\ m.type = "list" /\ (needList => needList')
        BY <2>2, <3>1 DEF ApplyListAnswer, ApplyList
      <4> QED
        BY <1>2, <3>1, <4>1, ListSettles DEF Asked
    <3>2. CASE m.bad \/ m.re \notin fresh
      BY <1>2, <2>2, <3>2 DEF ApplyListAnswer, ApplyBad, ApplyNarrow
    <3> QED
      BY <3>1, <3>2
  <2>3. CASE ApplySession(m)
    BY <1>2, <2>3 DEF ApplySession
  <2>4. CASE UNCHANGED core
    <3>1. list # None => list' # None /\ list'.id = list.id
      <4>1. list # None => list' \in ListState /\ list'.id = list.id
        BY <1>6 DEF Apply, Dispatch, TypeOK, MailType, ProcType, ListState, Message
      <4> QED
        BY <4>1, NoneAssumption
    <3> QED
      BY <2>4, <3>1 DEF Asked, Awaited
  <2> QED
    BY <1>6, <2>1, <2>2, <2>3, <2>4 DEF Apply
<1>7. ASSUME NEW p \in Proc, ProcStep(p) PROVE Asked'
  <2>1. CASE ListBegin(p)
    BY <1>3, <2>1 DEF ListBegin
  <2>2. CASE ListAnswered(p)
    <3>1. list # None /\ list.try + 1 \in Nat
      BY <2>2 DEF ListAnswered, OneList, TypeOK, ProcType, ListState
    <3>2. CASE needList /\ list.try < ListTries
      BY <1>3, <2>2, <3>1, <3>2 DEF ListAnswered
    <3>3. CASE ~(needList /\ list.try < ListTries)
      BY <2>2, <3>1, <3>3 DEF ListAnswered, OneList, Asked, Awaited
    <3> QED
      BY <3>2, <3>3
  <2>3. CASE ListRefused(p) \/ RefreshNotFound(p) \/ RefreshForbidden(p)
    BY <1>2, <2>3 DEF ListRefused, RefreshNotFound, RefreshForbidden
  <2>4. CASE ListAwait(p) \/ ListWoken(p) \/ Show(p) \/ Return(p) \/ CheckRefresh(p)
    BY <1>1, <2>4 DEF ListAwait, ListWoken, Show, Return, CheckRefresh
  <2>5. CASE Refreshed(p) \/ RefreshRefused(p)
    BY <1>1, <2>5 DEF Refreshed, RefreshRefused, RefreshEnds
  <2> QED
    BY <1>7, <2>1, <2>2, <2>3, <2>4, <2>5 DEF ProcStep
<1>8. ASSUME NEW p \in Proc, ListTimesOut(p) \/ RefreshTimesOut(p) PROVE Asked'
  BY <1>1, <1>2, <1>8 DEF ListTimesOut, RefreshTimesOut, RefreshEnds
<1>9. ASSUME NEW p \in Presenter, NEW g \in Grant, Present(p, g) PROVE Asked'
  BY <1>1, <1>9 DEF Present
<1>10. CASE LoopNext
  BY <1>1, <1>10 DEF LoopNext, LoopStep, LoopCollect, LoopRefresh, LoopRests
<1>11. CASE TimePasses \/ OnStatus \/ UNCHANGED vars
  BY <1>1, <1>11 DEF TimePasses, OnStatus, vars
<1>12. CASE Restart
  BY <1>2, <1>12 DEF Restart
<1> QED
  BY <1>4, <1>5, <1>6, <1>7, <1>8, <1>9, <1>10, <1>11, <1>12 DEF Next, Deliver

-----------------------------------------------------------------------------
(* The statements kept are for what is held. *)

LEMMA StatementsStep ==
  TypeOK /\ StatementsMatchGrants /\ [Next]_vars => StatementsMatchGrants'
<1> SUFFICES ASSUME TypeOK, StatementsMatchGrants, [Next]_vars PROVE StatementsMatchGrants'
  OBVIOUS
<1> USE DEF env, net, conn, core, procs
<1>1. ASSUME UNCHANGED <<grants, suspended, stmts>> PROVE StatementsMatchGrants'
  BY <1>1 DEF StatementsMatchGrants
<1>2. CASE VaultNext
  BY <1>1, <1>2 DEF VaultNext, VaultChange, VaultGrantSession, VaultEndSession, SessionExpires,
                    VaultHold, VaultRelease, VaultAnswer
<1>3. ASSUME NEW m \in inbox, ApplyAccess(m) PROVE StatementsMatchGrants'
  BY <1>1, <1>3 DEF ApplyAccess
<1>4. ASSUME NEW m \in inbox, Apply(m) PROVE StatementsMatchGrants'
  <2> m.body \in Policy
    BY DEF TypeOK, MailType, Message
  <2>1. CASE ApplyNarrow(m.body)
    BY <2>1 DEF ApplyNarrow, StatementsMatchGrants, NoStmt, Narrowed, Policy, TypeOK, ManagerType
  <2>2. CASE ApplyList(m.body)
    <3>1. PICK with \in SUBSET {g \in Grant : grants'[g] # 0 /\ ~m.body.suspended} :
            stmts' = [g \in Grant |-> IF g \in with THEN [ver |-> m.body.grants[g], age |-> "usable"] ELSE NoStmt]
      BY <2>2 DEF ApplyList
    <3>2. \A g \in Grant : grants'[g] # 0 => grants'[g] = m.body.grants[g]
      BY <2>2 DEF ApplyList
    <3>3. suspended' = m.body.suspended
      BY <2>2 DEF ApplyList
    <3> QED
      BY <3>1, <3>2, <3>3 DEF StatementsMatchGrants, NoStmt
  <2> QED
    BY <1>1, <1>4, <2>1, <2>2 DEF Apply, ApplyUpdated, ApplyBad, ApplyListAnswer, ApplySession
<1>5. ASSUME NEW p \in Proc, ProcStep(p) PROVE StatementsMatchGrants'
  <2>1. CASE Refreshed(p)
    BY <1>1, <2>1 DEF Refreshed, StatementsMatchGrants, TypeOK, ManagerType
  <2>2. CASE RefreshNotFound(p)
    BY <2>2 DEF RefreshNotFound, StatementsMatchGrants, NoStmt, TypeOK, ManagerType
  <2>3. CASE RefreshForbidden(p)
    BY <2>3 DEF RefreshForbidden, StatementsMatchGrants, NoStmt
  <2>4. CASE ListBegin(p) \/ ListAwait(p) \/ ListWoken(p) \/ ListAnswered(p) \/ ListRefused(p)
    BY <1>1, <2>4 DEF ListBegin, ListAwait, ListWoken, ListAnswered, ListRefused
  <2>5. CASE RefreshRefused(p) \/ Show(p) \/ CheckRefresh(p) \/ Return(p)
    BY <1>1, <2>5 DEF RefreshRefused, Show, CheckRefresh, Return
  <2> QED
    BY <1>5, <2>1, <2>2, <2>3, <2>4, <2>5 DEF ProcStep
<1>6. ASSUME NEW p \in Proc, ListTimesOut(p) \/ RefreshTimesOut(p) PROVE StatementsMatchGrants'
  BY <1>1, <1>6 DEF ListTimesOut, RefreshTimesOut
<1>7. ASSUME NEW p \in Presenter, NEW g \in Grant, Present(p, g) PROVE StatementsMatchGrants'
  BY <1>1, <1>7 DEF Present
<1>8. CASE LoopNext
  BY <1>1, <1>8 DEF LoopNext, LoopStep, LoopCollect, LoopRefresh, LoopRests
<1>9. CASE TimePasses
  BY <1>9 DEF TimePasses, Usable, StatementsMatchGrants, TypeOK, ManagerType, Statement
<1>10. CASE OnStatus \/ UNCHANGED vars
  BY <1>1, <1>10 DEF OnStatus, vars
<1>11. CASE Restart
  BY <1>11 DEF Restart, StatementsMatchGrants, NoStmt
<1> QED
  BY <1>2, <1>3, <1>4, <1>5, <1>6, <1>7, <1>8, <1>9, <1>10, <1>11 DEF Next, Deliver

-----------------------------------------------------------------------------
(* The theorems. *)

\* The inductive invariant holds in every state of Manager, whatever is sent, lost or overtaken.
THEOREM Invariance == Spec => []IInv
<1>1. Init => IInv
  <2> SUFFICES ASSUME Init PROVE OneList /\ FreshIsNewest /\ HeldInForce /\ AnswerIsNews /\ Asked
    BY TypeInit DEF IInv
  <2>1. OneList
    BY DEF Init, OneList
  <2>2. FreshIsNewest
    BY DEF Init, FreshIsNewest, NoCall
  <2>3. AnswerIsNews
    BY DEF Init, AnswerIsNews
  <2> QED
    BY <2>1, <2>2, <2>3 DEF Init, HeldInForce, Asked
<1>2. IInv /\ [Next]_vars => IInv'
  BY TypeStep, OneListStep, FreshIsNewestStep, HeldInForceStep, AnswerIsNewsStep, AskedStep DEF IInv
<1> QED
  BY <1>1, <1>2, PTL DEF Spec

\* Every grant that may be presented is in force in the newest that a set or a refusal said of it: in all that
\* was said, unless a list is wanted or on its way, and then but for an answer to a list given up that
\* took nothing away (presentable, applySet, gen).
THEOREM PresentingIsSafe == Spec => []PresentableInForce
<1>1. IInv => PresentableInForce
  BY DEF IInv, HeldInForce, Asked, PresentableInForce, Presentable, Says
<1> QED
  BY <1>1, Invariance, PTL

\* A statement is kept only for the version held, and never while suspended (refresh, applySet).
THEOREM StatementsAreCurrent == Spec => []StatementsMatchGrants
<1>1. Init => StatementsMatchGrants
  BY DEF Init, StatementsMatchGrants, NoStmt
<1>2. IInv /\ StatementsMatchGrants /\ [Next]_vars => StatementsMatchGrants'
  BY StatementsStep DEF IInv
<1> QED
  BY <1>1, <1>2, Invariance, PTL DEF Spec

\* Whatever is given back is given back as the newest that was noted has it: a list is applied in full only
\* when nothing noted is newer (gen, lists, applySet).
THEOREM ListsNeverGoBack == Spec => NeverGoesBack
<1> DEFINE Step == \A g \in Grant : GivenBack(g) =>
                     noted'[g].ver = grants'[g] /\ noted'[g].suspended = suspended'
<1>1. IInv /\ [Next]_vars => Step
  <2> SUFFICES ASSUME IInv, [Next]_vars, NEW g \in Grant, GivenBack(g)
               PROVE  noted'[g].ver = grants'[g] /\ noted'[g].suspended = suspended'
    OBVIOUS
  <2> USE DEF env, net, conn, core
  <2>0. TypeOK
    BY DEF IInv
  <2>1. ASSUME listed' => grants'[g] \in {0, grants[g]} /\ dead \subseteq dead' /\ (suspended => suspended')
        PROVE  FALSE
    BY <2>0, <2>1 DEF GivenBack, TypeOK, ManagerType
  <2>2. ASSUME UNCHANGED <<grants, suspended, dead>> PROVE FALSE
    BY <2>1, <2>2
  <2>3. ASSUME NEW body, ApplyNarrow(body) PROVE FALSE
    BY <2>1, <2>3 DEF ApplyNarrow, Narrowed
  <2>4. ASSUME NEW m \in inbox, Apply(m)
        PROVE  noted'[g].ver = grants'[g] /\ noted'[g].suspended = suspended'
    <3>1. CASE m.type = "list" /\ m.re \in fresh /\ ApplyList(m.body) /\ Note(m.body)
      BY <2>0, <3>1, FreshAnswer, ListIsNoted DEF IInv, GivenBack
    <3> QED
      BY <2>2, <2>3, <2>4, <3>1
         DEF Apply, ApplyUpdated, ApplyBad, ApplyListAnswer, ApplySession
  <2>5. ASSUME NEW p \in Proc, ProcStep(p) PROVE FALSE
    <3>1. CASE RefreshNotFound(p) \/ RefreshForbidden(p)
      BY <2>1, <3>1 DEF RefreshNotFound, RefreshForbidden
    <3>2. CASE ListBegin(p) \/ ListAwait(p) \/ ListWoken(p) \/ ListAnswered(p) \/ ListRefused(p)
      BY <2>2, <3>2 DEF ListBegin, ListAwait, ListWoken, ListAnswered, ListRefused
    <3>3. CASE Refreshed(p) \/ RefreshRefused(p) \/ Show(p) \/ CheckRefresh(p) \/ Return(p)
      BY <2>2, <3>3 DEF Refreshed, RefreshRefused, Show, CheckRefresh, Return
    <3> QED
      BY <2>5, <3>1, <3>2, <3>3 DEF ProcStep
  <2>6. CASE VaultNext \/ LoopNext \/ TimePasses \/ OnStatus \/ UNCHANGED vars
    BY <2>2, <2>6
       DEF VaultNext, VaultChange, VaultGrantSession, VaultEndSession, SessionExpires, VaultHold,
           VaultRelease, VaultAnswer, LoopNext, LoopStep, LoopCollect, LoopRefresh, LoopRests,
           TimePasses, OnStatus, vars
  <2>7. CASE Restart
    BY <2>1, <2>7 DEF Restart
  <2>8. ASSUME NEW p \in Proc, ListTimesOut(p) \/ RefreshTimesOut(p) PROVE FALSE
    BY <2>2, <2>8 DEF ListTimesOut, RefreshTimesOut
  <2>9. ASSUME NEW p \in Presenter, NEW h \in Grant, Present(p, h) PROVE FALSE
    BY <2>2, <2>9 DEF Present
  <2>10. ASSUME NEW m \in inbox, ApplyAccess(m) PROVE FALSE
    BY <2>2, <2>10 DEF ApplyAccess
  <2> QED
    BY <2>4, <2>5, <2>6, <2>7, <2>8, <2>9, <2>10 DEF Next, Deliver
<1>2. IInv /\ [Next]_vars => [Step]_vars
  BY <1>1
<1> QED
  BY <1>2, Invariance, PTL DEF Spec, NeverGoesBack

\* What Present returns is in force in the newest that was noted of it, with a statement for that
\* version: its last check and what it returns are one critical section (Present).
THEOREM PresentReturnsWhatIsInForce == Spec => ShownInForce
<1> DEFINE Step == \A p \in Proc : pc[p] # "shown" /\ pc'[p] = "shown" => InForce(arg[p])
<1>1. IInv /\ StatementsMatchGrants /\ [Next]_vars => Step
  <2> SUFFICES ASSUME IInv, StatementsMatchGrants, [Next]_vars,
                      NEW p \in Proc, pc[p] # "shown", pc'[p] = "shown"
               PROVE  InForce(arg[p])
    OBVIOUS
  <2> USE DEF procs
  <2>0. pc \in [Proc -> Waits \cup {"check", "again", "shown", "step", "due"}]
    BY DEF IInv, TypeOK, ProcType
  <2>1. ASSUME NEW q \in Proc, Show(q) PROVE InForce(arg[p])
    <3>1. p = q /\ Presentable(arg[p]) /\ Usable(arg[p]) /\ pc[p] \in {"check", "again"}
      BY <2>0, <2>1 DEF Show
    <3>2. arg[p] \in Grant
      BY <3>1 DEF IInv, TypeOK, ProcType, Proc, Waits
    <3>3. stmts[arg[p]].ver # 0
      BY <3>1, <3>2 DEF Usable, StatementsMatchGrants
    <3> QED
      BY <3>1, <3>2, <3>3 DEF InForce, IInv, HeldInForce, Says, Presentable, StatementsMatchGrants
  <2>2. ASSUME NEW q \in Proc, ProcStep(q) PROVE Show(q)
    <3>1. CASE ListBegin(q) \/ ListAwait(q) \/ ListWoken(q) \/ CheckRefresh(q) \/ Return(q)
      BY <2>0, <3>1 DEF ListBegin, ListAwait, ListWoken, Listed, CheckRefresh, SendStatus, Return
    <3>2. CASE ListAnswered(q) \/ ListRefused(q)
      BY <2>0, <3>2 DEF ListAnswered, ListRefused, EndList, Listed
    <3>3. CASE Refreshed(q) \/ RefreshNotFound(q) \/ RefreshForbidden(q) \/ RefreshRefused(q)
      BY <2>0, <3>3 DEF Refreshed, RefreshNotFound, RefreshForbidden, RefreshRefused, RefreshEnds
    <3> QED
      BY <2>2, <3>1, <3>2, <3>3 DEF ProcStep
  <2>3. ASSUME NEW q \in Proc, ListTimesOut(q) \/ RefreshTimesOut(q) PROVE FALSE
    BY <2>0, <2>3 DEF ListTimesOut, RefreshTimesOut, EndList, RefreshEnds
  <2>4. ASSUME NEW q \in Presenter, NEW g \in Grant, Present(q, g) PROVE FALSE
    BY <2>0, <2>4 DEF Present
  <2>5. CASE LoopNext
    BY <2>0, <2>5 DEF LoopNext, LoopStep, LoopCollect, LoopRefresh, LoopRests, SendStatus
  <2>6. CASE VaultNext \/ Deliver \/ TimePasses \/ OnStatus \/ UNCHANGED vars
    BY <2>0, <2>6
       DEF VaultNext, VaultChange, VaultGrantSession, VaultEndSession, SessionExpires, VaultHold,
           VaultRelease, VaultAnswer, Deliver, ApplyAccess, Apply, TimePasses, OnStatus, vars
  <2>7. CASE Restart
    BY <2>7 DEF Restart
  <2> QED
    BY <2>1, <2>2, <2>3, <2>4, <2>5, <2>6, <2>7 DEF Next
<1>2. IInv /\ StatementsMatchGrants /\ [Next]_vars => [Step]_vars
  BY <1>1
<1> QED
  BY <1>2, Invariance, StatementsAreCurrent, PTL DEF Spec, ShownInForce
=============================================================================
