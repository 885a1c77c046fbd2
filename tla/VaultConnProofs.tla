--------------------------- MODULE VaultConnProofs ---------------------------
(***************************************************************************)
(* Proofs about VaultConn: the inductive invariant of the mailbox, that no *)
(* message is lost, that Conn keeps what DurableMailbox promises, and that *)
(* every request that waits is given one result, for any requests, ids and *)
(* faults.                                                                 *)
(***************************************************************************)
EXTENDS VaultConn, SequenceTheorems, FiniteSetTheorems, TLAPS

USE DEF relay, file, memory, status, ending, calls, vars, Settled, Others

-----------------------------------------------------------------------------
(***************************************************************************)
(* Small facts.                                                            *)
(***************************************************************************)

\* Giving results keeps the buffers sequences of results (call.done).
LEMMA GiveType ==
  ASSUME done \in [Call -> Seq(Result)], NEW S, NEW e \in Result, Give(S, e)
  PROVE  done' \in [Call -> Seq(Result)]
<1>1. \A c \in Call : Append(done[c], e) \in Seq(Result)  OBVIOUS
<1> QED  BY <1>1 DEF Give

\* The errors a request may end with are results.
LEMMA ErrType ==
  \A e \in {"context", "refused", "superseded", "send", "stopped"} : Err(e) \in Result
BY DEF Err, Result

\* A message the vault deposits (Deposit).
LEMMA DepositType ==
  ASSUME RelayType, NEW type \in Types, NEW re \in Id \cup Nat \cup {None}, Deposit(type, re)
  PROVE  mail' \subseteq Message /\ serial' \in Nat
BY DEF RelayType, Deposit, Message

\* Run's steps and the others, one by one.
LEMMA Steps ==
  ASSUME Next
  PROVE  \/ \E i \in owed : VaultAnswers(i)
         \/ VaultEvent \/ VaultUnlinks
         \/ \E c \in Call : ContextEnds(c) \/ Returns(c) \/ TakeCall(c) \/ \E i \in Id : Request(c, i)
         \/ SendStatus \/ NoStatus \/ StatusDue \/ CollectNothing
         \/ \E B \in SUBSET mail : Persist(B) \/ PersistUnlinked(B)
         \/ Acknowledge \/ Dispatch \/ Check \/ Stop \/ Restart \/ EndsWiped
BY DEF Next, Run

-----------------------------------------------------------------------------
(***************************************************************************)
(* Types.                                                                  *)
(***************************************************************************)

\* Every step keeps the relay's part in its type.
LEMMA RelayTypeStep == ASSUME TypeOK, Next PROVE RelayType'
<1> USE DEF TypeOK, RelayType
<1>1. ASSUME NEW i \in owed, VaultAnswers(i) PROVE RelayType'
  BY <1>1, DepositType DEF VaultAnswers, Types, Fault
<1>2. CASE VaultEvent  BY <1>2, DepositType DEF VaultEvent, Types
<1>3. CASE VaultUnlinks  BY <1>3, DepositType DEF VaultUnlinks, Types
<1>4. ASSUME NEW c \in Call, ContextEnds(c) PROVE RelayType'  BY <1>4 DEF ContextEnds, Fault
<1>5. ASSUME NEW c \in Call, Returns(c) PROVE RelayType'  BY <1>5 DEF Returns
<1>6. ASSUME NEW c \in Call, NEW i \in Id, Request(c, i) PROVE RelayType'  BY <1>6 DEF Request
<1>7. CASE SendStatus
  <2>1. statuses \in Nat /\ faults \in Nat /\ owed \subseteq Id \cup Nat  BY DEF RunType
  <2>2. faults' \in Nat /\ owed' \subseteq Id \cup Nat
    BY <1>7, <2>1 DEF SendStatus, SendsOk, SendFails, TokenRevoked, Fault
  <2>3. UNCHANGED <<mail, serial, events, removed>>  BY <1>7 DEF SendStatus
  <2> QED BY <2>2, <2>3
<1>8. CASE NoStatus \/ StatusDue  BY <1>8 DEF NoStatus, StatusDue
<1>9. ASSUME NEW c \in Call, TakeCall(c) PROVE RelayType'
  <2>1. call[c].id \in Id  BY <1>9 DEF TakeCall, CallsType
  <2> QED BY <1>9, <2>1 DEF TakeCall, Answered, SendsOk, SendFails, TokenRevoked, Fault
<1>10. CASE CollectNothing  BY <1>10 DEF CollectNothing, Fault
<1>11. ASSUME NEW B \in SUBSET mail, Persist(B) PROVE RelayType'  BY <1>11 DEF Persist, Fault
<1>12. ASSUME NEW B \in SUBSET mail, PersistUnlinked(B) PROVE RelayType'  BY <1>12 DEF PersistUnlinked, Fault
<1>13. CASE Acknowledge  BY <1>13 DEF Acknowledge, AckBatch, Fault
<1>14. CASE Dispatch  BY <1>14 DEF Dispatch
<1>15. CASE Check  BY <1>15 DEF Check, Fault
<1>16. CASE Stop \/ Restart \/ EndsWiped
  <2>1. UNCHANGED <<mail, owed, serial, events, removed>> /\ Fault  BY <1>16 DEF Stop, Restart, EndsWiped
  <2> QED BY <2>1 DEF Fault
<1> QED
  BY <1>1, <1>2, <1>3, <1>4, <1>5, <1>6, <1>7, <1>8, <1>9, <1>10, <1>11, <1>12, <1>13, <1>14, <1>15, <1>16, Steps

\* Every step keeps the state file, and what Run's goroutine has, in their types.
LEMMA RunTypeStep == ASSUME TypeOK, Next PROVE FileType' /\ RunType'
<1> USE ConnAssumption DEF TypeOK, FileType, RunType
<1> DEFINE Goal == FileType' /\ RunType'
<1>1. ASSUME NEW i \in owed, VaultAnswers(i) PROVE Goal  BY <1>1 DEF VaultAnswers
<1>2. CASE VaultEvent \/ VaultUnlinks  BY <1>2 DEF VaultEvent, VaultUnlinks
<1>3. ASSUME NEW c \in Call, ContextEnds(c) PROVE Goal  BY <1>3 DEF ContextEnds
<1>4. ASSUME NEW c \in Call, Returns(c) PROVE Goal  BY <1>4 DEF Returns
<1>5. ASSUME NEW c \in Call, NEW i \in Id, Request(c, i) PROVE Goal  BY <1>5 DEF Request
<1>6. Nobody \in [Id -> Call \cup {None}]  BY DEF Nobody
<1>7. CASE SendStatus
  <2>1. pc' = "send" /\ UNCHANGED <<file, memory, drains, poll, outcome, handed>>  BY <1>7 DEF SendStatus
  <2>2. statusID' \in Nat /\ statuses' \in Nat
    <3>1. statusID \in Nat /\ statuses \in Nat  OBVIOUS
    <3> HIDE DEF TypeOK, RunType, FileType
    <3> QED BY <1>7, <3>1 DEF SendStatus
  <2>3. due' \in BOOLEAN  BY <1>7, Zenon DEF SendStatus, DueAgain
  <2>4. refused' \in BOOLEAN  BY <1>7, Zenon DEF SendStatus, SendFails, TokenRevoked
  <2>5. pending' \in [Id -> Call \cup {None}]  BY <1>6, <1>7 DEF SendStatus, ForgetWaiters
  <2> QED BY <2>1, <2>2, <2>3, <2>4, <2>5
<1>8. CASE NoStatus \/ StatusDue  BY <1>8 DEF NoStatus, StatusDue
<1>9. ASSUME NEW c \in Call, TakeCall(c) PROVE Goal
  BY <1>6, <1>9 DEF TakeCall, Answered, SendFails, TokenRevoked, ForgetWaiters
<1>10. CASE CollectNothing  BY <1>10 DEF CollectNothing
<1>11. ASSUME NEW B \in SUBSET mail, Persist(B) PROVE Goal
  BY <1>11 DEF Persist, Collected, LeaveUnacked, RelayType
<1>12. ASSUME NEW B \in SUBSET mail, PersistUnlinked(B) PROVE Goal
  BY <1>12 DEF PersistUnlinked, Collected, WipeFirst, RelayType
<1>13. CASE Acknowledge  BY <1>13 DEF Acknowledge
<1>14. CASE Dispatch  BY <1>14 DEF Dispatch, DrainedOnce, Alive, Waiters
<1>15. CASE Check
  <2>1. UNCHANGED <<file, memory, status, refused, poll, handed>>  BY <1>15 DEF Check
  <2>2. pc' \in {"top", "ended"}  BY <1>15 DEF Check, Ended
  <2>3. drains' \in Nat
    <3>1. drains \in Nat  OBVIOUS
    <3> HIDE DEF TypeOK, RunType, FileType
    <3> QED BY <1>15, <3>1 DEF Check
  <2>4. outcome' \in {"", "unlinked", "wipeFailed", "refused", "stopped"}  BY <1>15 DEF Check, Ended
  <2>5. pending' \in [Id -> Call \cup {None}]  BY <1>6, <1>15 DEF Check, Ended, ForgetWaiters
  <2> QED BY <2>1, <2>2, <2>3, <2>4, <2>5
<1>16. CASE Stop
  <2>1. UNCHANGED <<file, memory, status, refused, drains, poll, handed>> /\ pc' = "ended" /\ outcome' = "stopped"
    BY <1>16 DEF Stop, Ended
  <2>2. pending' \in [Id -> Call \cup {None}]  BY <1>6, <1>16 DEF Stop, Ended, ForgetWaiters
  <2> QED BY <2>1, <2>2
<1>17. CASE Restart
  <2>1. UNCHANGED <<file, statuses>> /\ pc' = "top" /\ poll' = "ok" /\ outcome' = "" /\ refused' = FALSE
        /\ applied' = saved /\ drained' = {} /\ batch' = {} /\ handed' = {} /\ drains' = 0 /\ statusID' = 0
    BY <1>17 DEF Restart
  <2>2. due' = TRUE  BY <1>17 DEF Restart
  <2>3. pending' \in [Id -> Call \cup {None}]  BY <1>6, <1>17 DEF Restart
  <2> QED BY <2>1, <2>2, <2>3
<1>18. CASE EndsWiped
  <2>1. UNCHANGED <<file, memory, status, refused, drains, poll, handed>> /\ pc' = "ended" /\ outcome' = "stopped"
    BY <1>18 DEF EndsWiped
  <2>2. pending' \in [Id -> Call \cup {None}]  BY <1>6, <1>18 DEF EndsWiped
  <2> QED BY <2>1, <2>2
<1> QED
  BY <1>1, <1>2, <1>3, <1>4, <1>5, <1>7, <1>8, <1>9, <1>10, <1>11, <1>12, <1>13, <1>14, <1>15, <1>16, <1>17,
     <1>18, Steps

\* Every step keeps the requests in their type.
LEMMA CallsTypeStep == ASSUME TypeOK, Next PROVE CallsType'
<1> USE DEF TypeOK, CallsType
<1>1. ASSUME NEW i \in owed, VaultAnswers(i) PROVE CallsType'  BY <1>1 DEF VaultAnswers
<1>2. CASE VaultEvent \/ VaultUnlinks  BY <1>2 DEF VaultEvent, VaultUnlinks
<1>3. ASSUME NEW c \in Call, ContextEnds(c) PROVE CallsType'  BY <1>3 DEF ContextEnds
<1>4. ASSUME NEW c \in Call, Returns(c) PROVE CallsType'
  <2>1. call[c].id \in Id  BY <1>4 DEF Returns
  <2>2. done' \in [Call -> Seq(Result)]
    <3>1. done[c] # <<>> => Tail(done[c]) \in Seq(Result)  BY DEF CallsType
    <3> QED BY <1>4, <3>1 DEF Returns
  <2> QED BY <1>4, <2>1, <2>2 DEF Returns, Returned
<1>5. ASSUME NEW c \in Call, NEW i \in Id, Request(c, i) PROVE CallsType'  BY <1>5 DEF Request
<1>6. Err("refused") \in Result /\ Err("superseded") \in Result /\ Err("stopped") \in Result
      /\ Err("context") \in Result /\ Err("send") \in Result
  BY ErrType
<1>7. CASE SendStatus
  <2>1. done' \in [Call -> Seq(Result)]  BY <1>6, <1>7, GiveType DEF SendStatus
  <2> QED BY <1>7, <2>1 DEF SendStatus
<1>8. CASE NoStatus \/ StatusDue  BY <1>8 DEF NoStatus, StatusDue
<1>9. ASSUME NEW c \in Call, TakeCall(c) PROVE CallsType'
  <2>1. done' \in [Call -> Seq(Result)]  BY <1>6, <1>9, GiveType DEF TakeCall, Answered, SupersedeOlder
  <2>2. call[c].id \in Id  BY <1>9 DEF TakeCall
  <2> QED BY <1>9, <2>1, <2>2 DEF TakeCall, Taken
<1>10. CASE CollectNothing  BY <1>10 DEF CollectNothing
<1>11. ASSUME NEW B \in SUBSET mail, Persist(B) PROVE CallsType'  BY <1>11 DEF Persist
<1>12. ASSUME NEW B \in SUBSET mail, PersistUnlinked(B) PROVE CallsType'  BY <1>12 DEF PersistUnlinked
<1>13. CASE Acknowledge  BY <1>13 DEF Acknowledge
<1>14. CASE Dispatch
  <2>1. \A m \in drained : Resp(m) \in Result  BY DEF RunType, Resp, Result
  <2>2. done' \in [Call -> Seq(Result)]
    <3> DEFINE heard == {c \in Alive : AnswerTo(c) # {}}
    <3>1. PICK answer \in [heard -> drained] :
            done' = [c \in Call |-> IF c \in heard THEN Append(done[c], Resp(answer[c])) ELSE done[c]]
      BY <1>14 DEF Dispatch
    <3>2. \A c \in Call : c \in heard => Append(done[c], Resp(answer[c])) \in Seq(Result)  BY <2>1
    <3> QED BY <3>1, <3>2
  <2> QED BY <1>14, <2>2 DEF Dispatch
<1>15. CASE Check
  <2>1. done' \in [Call -> Seq(Result)]  BY <1>6, <1>15, GiveType DEF Check, Ended
  <2> QED BY <1>15, <2>1 DEF Check
<1>16. CASE Stop
  <2>1. done' \in [Call -> Seq(Result)]  BY <1>6, <1>16, GiveType DEF Stop, Ended
  <2> QED BY <1>16, <2>1 DEF Stop
<1>17. CASE Restart \/ EndsWiped
  <2>1. done' = [c \in Call |-> <<>>]  BY <1>17 DEF Restart, EndsWiped
  <2>2. dead' \in {{}, dead}  BY <1>17 DEF Restart, EndsWiped
  <2>3. \E at \in {"idle", "returned"} : call' = [c \in Call |-> [at |-> at, id |-> None]]
    <3> HIDE DEF TypeOK, CallsType
    <3> QED BY <1>17 DEF Restart, EndsWiped
  <2> QED BY <2>1, <2>2, <2>3
<1> QED
  BY <1>1, <1>2, <1>3, <1>4, <1>5, <1>7, <1>8, <1>9, <1>10, <1>11, <1>12, <1>13, <1>14, <1>15, <1>16, <1>17, Steps

\* The types hold of every state.
LEMMA Typing == TypeOK /\ [Next]_vars => TypeOK'
<1> SUFFICES ASSUME TypeOK, [Next]_vars PROVE TypeOK'
  OBVIOUS
<1>1. CASE Next  BY <1>1, RelayTypeStep, RunTypeStep, CallsTypeStep DEF TypeOK
<1>2. CASE UNCHANGED vars  BY <1>2 DEF TypeOK, RelayType, FileType, RunType, CallsType, Waiters
<1> QED  BY <1>1, <1>2

-----------------------------------------------------------------------------
(***************************************************************************)
(* The mailbox.                                                            *)
(***************************************************************************)

Kept == NothingLost /\ AppliedIsKept /\ AckedIsSaved /\ WipedEnds

\* A message the vault sends is in the mailbox.
LEMMA SendsKeep ==
  ASSUME TypeOK, Kept, NEW type \in Types, NEW re \in Id \cup Nat \cup {None}, Deposit(type, re),
         UNCHANGED <<file, pc, memory, poll>>
  PROVE  Kept'
<1>1. NothingLost'
  <2>1. [serial |-> serial + 1, type |-> type, re |-> re] \in mail'  BY DEF Deposit
  <2>2. \A n \in 1..(serial + 1) : n \in 1..serial \/ n = serial + 1  BY DEF TypeOK, RelayType
  <2>3. mail \subseteq mail' /\ serial' = serial + 1  BY DEF Deposit
  <2> QED BY <2>1, <2>2, <2>3 DEF Kept, NothingLost
<1>2. AppliedIsKept'  BY DEF Kept, AppliedIsKept, Deposit
<1>3. AckedIsSaved' /\ WipedEnds'  BY DEF Kept, AckedIsSaved, WipedEnds
<1> QED BY <1>1, <1>2, <1>3 DEF Kept

\* The save of a batch, and the wipe (persist).
LEMMA PersistKeeps ==
  ASSUME TypeOK, Kept, NEW B \in SUBSET mail, Persist(B) \/ PersistUnlinked(B)
  PROVE  Kept'
<1>1. ~wiped  BY DEF Kept, WipedEnds, Persist, PersistUnlinked, Collected, Collects
<1>2. applied' = applied \cup B /\ batch' = B /\ UNCHANGED <<mail, serial>>
  BY DEF Persist, PersistUnlinked
<1>3. CASE Persist(B)
  <2>1. UNCHANGED wiped /\ saved' \in {saved, applied'} /\ (pc' = "ack" => saved' = applied')
    BY <1>3 DEF Persist, LeaveUnacked
  <2>2. saved \subseteq saved'  BY <1>2, <2>1 DEF Kept, AppliedIsKept
  <2> QED BY <1>1, <1>2, <2>1, <2>2 DEF Kept, NothingLost, AppliedIsKept, AckedIsSaved, WipedEnds
<1>4. CASE PersistUnlinked(B)
  <2>1. UNCHANGED saved /\ (pc' = "ack" => wiped') /\ pc' \in {"ack", "dispatch"}
        /\ poll' \in {"unlinked", "wipeFailed"}
    BY <1>4 DEF PersistUnlinked, WipeFirst
  <2> QED BY <1>1, <1>2, <2>1 DEF Kept, NothingLost, AppliedIsKept, AckedIsSaved, WipedEnds
<1> QED BY <1>3, <1>4

\* The acknowledgement drops a batch that is saved, or nothing.
LEMMA AckKeeps == ASSUME TypeOK, Kept, Acknowledge PROVE Kept'
<1>1. pc = "ack" /\ pc' = "dispatch" /\ UNCHANGED <<serial, file, memory>>  BY DEF Acknowledge
<1>2. mail' \in {mail, mail \ batch}  BY DEF Acknowledge, AckBatch
<1>3. wiped => poll' = poll  BY DEF Acknowledge, Kept, WipedEnds
<1>4. ~wiped => mail \subseteq mail' \cup saved  BY <1>1, <1>2 DEF Kept, AckedIsSaved
<1>5. WipedEnds'  BY <1>1, <1>3 DEF Kept, WipedEnds
<1> QED BY <1>1, <1>4, <1>5 DEF Kept, NothingLost, AppliedIsKept, AckedIsSaved

\* A new process loads what the state file has.
LEMMA RestartKeeps == ASSUME TypeOK, Kept, Restart PROVE Kept'
<1>1. ~wiped /\ applied' = saved /\ pc' = "top" /\ UNCHANGED <<mail, serial, file>>  BY DEF Restart
<1> QED BY <1>1 DEF Kept, NothingLost, AppliedIsKept, AckedIsSaved, WipedEnds

\* Every other step of Run leaves the mailbox and the state file alone.
LEMMA OthersKeep ==
  ASSUME TypeOK, Kept, UNCHANGED <<mail, serial, file, applied>>, pc' # "ack" \/ UNCHANGED <<pc, batch>>,
         wiped => (pc' = "ended" \/ (pc' \in {"check", "dispatch", "ack"} /\ poll' = poll /\ pc # "ended"))
  PROVE  Kept'
<1>1. NothingLost' /\ AppliedIsKept'  BY DEF Kept, NothingLost, AppliedIsKept
<1>2. AckedIsSaved'  BY DEF Kept, AckedIsSaved
<1>3. WipedEnds'  BY DEF Kept, WipedEnds
<1> QED BY <1>1, <1>2, <1>3 DEF Kept

\* Every step keeps the mailbox.
LEMMA KeptStep == ASSUME TypeOK, Kept, Next PROVE Kept'
<1>1. ASSUME NEW i \in owed, VaultAnswers(i) PROVE Kept'
  BY <1>1, SendsKeep DEF VaultAnswers, Types, TypeOK, RelayType
<1>2. CASE VaultEvent  BY <1>2, SendsKeep DEF VaultEvent, Types
<1>3. CASE VaultUnlinks  BY <1>3, SendsKeep DEF VaultUnlinks, Types
<1>4. ASSUME NEW c \in Call, ContextEnds(c) PROVE Kept'
  BY <1>4, OthersKeep DEF ContextEnds, Kept, WipedEnds
<1>5. ASSUME NEW c \in Call, Returns(c) PROVE Kept'  BY <1>5, OthersKeep DEF Returns, Kept, WipedEnds
<1>6. ASSUME NEW c \in Call, NEW i \in Id, Request(c, i) PROVE Kept'
  BY <1>6, OthersKeep DEF Request, Kept, WipedEnds
<1>7. CASE SendStatus \/ NoStatus
  <2>1. pc = "top" /\ pc' = "send" /\ UNCHANGED <<mail, serial, file, memory>>
    BY <1>7 DEF SendStatus, NoStatus
  <2> QED BY <2>1, OthersKeep DEF Kept, WipedEnds
<1>8. CASE StatusDue  BY <1>8, OthersKeep DEF StatusDue, Kept, WipedEnds
<1>9. ASSUME NEW c \in Call, TakeCall(c) PROVE Kept'
  <2>1. UNCHANGED <<mail, serial, file, memory, pc, poll>>  BY <1>9 DEF TakeCall
  <2> QED BY <2>1, OthersKeep DEF Kept, WipedEnds
<1>10. CASE CollectNothing
  <2>1. pc = "send" /\ pc' = "check" /\ UNCHANGED <<mail, serial, file, memory>>
    BY <1>10 DEF CollectNothing, Collects
  <2> QED BY <2>1, OthersKeep DEF Kept, WipedEnds
<1>11. CASE Dispatch
  <2>1. pc = "dispatch" /\ pc' = "check" /\ UNCHANGED <<mail, serial, file, applied, poll>>
    BY <1>11 DEF Dispatch
  <2> QED BY <2>1, OthersKeep
<1>12. CASE Check
  <2>1. pc = "check" /\ UNCHANGED <<mail, serial, file, memory, poll>>  BY <1>12 DEF Check
  <2>2. pc' \in {"top", "ended"} /\ (wiped => pc' = "ended")
    BY <1>12 DEF Check, Ended, Kept, WipedEnds
  <2> QED BY <2>1, <2>2, OthersKeep
<1>13. CASE Stop \/ EndsWiped
  <2>1. pc' = "ended" /\ UNCHANGED <<mail, serial, file, memory, poll>>  BY <1>13 DEF Stop, EndsWiped, Ended
  <2> QED BY <2>1, OthersKeep
<1> QED
  BY <1>1, <1>2, <1>3, <1>4, <1>5, <1>6, <1>7, <1>8, <1>9, <1>10, <1>11, <1>12, <1>13, PersistKeeps, AckKeeps,
     RestartKeeps, Steps

\* The inductive invariant holds of every state (Conn.persist, the client's acknowledgement, New).
THEOREM Invariance == Spec => []IInv
<1>1. Init => IInv
  <2> SUFFICES ASSUME Init PROVE IInv
    OBVIOUS
  <2>1. RelayType /\ FileType  BY DEF Init, RelayType, FileType
  <2>2. RunType  BY DEF Init, RunType
  <2>3. CallsType
    <3>1. call = [c \in Call |-> [at |-> "idle", id |-> None]] /\ dead = {} /\ done = [c \in Call |-> <<>>]
      BY DEF Init
    <3>2. call \in [Call -> [at: {"idle"}, id: {None}]] /\ done \in [Call -> Seq(Result)]  BY <3>1
    <3> QED BY <3>1, <3>2 DEF CallsType
  <2>4. Kept
    <3>1. serial = 0 /\ wiped = FALSE /\ applied = {} /\ saved = {} /\ pc = "top"  BY DEF Init
    <3> QED BY <3>1 DEF Kept, NothingLost, AppliedIsKept, AckedIsSaved, WipedEnds
  <2> QED BY <2>1, <2>2, <2>3, <2>4 DEF IInv, TypeOK, Kept
<1>2. IInv /\ [Next]_vars => IInv'
  <2> SUFFICES ASSUME IInv, [Next]_vars PROVE IInv'
    OBVIOUS
  <2>1. TypeOK /\ Kept  BY DEF IInv, Kept
  <2>2. TypeOK'  BY <2>1, Typing
  <2>3. CASE Next  BY <2>1, <2>2, <2>3, KeptStep DEF IInv, Kept
  <2>4. CASE UNCHANGED vars
    BY <2>1, <2>2, <2>4 DEF IInv, Kept, NothingLost, AppliedIsKept, AckedIsSaved, WipedEnds
  <2> QED BY <2>3, <2>4
<1> QED  BY <1>1, <1>2, PTL DEF Spec

\* No message the vault sent is lost, whatever fails (persist before the acknowledgement).
THEOREM NoMessageIsLost == Spec => []NothingLost
<1>1. IInv => NothingLost  BY DEF IInv
<1> QED  BY <1>1, Invariance, PTL

-----------------------------------------------------------------------------
(***************************************************************************)
(* The requests.                                                           *)
(***************************************************************************)

\* A request in c.pending is one that was taken (Conn.pending).
LEMMA WaiterFacts ==
  ASSUME TypeOK, RequestsInv, NEW c \in Waiters
  PROVE  /\ c \in Call /\ done[c] = <<>> /\ call[c].id \in Id /\ pending[call[c].id] = c
         /\ call[c].at \in {"waiting", "returned"}
<1>1. PICK i \in Id : pending[i] = c /\ c # None  BY DEF Waiters
<1> QED BY <1>1 DEF TypeOK, RunType, RequestsInv, WaitersWait

\* One result for each of S, whose buffers were empty (call.done).
LEMMA GivesOne ==
  ASSUME TypeOK, NEW S \in SUBSET Call, NEW r \in Result, Give(S, r), \A c \in S : done[c] = <<>>
  PROVE  \A c \in Call : /\ c \in S => done'[c] # <<>> /\ Len(done'[c]) = 1
                         /\ c \notin S => done'[c] = done[c]
<1>1. Append(<<>>, r) # <<>> /\ Len(Append(<<>>, r)) = 1  OBVIOUS
<1> QED BY <1>1 DEF Give

\* A step that neither takes, answers nor forgets a request (Run's other steps, the vault's, a context's end).
LEMMA RequestsFrame ==
  ASSUME RequestsInv, UNCHANGED <<call, done, pending>>, dead \subseteq dead'
  PROVE  RequestsInv'
BY DEF RequestsInv, WaitersWait, AnsweredWhenTaken, EveryWaiterIsHeard

\* failPending, and with it perhaps a request just taken: everyone that waits is told (takeCalls, the end of Run).
LEMMA AllAreTold ==
  ASSUME TypeOK, RequestsInv, NEW T \in SUBSET Call, NEW r \in Result,
         Give(Waiters \cup T, r), pending' = Nobody, dead' = dead,
         \A c \in T : done[c] = <<>> /\ call'[c].at = "waiting",
         \A c \in Call \ T : call'[c] = call[c]
  PROVE  RequestsInv'
<1>1. Waiters \cup T \in SUBSET Call /\ \A c \in Waiters \cup T : done[c] = <<>>  BY WaiterFacts
<1>2. \A c \in Call : /\ c \in Waiters \cup T => done'[c] # <<>> /\ Len(done'[c]) = 1
                      /\ c \notin Waiters \cup T => done'[c] = done[c]
  BY <1>1, GivesOne
<1>3. WaitersWait'  BY DEF WaitersWait, Nobody
<1>4. AnsweredWhenTaken'
  <2>1. \A c \in Waiters \cup T : call'[c].at \in {"waiting", "returned"}  BY <1>1, WaiterFacts
  <2>2. \A c \in Call : c \notin Waiters \cup T => call'[c] = call[c]  OBVIOUS
  <2> QED BY <1>2, <2>1, <2>2 DEF RequestsInv, AnsweredWhenTaken
<1>5. EveryWaiterIsHeard'
  <2> SUFFICES ASSUME NEW c \in Call, call'[c].at = "waiting", done'[c] = <<>>, c \notin dead'
               PROVE  FALSE
    BY DEF EveryWaiterIsHeard
  <2>1. c \notin Waiters \cup T  BY <1>2
  <2>2. call[c].at = "waiting" /\ done[c] = <<>> /\ c \notin dead  BY <1>2, <2>1
  <2>3. call[c].id \in Id /\ pending[call[c].id] = c  BY <2>2 DEF TypeOK, CallsType, RequestsInv, EveryWaiterIsHeard
  <2>4. c # None  BY ConnAssumption
  <2> QED BY <2>1, <2>3, <2>4 DEF Waiters
<1> QED BY <1>3, <1>4, <1>5 DEF RequestsInv

\* failPending alone.
LEMMA WaitersAreTold ==
  ASSUME TypeOK, RequestsInv, NEW r \in Result, Give(Waiters, r), pending' = Nobody, UNCHANGED <<call, dead>>
  PROVE  RequestsInv'
<1>1. Waiters \cup {} = Waiters /\ {} \in SUBSET Call  OBVIOUS
<1>2. Give(Waiters \cup {}, r)  BY <1>1
<1>3. \A c \in {} : done[c] = <<>> /\ call'[c].at = "waiting"  OBVIOUS
<1>4. \A c \in Call \ {} : call'[c] = call[c]  OBVIOUS
<1> QED BY <1>1, <1>2, <1>3, <1>4, AllAreTold

\* takeCalls: a request that could not go out is answered at once, one that did takes the place of
\* another under its id, which is told.
LEMMA TakeCallKeeps == ASSUME TypeOK, RequestsInv, NEW c \in Call, TakeCall(c) PROVE RequestsInv'
<1>1. call[c].at = "offered" /\ call[c].id \in Id /\ dead' = dead /\ c # None
  BY ConnAssumption DEF TakeCall, TypeOK, CallsType
<1>2. /\ call'[c].at = "waiting" /\ call'[c].id = call[c].id
      /\ \A d \in Call \ {c} : call'[d] = call[d]
  BY DEF TakeCall, Taken, TypeOK, CallsType
<1>3. done[c] = <<>> /\ c \notin Waiters
  BY <1>1, WaiterFacts DEF RequestsInv, AnsweredWhenTaken
<1>4. ASSUME NEW e \in {"context", "refused", "send"}, Answered(c, e) PROVE RequestsInv'
  <2>1. Err(e) \in Result  BY ErrType
  <2>2. \A d \in Call : /\ d = c => done'[d] # <<>> /\ Len(done'[d]) = 1
                        /\ d # c => done'[d] = done[d]
    <3>1. Give({c}, Err(e)) /\ {c} \in SUBSET Call /\ \A d \in {c} : done[d] = <<>>  BY <1>3, <1>4 DEF Answered
    <3> HIDE DEF Answered
    <3> QED BY <2>1, <3>1, GivesOne
  <2>3. UNCHANGED pending  BY <1>4 DEF Answered
  <2>4. \A i \in Id : pending[i] # c  BY <1>1, <1>3 DEF Waiters
  <2>5. WaitersWait'
    BY <1>2, <2>2, <2>3, <2>4 DEF RequestsInv, WaitersWait, TypeOK, RunType
  <2>6. AnsweredWhenTaken'  BY <1>2, <2>2 DEF RequestsInv, AnsweredWhenTaken
  <2>7. EveryWaiterIsHeard'  BY <1>1, <1>2, <2>2, <2>3 DEF RequestsInv, EveryWaiterIsHeard
  <2> QED BY <2>5, <2>6, <2>7 DEF RequestsInv
<1>5. CASE SupersedeOlder(c) /\ pending' = [pending EXCEPT ![call[c].id] = c]
  <2> DEFINE older == {pending[call[c].id]} \ {None}
  <2>1. Err("superseded") \in Result  BY ErrType
  <2>2. older \subseteq Waiters  BY <1>1 DEF Waiters
  <2>3. \A d \in Call : /\ d \in older => done'[d] # <<>> /\ Len(done'[d]) = 1
                        /\ d \notin older => done'[d] = done[d]
    <3>1. older \in SUBSET Call /\ \A d \in older : done[d] = <<>>  BY <2>2, WaiterFacts
    <3>2. Give(older, Err("superseded"))  BY <1>5 DEF SupersedeOlder
    <3> HIDE DEF older
    <3> QED BY <2>1, <3>1, <3>2, GivesOne
  <2>4. c \notin older  BY <1>3, <2>2
  <2>5. ASSUME NEW i \in Id, i # call[c].id PROVE pending'[i] = pending[i] /\ pending[i] \notin older
    <3>1. pending'[i] = pending[i]  BY <1>5, <2>5 DEF TypeOK, RunType
    <3>2. pending[i] \in older => pending[i] = pending[call[c].id] /\ pending[i] # None  OBVIOUS
    <3> HIDE DEF older
    <3> QED BY <1>1, <2>5, <3>1, <3>2 DEF RequestsInv, WaitersWait
  <2>6. pending'[call[c].id] = c  BY <1>1, <1>5 DEF TypeOK, RunType
  <2>7. WaitersWait'
    <3> SUFFICES ASSUME NEW i \in Id, pending'[i] # None
                 PROVE  /\ call'[pending'[i]].id = i /\ call'[pending'[i]].at \in {"waiting", "returned"}
                        /\ done'[pending'[i]] = <<>>
      BY DEF WaitersWait
    <3>1. CASE i = call[c].id  BY <1>2, <1>3, <2>3, <2>4, <2>6, <3>1
    <3>2. CASE i # call[c].id
      <4>1. pending'[i] = pending[i] /\ pending[i] \notin older /\ pending[i] \in Waiters
        BY <2>5, <3>2 DEF Waiters
      <4>2. pending[i] \in Call /\ pending[i] # c /\ done[pending[i]] = <<>>  BY <1>3, <4>1, WaiterFacts
      <4> HIDE DEF older
      <4> QED BY <1>2, <2>3, <4>1, <4>2 DEF RequestsInv, WaitersWait
    <3> QED BY <3>1, <3>2
  <2>8. AnsweredWhenTaken'
    <3>1. \A d \in older : d # c /\ d \in Call /\ call[d].at \in {"waiting", "returned"}
      BY <2>2, <2>4, WaiterFacts
    <3> HIDE DEF older
    <3> QED BY <1>2, <1>3, <2>3, <2>4, <3>1 DEF RequestsInv, AnsweredWhenTaken
  <2>9. EveryWaiterIsHeard'
    <3> SUFFICES ASSUME NEW d \in Call, call'[d].at = "waiting", done'[d] = <<>>, d \notin dead'
                 PROVE  pending'[call'[d].id] = d
      BY DEF EveryWaiterIsHeard
    <3>1. CASE d = c  BY <1>2, <2>6, <3>1
    <3>2. CASE d # c
      <4>1. d \notin older /\ call'[d] = call[d] /\ done[d] = <<>>  BY <1>2, <2>3, <3>2
      <4>2. call[d].id \in Id /\ pending[call[d].id] = d
        BY <1>1, <4>1 DEF TypeOK, CallsType, RequestsInv, EveryWaiterIsHeard
      <4>3. call[d].id # call[c].id  BY <4>1, <4>2, ConnAssumption
      <4> QED BY <2>5, <4>1, <4>2, <4>3
    <3> QED BY <3>1, <3>2
  <2> QED BY <2>7, <2>8, <2>9 DEF RequestsInv
<1>6. CASE Give(Waiters \cup {c}, Err("refused")) /\ ForgetWaiters
  <2>1. Err("refused") \in Result  BY ErrType
  <2> QED BY <1>1, <1>2, <1>3, <1>6, <2>1, AllAreTold DEF ForgetWaiters
<1> QED BY <1>4, <1>5, <1>6 DEF TakeCall

\* A request that returns took its one result, or leaves because its context or Run ended (request).
LEMMA ReturnsKeeps == ASSUME TypeOK, RequestsInv, NEW c \in Call, Returns(c) PROVE RequestsInv'
<1>1. /\ call'[c].at = "returned" /\ call'[c].id = call[c].id
      /\ \A d \in Call \ {c} : call'[d] = call[d]
  BY DEF Returns, Returned, TypeOK, CallsType
<1>2. UNCHANGED <<pending, dead>>  BY DEF Returns
<1>3. call[c].at \in {"offered", "waiting"}  BY DEF Returns
<1>4. \A d \in Call \ {c} : done'[d] = done[d]  BY DEF Returns, TypeOK, CallsType
<1>5. done'[c] = done[c] \/ (done[c] # <<>> /\ done'[c] = Tail(done[c]))  BY DEF Returns, TypeOK, CallsType
<1>6. done[c] # <<>> => done'[c] = <<>> \/ done'[c] = done[c]
  <2>1. done[c] # <<>> => Len(done[c]) = 1 /\ done[c] \in Seq(Result)
    BY DEF RequestsInv, AnsweredWhenTaken, TypeOK, CallsType
  <2>2. done[c] # <<>> => Tail(done[c]) = <<>>
    <3> SUFFICES ASSUME done[c] # <<>> PROVE Tail(done[c]) = <<>>
      OBVIOUS
    <3>1. Tail(done[c]) \in Seq(Result) /\ Len(Tail(done[c])) = 0  BY <2>1
    <3> QED BY <3>1, EmptySeq
  <2> QED BY <1>5, <2>2
<1>7. WaitersWait'
  <2> SUFFICES ASSUME NEW i \in Id, pending[i] # None
               PROVE  /\ call'[pending[i]].id = i /\ call'[pending[i]].at \in {"waiting", "returned"}
                      /\ done'[pending[i]] = <<>>
    BY <1>2 DEF WaitersWait
  <2>1. /\ pending[i] \in Call /\ call[pending[i]].id = i /\ call[pending[i]].at \in {"waiting", "returned"}
        /\ done[pending[i]] = <<>>
    BY DEF RequestsInv, WaitersWait, TypeOK, RunType
  <2> QED BY <1>1, <1>4, <1>5, <2>1
<1>8. AnsweredWhenTaken'
  <2> SUFFICES ASSUME NEW d \in Call, done'[d] # <<>>
               PROVE  Len(done'[d]) = 1 /\ call'[d].at \in {"waiting", "returned"}
    BY DEF AnsweredWhenTaken
  <2>1. CASE d = c
    <3>1. done'[c] = done[c] /\ done[c] # <<>>  BY <1>5, <1>6, <2>1
    <3> QED BY <1>1, <2>1, <3>1 DEF RequestsInv, AnsweredWhenTaken
  <2>2. CASE d # c  BY <1>1, <1>4, <2>2 DEF RequestsInv, AnsweredWhenTaken
  <2> QED BY <2>1, <2>2
<1>9. EveryWaiterIsHeard'
  <2> SUFFICES ASSUME NEW d \in Call, call'[d].at = "waiting", done'[d] = <<>>, d \notin dead'
               PROVE  pending'[call'[d].id] = d
    BY DEF EveryWaiterIsHeard
  <2>1. d # c  BY <1>1
  <2> QED BY <1>1, <1>2, <1>4, <2>1 DEF RequestsInv, EveryWaiterIsHeard
<1> QED BY <1>7, <1>8, <1>9 DEF RequestsInv

\* A request that offers itself waits for nothing yet (RequestWithID).
LEMMA RequestKeeps == ASSUME TypeOK, RequestsInv, NEW c \in Call, NEW i \in Id, Request(c, i) PROVE RequestsInv'
<1>1. /\ call[c].at = "idle" /\ call'[c].at = "offered"
      /\ \A d \in Call \ {c} : call'[d] = call[d]
  BY DEF Request, TypeOK, CallsType
<1>2. UNCHANGED <<pending, done, dead>>  BY DEF Request
<1>3. done[c] = <<>> /\ c \notin Waiters  BY <1>1, WaiterFacts DEF RequestsInv, AnsweredWhenTaken
<1>4. WaitersWait'
  <2>1. \A j \in Id : pending[j] # None => pending[j] \in Call /\ pending[j] # c
    BY <1>3 DEF Waiters, TypeOK, RunType
  <2> QED BY <1>1, <1>2, <2>1 DEF RequestsInv, WaitersWait
<1>5. AnsweredWhenTaken'  BY <1>1, <1>2, <1>3 DEF RequestsInv, AnsweredWhenTaken
<1>6. EveryWaiterIsHeard'  BY <1>1, <1>2 DEF RequestsInv, EveryWaiterIsHeard
<1> QED BY <1>4, <1>5, <1>6 DEF RequestsInv

\* dispatch answers who still waits, and forgets who left.
LEMMA DispatchKeeps == ASSUME TypeOK, RequestsInv, Dispatch PROVE RequestsInv'
<1> DEFINE heard == {c \in Alive : AnswerTo(c) # {}}
<1>1. UNCHANGED <<call, dead>>  BY DEF Dispatch
<1>2. pending' = [i \in Id |-> IF pending[i] \in Alive \ heard THEN pending[i] ELSE None]  BY DEF Dispatch
<1>3. heard \subseteq Waiters  BY DEF Alive
<1>4. \A c \in Call : /\ c \in heard => done'[c] # <<>> /\ Len(done'[c]) = 1
                      /\ c \notin heard => done'[c] = done[c]
  <2>1. PICK answer \in [heard -> drained] :
          done' = [c \in Call |-> IF c \in heard THEN Append(done[c], Resp(answer[c])) ELSE done[c]]
    BY DEF Dispatch
  <2>2. \A c \in heard : c \in Call /\ done[c] = <<>>  BY <1>3, WaiterFacts
  <2>3. \A c \in heard : Append(<<>>, Resp(answer[c])) # <<>> /\ Len(Append(<<>>, Resp(answer[c]))) = 1
    OBVIOUS
  <2> HIDE DEF heard
  <2> QED BY <2>1, <2>2, <2>3
<1>5. \A c \in heard : c \in Call /\ call[c].at \in {"waiting", "returned"}  BY <1>3, WaiterFacts
<1>6. \A c \in Waiters : c \notin dead /\ c \notin heard => c \in Alive \ heard  BY DEF Alive
<1> HIDE DEF heard
<1>7. WaitersWait'
  <2> SUFFICES ASSUME NEW i \in Id, pending'[i] # None
               PROVE  /\ call'[pending'[i]].id = i /\ call'[pending'[i]].at \in {"waiting", "returned"}
                      /\ done'[pending'[i]] = <<>>
    BY DEF WaitersWait
  <2>1. pending'[i] = pending[i] /\ pending[i] \notin heard /\ pending[i] # None  BY <1>2
  <2>2. pending[i] \in Call  BY <2>1 DEF TypeOK, RunType
  <2> QED BY <1>1, <1>4, <2>1, <2>2 DEF RequestsInv, WaitersWait
<1>8. AnsweredWhenTaken'  BY <1>1, <1>4, <1>5 DEF RequestsInv, AnsweredWhenTaken
<1>9. EveryWaiterIsHeard'
  <2> SUFFICES ASSUME NEW c \in Call, call[c].at = "waiting", done'[c] = <<>>, c \notin dead
               PROVE  pending'[call[c].id] = c
    BY <1>1 DEF EveryWaiterIsHeard
  <2>1. c \notin heard /\ done[c] = <<>>  BY <1>4
  <2>2. call[c].id \in Id /\ pending[call[c].id] = c
    BY <2>1 DEF TypeOK, CallsType, RequestsInv, EveryWaiterIsHeard
  <2>3. c \in Waiters  BY <2>2, ConnAssumption DEF Waiters
  <2> QED BY <1>2, <1>6, <2>1, <2>2, <2>3
<1> QED BY <1>7, <1>8, <1>9 DEF RequestsInv

\* A process that ends leaves nobody to wait (New, and the end after a wipe).
LEMMA EndsKeep == ASSUME TypeOK, Restart \/ EndsWiped PROVE RequestsInv'
<1>1. pending' = Nobody /\ done' = [c \in Call |-> <<>>]  BY DEF Restart, EndsWiped
<1>2. \A c \in Call : call'[c].at # "waiting"
  <2>1. \E at \in {"idle", "returned"} : call' = [c \in Call |-> [at |-> at, id |-> None]]
    BY DEF Restart, EndsWiped
  <2> QED BY <2>1
<1> QED BY <1>1, <1>2 DEF RequestsInv, WaitersWait, AnsweredWhenTaken, EveryWaiterIsHeard, Nobody

\* Every step keeps the requests.
LEMMA RequestsStep == ASSUME TypeOK, RequestsInv, Next PROVE RequestsInv'
<1>0. Err("refused") \in Result /\ Err("stopped") \in Result  BY ErrType
<1>1. ASSUME NEW o, Ended(o), UNCHANGED <<call, dead>> PROVE RequestsInv'
  <2>1. Give(Waiters, Err("stopped")) /\ pending' = Nobody  BY <1>1 DEF Ended, ForgetWaiters
  <2> QED BY <1>0, <1>1, <2>1, WaitersAreTold
<1>2. CASE SendStatus
  <2>1. UNCHANGED <<call, dead>>  BY <1>2 DEF SendStatus
  <2>2. \/ UNCHANGED <<pending, done>>
        \/ Give(Waiters, Err("refused")) /\ pending' = Nobody
    BY <1>2 DEF SendStatus, ForgetWaiters
  <2>3. CASE UNCHANGED <<pending, done>>  BY <2>1, <2>3, RequestsFrame
  <2>4. CASE Give(Waiters, Err("refused")) /\ pending' = Nobody  BY <1>0, <2>1, <2>4, WaitersAreTold
  <2> QED BY <2>2, <2>3, <2>4
<1>3. ASSUME NEW i \in owed, VaultAnswers(i) PROVE RequestsInv'  BY <1>3, RequestsFrame DEF VaultAnswers
<1>4. CASE VaultEvent \/ VaultUnlinks  BY <1>4, RequestsFrame DEF VaultEvent, VaultUnlinks
<1>5. ASSUME NEW c \in Call, ContextEnds(c) PROVE RequestsInv'  BY <1>5, RequestsFrame DEF ContextEnds
<1>6. CASE NoStatus \/ StatusDue \/ CollectNothing
  BY <1>6, RequestsFrame DEF NoStatus, StatusDue, CollectNothing
<1>7. ASSUME NEW B \in SUBSET mail, Persist(B) \/ PersistUnlinked(B) PROVE RequestsInv'
  BY <1>7, RequestsFrame DEF Persist, PersistUnlinked
<1>8. CASE Acknowledge  BY <1>8, RequestsFrame DEF Acknowledge
<1>9. CASE Check
  <2>1. UNCHANGED <<call, dead>>  BY <1>9 DEF Check
  <2>2. (\E o : Ended(o)) \/ UNCHANGED <<pending, done>>  BY <1>9 DEF Check
  <2> QED BY <1>1, <2>1, <2>2, RequestsFrame
<1>10. CASE Stop  BY <1>1, <1>10 DEF Stop
<1> QED
  BY <1>2, <1>3, <1>4, <1>5, <1>6, <1>7, <1>8, <1>9, <1>10, TakeCallKeeps, ReturnsKeeps, RequestKeeps, DispatchKeeps,
     EndsKeep, Steps

\* The inductive invariant of the requests (takeCalls, failPending, dispatch, request).
THEOREM RequestsInvariance == Spec => []RequestsInv
<1>1. Init => RequestsInv
  <2> SUFFICES ASSUME Init PROVE RequestsInv
    OBVIOUS
  <2>1. \A i \in Id : pending[i] = None  BY DEF Init
  <2>2. \A c \in Call : call[c].at = "idle" /\ done[c] = <<>>  BY DEF Init
  <2> QED BY <2>1, <2>2 DEF RequestsInv, WaitersWait, AnsweredWhenTaken, EveryWaiterIsHeard
<1>2. TypeOK /\ RequestsInv /\ [Next]_vars => RequestsInv'
  <2>1. UNCHANGED vars /\ RequestsInv => RequestsInv'  BY RequestsFrame
  <2> QED BY <2>1, RequestsStep
<1>3. IInv => TypeOK  BY DEF IInv
<1> QED BY <1>1, <1>2, <1>3, Invariance, PTL DEF Spec

\* Every request that waits, and whose context has not ended, is one Run will answer (call.done).
THEOREM WaitersAreHeard == Spec => []EveryWaiterIsHeard
<1>1. RequestsInv => EveryWaiterIsHeard  BY DEF RequestsInv
<1> QED BY <1>1, RequestsInvariance, PTL

\* No request is given a second result, so Run never blocks on a full buffer (call.done).
THEOREM OneResultEach == Spec => []OneResult
<1>1. TypeOK /\ RequestsInv => OneResult
  <2> SUFFICES ASSUME TypeOK, RequestsInv, NEW c \in Call
               PROVE  Len(done[c]) <= 1 /\ (c \in Waiters => done[c] = <<>>)
    BY DEF OneResult
  <2>1. done[c] = <<>> => Len(done[c]) = 0  OBVIOUS
  <2>2. done[c] # <<>> => Len(done[c]) = 1  BY DEF RequestsInv, AnsweredWhenTaken
  <2>3. Len(done[c]) = 0 \/ Len(done[c]) = 1  BY <2>1, <2>2
  <2>4. Len(done[c]) <= 1
    <3>1. 0 <= 1 /\ 1 <= 1  OBVIOUS
    <3> QED BY <2>3, <3>1, Zenon
  <2> QED BY <2>4, WaiterFacts
<1>2. IInv => TypeOK  BY DEF IInv
<1> QED BY <1>1, <1>2, Invariance, RequestsInvariance, PTL

\* An event is handed to OnEvent once in a process (persist drains only what was not applied before).
THEOREM EventsHandedOnce == Spec => []HandedOnce
<1> DEFINE Inv == HandedIsApplied /\ HandedOnce
<1>1. Init => Inv  BY DEF Init, HandedIsApplied, HandedOnce
<1>2. Inv /\ [Next]_vars => Inv'
  <2> SUFFICES ASSUME Inv, [Next]_vars PROVE Inv'
    OBVIOUS
  <2> USE DEF HandedIsApplied, HandedOnce
  <2>1. ASSUME UNCHANGED <<applied, drained, handed>> PROVE Inv'  BY <2>1
  <2>2. ASSUME NEW B \in SUBSET mail, Persist(B) \/ PersistUnlinked(B) PROVE Inv'
    <3>1. drained' = drained \cup (B \ applied) /\ applied' = applied \cup B /\ UNCHANGED handed
      BY <2>2 DEF Persist, PersistUnlinked, Collected
    <3> QED BY <3>1
  <2>3. CASE Dispatch
    <3>1. drained' = {} /\ UNCHANGED applied /\ handed' \subseteq handed \cup drained
      BY <2>3 DEF Dispatch, DrainedOnce
    <3> QED BY <3>1
  <2>4. CASE Restart
    <3>1. drained' = {} /\ handed' = {}  BY <2>4 DEF Restart
    <3> QED BY <3>1
  <2>5. ASSUME NEW i \in owed, VaultAnswers(i) PROVE Inv'  BY <2>1, <2>5 DEF VaultAnswers
  <2>6. ASSUME NEW c \in Call, ContextEnds(c) \/ Returns(c) \/ TakeCall(c) \/ \E i \in Id : Request(c, i)
        PROVE  Inv'
    BY <2>1, <2>6 DEF ContextEnds, Returns, TakeCall, Request
  <2>7. CASE VaultEvent \/ VaultUnlinks \/ SendStatus \/ NoStatus \/ StatusDue \/ CollectNothing
    BY <2>1, <2>7 DEF VaultEvent, VaultUnlinks, SendStatus, NoStatus, StatusDue, CollectNothing
  <2>8. CASE Acknowledge \/ Check \/ Stop \/ EndsWiped
    BY <2>1, <2>8 DEF Acknowledge, Check, Stop, EndsWiped
  <2>9. CASE UNCHANGED vars  BY <2>1, <2>9
  <2> QED BY <2>2, <2>3, <2>4, <2>5, <2>6, <2>7, <2>8, <2>9, Steps
<1> QED BY <1>1, <1>2, PTL DEF Spec

-----------------------------------------------------------------------------
(***************************************************************************)
(* The drain.                                                              *)
(***************************************************************************)

\* The mailbox holds finitely many of the messages sent so far.
MailCounted == IsFiniteSet(mail) /\ \A m \in mail : m.serial <= serial

Drain == MailCounted /\ DrainInv
Rounds == IF pc \in {"dispatch", "check"} /\ poll # "empty" THEN 1 ELSE 0

LEMMA EachRound ==
  EachRoundCounts <=> /\ pc = "ack" => batch # {} /\ batch \subseteq mail
                      /\ drains + Cardinality(mail) + Rounds <= serial + faults
BY DEF EachRoundCounts, Rounds

LEMMA CountTypes ==
  ASSUME TypeOK, MailCounted
  PROVE  /\ drains \in Nat /\ serial \in Nat /\ faults \in Nat /\ Cardinality(mail) \in Nat
         /\ Rounds \in 0..1 /\ DrainMaxCollect \in Nat
<1>1. serial \in Nat /\ faults \in Nat
  BY DEF TypeOK, RelayType
<1>2. drains \in Nat
  BY Zenon DEF TypeOK, RunType
<1>3. Cardinality(mail) \in Nat
  BY FS_CardinalityType DEF MailCounted
<1>4. Rounds \in 0..1
  BY DEF Rounds
<1>5. DrainMaxCollect \in Nat
  BY ConnAssumption
<1> QED
  BY <1>1, <1>2, <1>3, <1>4, <1>5

\* A message the vault sends is a new one, and device.unlinked is not one of them after the removal.
LEMMA SendsDrain ==
  ASSUME TypeOK, Drain, NEW type \in Types, NEW re \in Id \cup Nat \cup {None}, Deposit(type, re),
         type # "response" => ~removed,
         faults' \in Nat, faults <= faults', removed => removed',
         UNCHANGED <<pc, batch, poll, refused, drains, outcome>>
  PROVE  Drain'
<1> DEFINE m == [serial |-> serial + 1, type |-> type, re |-> re]
<1>1. mail' = mail \cup {m} /\ serial' = serial + 1 /\ serial \in Nat
  BY DEF Deposit, TypeOK, RelayType
<1>2. m.serial = serial + 1 /\ m.type = type
  OBVIOUS
<1> HIDE DEF m
<1>3. m \notin mail
  BY <1>1, <1>2 DEF Drain, MailCounted
<1>4. IsFiniteSet(mail') /\ Cardinality(mail') = Cardinality(mail) + 1
  BY <1>1, <1>3, FS_AddElement DEF Drain, MailCounted
<1>5. MailCounted'
  <2>1. \A n \in mail' : n.serial <= serial + 1
    <3>1. ASSUME NEW n \in mail PROVE n.serial <= serial + 1
      <4>1. n.serial \in Nat /\ n.serial <= serial
        BY DEF Drain, MailCounted, TypeOK, RelayType, Message
      <4> QED
        BY <1>1, <4>1
    <3> QED
      BY <1>1, <1>2, <3>1
  <2> QED
    BY <1>1, <1>4, <2>1 DEF MailCounted
<1>6. RefusedWhenRemoved'
  BY DEF Drain, DrainInv, RefusedWhenRemoved
<1>7. EachRoundCounts'
  <2>1. Rounds' = Rounds /\ drains' = drains
    BY DEF Rounds
  <2>2. drains + Cardinality(mail) + Rounds <= serial + faults
    BY EachRound DEF Drain, DrainInv
  <2>3. drains' + Cardinality(mail') + Rounds' <= serial' + faults'
    BY <1>1, <1>4, <2>1, <2>2, CountTypes DEF Drain
  <2>4. pc' = "ack" => batch' # {} /\ batch' \subseteq mail'
    BY <1>1 DEF Drain, DrainInv, EachRoundCounts
  <2> QED
    BY <2>3, <2>4 DEF EachRoundCounts, Rounds
<1>8. refused => Unlinked(mail') = Unlinked(mail)
  BY <1>1, <1>2 DEF Unlinked, Drain, DrainInv, RefusedWhenRemoved
<1>9. EmptyWhenDrained'
  BY <1>8 DEF Drain, DrainInv, EmptyWhenDrained, Unlinked
<1>10. DrainReadsUnlinked'
  <2> SUFFICES ASSUME outcome = "refused", faults' = 0, serial' <= DrainMaxCollect
               PROVE  ~Unlinked(mail')
    BY DEF DrainReadsUnlinked, Unlinked
  <2>1. faults = 0 /\ serial <= DrainMaxCollect
    BY <1>1, CountTypes DEF Drain
  <2> QED
    BY <1>8, <2>1 DEF Drain, DrainInv, DrainReadsUnlinked, RefusedWhenRemoved
<1> QED
  BY <1>5, <1>6, <1>7, <1>9, <1>10 DEF Drain, DrainInv

\* The acknowledgement takes a message of the batch from the mailbox, or fails.
LEMMA AckDrain == ASSUME TypeOK, Drain, Acknowledge PROVE Drain'
<1>1. /\ pc = "ack" /\ pc' = "dispatch" /\ UNCHANGED <<serial, removed, refused, drains, outcome>>
      /\ poll' \in {poll, "failed"}
      /\ \/ mail' = mail \ batch /\ UNCHANGED faults
         \/ mail' = mail /\ faults' = faults + 1
  BY DEF Acknowledge, AckBatch, Fault
<1>2. mail' \subseteq mail
  BY <1>1
<1>3. MailCounted' /\ Cardinality(mail') <= Cardinality(mail)
  BY <1>1, <1>2, FS_Subset DEF Drain, MailCounted
<1>4. mail' = mail \ batch => Cardinality(mail') + 1 <= Cardinality(mail)
  <2> SUFFICES ASSUME mail' = mail \ batch PROVE Cardinality(mail') + 1 <= Cardinality(mail)
    OBVIOUS
  <2>1. PICK b \in batch : b \in mail
    BY <1>1 DEF Drain, DrainInv, EachRoundCounts
  <2>2. IsFiniteSet(mail \ {b}) /\ Cardinality(mail \ {b}) = Cardinality(mail) - 1
    BY <2>1, FS_RemoveElement DEF Drain, MailCounted
  <2>3. Cardinality(mail') <= Cardinality(mail \ {b})
    <3>1. mail' \in SUBSET (mail \ {b})
      OBVIOUS
    <3> QED
      BY <2>2, <3>1, FS_Subset
  <2>4. Cardinality(mail') \in Nat /\ Cardinality(mail) \in Nat
    BY <1>3, FS_CardinalityType DEF Drain, MailCounted
  <2> QED
    BY <2>2, <2>3, <2>4
<1>5. EachRoundCounts'
  <2>1. drains + Cardinality(mail) <= serial + faults
    <3>1. Rounds = 0
      BY <1>1 DEF Rounds
    <3> QED
      BY <3>1, EachRound, CountTypes DEF Drain, DrainInv
  <2>2. Rounds' <= 1 /\ Rounds' \in Nat /\ Cardinality(mail') \in Nat
    BY <1>3, FS_CardinalityType DEF Rounds, MailCounted
  <2>3. drains' + Cardinality(mail') + Rounds' <= serial' + faults'
    BY <1>1, <1>3, <1>4, <2>1, <2>2, CountTypes DEF Drain
  <2> QED
    BY <1>1, <2>3 DEF EachRoundCounts, Rounds
<1>6. Unlinked(mail') => Unlinked(mail)
  BY <1>2 DEF Unlinked
<1>7. RefusedWhenRemoved' /\ EmptyWhenDrained'
  BY <1>1 DEF Drain, DrainInv, RefusedWhenRemoved, EmptyWhenDrained
<1>8. DrainReadsUnlinked'
  <2>1. faults' = 0 => faults = 0
    BY <1>1, CountTypes DEF Drain
  <2>2. DrainReadsUnlinked' <=> (outcome' = "refused" /\ faults' = 0 /\ serial' <= DrainMaxCollect => ~Unlinked(mail'))
    BY DEF DrainReadsUnlinked, Unlinked
  <2> QED
    BY <1>1, <1>6, <2>1, <2>2 DEF Drain, DrainInv, DrainReadsUnlinked
<1> QED
  BY <1>3, <1>5, <1>7, <1>8 DEF Drain, DrainInv

\* The end of a round: Run goes on, and has counted it if refused, or has read device.unlinked.
LEMMA CheckDrain == ASSUME TypeOK, Drain, Check PROVE Drain'
<1>1. pc = "check" /\ UNCHANGED <<mail, serial, removed, refused, batch, poll>> /\ pc' \in {"top", "ended"}
  BY DEF Check, Ended
<1>2. faults' \in Nat /\ (faults' = faults \/ faults' = faults + 1)
  BY CountTypes DEF Drain, Check, Fault
<1>3. \/ drains' = drains
      \/ drains' = drains + 1 /\ refused /\ poll # "empty"
  BY DEF Check, Drained
<1>4. MailCounted'
  BY <1>1 DEF Drain, MailCounted
<1>5. drains + Cardinality(mail) + Rounds <= serial + faults
  BY EachRound DEF Drain, DrainInv
<1>6. poll # "empty" => Rounds = 1
  BY <1>1 DEF Rounds
<1>7. EachRoundCounts'
  <2>1. Rounds' = 0
    BY <1>1 DEF Rounds
  <2>2. drains' + Cardinality(mail') + Rounds' <= serial' + faults'
    BY <1>1, <1>2, <1>3, <1>5, <1>6, <2>1, CountTypes DEF Drain
  <2> QED
    BY <1>1, <2>2 DEF EachRoundCounts, Rounds
<1>8. outcome' = "refused" => outcome = "refused" \/ (refused /\ (Drained \/ faults' # 0))
  BY CountTypes DEF Drain, Check, Ended, Fault
<1>9. RefusedWhenRemoved' /\ EmptyWhenDrained'
  BY <1>1, <1>8 DEF Drain, DrainInv, RefusedWhenRemoved, EmptyWhenDrained
<1>10. DrainReadsUnlinked'
  <2> SUFFICES ASSUME outcome' = "refused", faults' = 0, serial' <= DrainMaxCollect
               PROVE  ~Unlinked(mail)
    BY <1>1 DEF DrainReadsUnlinked, Unlinked
  <2>1. faults = 0
    BY <1>2, CountTypes DEF Drain
  <2>2. CASE outcome = "refused"
    BY <1>1, <2>1, <2>2 DEF Drain, DrainInv, DrainReadsUnlinked
  <2>3. CASE refused /\ poll = "empty"
    BY <1>1, <2>3 DEF Drain, DrainInv, EmptyWhenDrained
  <2>4. CASE poll # "empty" /\ drains + 1 >= DrainMaxCollect
    <3>1. Cardinality(mail) = 0
      BY <1>1, <1>5, <1>6, <2>1, <2>4, CountTypes DEF Drain
    <3>2. mail = {}
      BY <3>1, FS_EmptySet DEF Drain, MailCounted
    <3> QED
      BY <3>2 DEF Unlinked
  <2> QED
    BY <1>8, <2>2, <2>3, <2>4 DEF Drained
<1> QED
  BY <1>4, <1>7, <1>9, <1>10 DEF Drain, DrainInv

\* A step that leaves the mailbox alone, and is in no round's end.
LEMMA OthersDrain ==
  ASSUME TypeOK, Drain, UNCHANGED <<mail, serial, removed>>, faults' \in Nat, faults <= faults',
         drains' \in {0, drains}, Rounds' \in {0, Rounds} \/ Rounds' + faults <= Rounds + faults',
         pc' = "ack" => (UNCHANGED <<pc, batch>>) \/ (batch' # {} /\ batch' \subseteq mail),
         outcome' = "refused" => outcome = "refused" /\ refused',
         refused' => refused \/ removed,
         pc' \in {"ack", "dispatch"} => poll' # "empty" \/ UNCHANGED <<pc, poll>>,
         pc' = "check" /\ refused' /\ poll' = "empty" => (refused /\ UNCHANGED <<pc, poll>>) \/ mail = {}
  PROVE  Drain'
<1>1. MailCounted'
  BY DEF Drain, MailCounted
<1>2. RefusedWhenRemoved'
  BY DEF Drain, DrainInv, RefusedWhenRemoved
<1>3. EachRoundCounts'
  <2>1. drains + Cardinality(mail) + Rounds <= serial + faults
    BY EachRound DEF Drain, DrainInv
  <2>2. Rounds' \in 0..1
    BY DEF Rounds
  <2>3. drains' + Cardinality(mail') + Rounds' <= serial' + faults'
    BY <2>1, <2>2, CountTypes DEF Drain
  <2>4. pc' = "ack" => batch' # {} /\ batch' \subseteq mail'
    BY DEF Drain, DrainInv, EachRoundCounts
  <2> QED
    BY <2>3, <2>4 DEF EachRoundCounts, Rounds
<1>4. EmptyWhenDrained'
  BY DEF Drain, DrainInv, EmptyWhenDrained, Unlinked
<1>5. DrainReadsUnlinked'
  <2>1. faults' = 0 => faults = 0
    BY CountTypes DEF Drain
  <2> QED
    BY <2>1 DEF Drain, DrainInv, DrainReadsUnlinked, Unlinked
<1> QED
  BY <1>1, <1>2, <1>3, <1>4, <1>5 DEF Drain, DrainInv

LEMMA DrainStep == ASSUME TypeOK, Drain, [Next]_vars PROVE Drain'
<1>0. faults \in Nat /\ drains \in Nat
  BY CountTypes DEF Drain
<1>1. ASSUME NEW i \in owed, VaultAnswers(i) PROVE Drain'
  <2>1. Deposit("response", i) /\ i \in Id \cup Nat
    BY <1>1 DEF VaultAnswers, TypeOK, RelayType
  <2>2. UNCHANGED <<removed, pc, batch, poll, refused, drains, outcome>> /\ faults' \in {faults, faults + 1}
    BY <1>1 DEF VaultAnswers, Fault
  <2> QED
    BY <1>0, <2>1, <2>2, SendsDrain DEF Types
<1>2. CASE VaultEvent
  <2>1. Deposit("event", None) /\ ~removed /\ UNCHANGED <<removed, faults, pc, batch, poll, refused, drains, outcome>>
    BY <1>2 DEF VaultEvent
  <2> QED
    BY <1>0, <2>1, SendsDrain DEF Types
<1>3. CASE VaultUnlinks
  <2>1. Deposit("device.unlinked", None) /\ ~removed /\ removed'
        /\ UNCHANGED <<faults, pc, batch, poll, refused, drains, outcome>>
    BY <1>3 DEF VaultUnlinks
  <2> QED
    BY <1>0, <2>1, SendsDrain DEF Types
<1>4. ASSUME NEW c \in Call, ContextEnds(c) \/ Returns(c) \/ \E i \in Id : Request(c, i) PROVE Drain'
  <2>1. /\ UNCHANGED <<mail, serial, removed, pc, batch, poll, refused, drains, outcome>>
        /\ faults' \in {faults, faults + 1}
    BY <1>4 DEF ContextEnds, Returns, Request, Fault
  <2>2. Rounds' = Rounds
    BY <2>1 DEF Rounds
  <2> QED
    BY <1>0, <2>1, <2>2, OthersDrain DEF Drain, DrainInv, RefusedWhenRemoved
<1>5. CASE SendStatus \/ NoStatus
  <2>1. /\ UNCHANGED <<mail, serial, removed, batch, poll, drains, outcome>> /\ pc' = "send"
        /\ faults' \in {faults, faults + 1}
    BY <1>5 DEF SendStatus, NoStatus, SendsOk, SendFails, TokenRevoked, Fault
  <2>2. UNCHANGED refused \/ (removed /\ refused' = TRUE)
    BY <1>5 DEF SendStatus, NoStatus, SendFails, TokenRevoked
  <2>3. Rounds' = 0
    BY <2>1 DEF Rounds
  <2> QED
    BY <1>0, <2>1, <2>2, <2>3, OthersDrain DEF Drain, DrainInv, RefusedWhenRemoved
<1>6. ASSUME NEW c \in Call, TakeCall(c) PROVE Drain'
  <2>1. /\ UNCHANGED <<mail, serial, removed, pc, batch, poll, drains, outcome>> /\ pc = "send"
        /\ faults' \in {faults, faults + 1}
    BY <1>6 DEF TakeCall, SendsOk, SendFails, TokenRevoked, Fault
  <2>2. UNCHANGED refused \/ (removed /\ refused' = TRUE)
    BY <1>6 DEF TakeCall, SendFails, TokenRevoked
  <2>3. Rounds' = 0
    BY <2>1 DEF Rounds
  <2> QED
    BY <1>0, <2>1, <2>2, <2>3, OthersDrain DEF Drain, DrainInv, RefusedWhenRemoved
<1>7. CASE StatusDue \/ UNCHANGED vars
  <2>1. UNCHANGED <<mail, serial, removed, pc, batch, poll, drains, outcome, refused, faults>>
    BY <1>7 DEF StatusDue
  <2>2. Rounds' = Rounds
    BY <2>1 DEF Rounds
  <2> QED
    BY <1>0, <2>1, <2>2, OthersDrain DEF Drain, DrainInv, RefusedWhenRemoved
<1>8. CASE CollectNothing
  <2>1. /\ UNCHANGED <<mail, serial, removed, batch, drains, outcome, refused>> /\ pc = "send" /\ pc' = "check"
        /\ \/ mail = {} /\ poll' = "empty" /\ UNCHANGED faults
           \/ poll' = "failed" /\ faults' = faults + 1
    BY <1>8 DEF CollectNothing, Collects, Fault
  <2>2. Rounds' + faults <= Rounds + faults'
    BY <1>0, <2>1 DEF Rounds
  <2> QED
    BY <1>0, <2>1, <2>2, OthersDrain DEF Drain, DrainInv, RefusedWhenRemoved
<1>9. ASSUME NEW B \in SUBSET mail, Persist(B) \/ PersistUnlinked(B) PROVE Drain'
  <2>1. /\ UNCHANGED <<mail, serial, removed, drains, outcome, refused>> /\ pc = "send"
        /\ batch' = B /\ B # {} /\ pc' \in {"ack", "dispatch"} /\ poll' # "empty"
    BY <1>9 DEF Persist, PersistUnlinked, Collected, Collects, LeaveUnacked
  <2>2. \/ pc' = "ack" /\ UNCHANGED faults
        \/ pc' = "dispatch" /\ faults' = faults + 1
    BY <1>9 DEF Persist, PersistUnlinked, LeaveUnacked, Fault
  <2>3. Rounds' + faults <= Rounds + faults'
    BY <1>0, <2>1, <2>2 DEF Rounds
  <2> QED
    BY <1>0, <2>1, <2>2, <2>3, OthersDrain DEF Drain, DrainInv, RefusedWhenRemoved
<1>10. CASE Dispatch
  <2>1. /\ UNCHANGED <<mail, serial, removed, drains, outcome, refused, poll, faults>> /\ pc = "dispatch" /\ pc' = "check"
    BY <1>10 DEF Dispatch
  <2>2. Rounds' = Rounds
    BY <2>1 DEF Rounds
  <2>3. poll # "empty"
    BY <2>1 DEF Drain, DrainInv, EmptyWhenDrained
  <2> QED
    BY <1>0, <2>1, <2>2, <2>3, OthersDrain DEF Drain, DrainInv, RefusedWhenRemoved
<1>11. CASE Stop \/ EndsWiped
  <2>1. /\ UNCHANGED <<mail, serial, removed, drains, refused, poll, batch>> /\ pc' = "ended" /\ outcome' = "stopped"
        /\ faults' = faults + 1
    BY <1>11 DEF Stop, Ended, EndsWiped, Fault
  <2>2. Rounds' = 0
    BY <2>1 DEF Rounds
  <2> QED
    BY <1>0, <2>1, <2>2, OthersDrain DEF Drain, DrainInv, RefusedWhenRemoved
<1>12. CASE Restart
  <2>1. /\ UNCHANGED <<mail, serial, removed>> /\ drains' = 0 /\ refused' = FALSE /\ pc' = "top"
        /\ faults' = faults + 1
    BY <1>12, Zenon DEF Restart, Fault
  <2>0. outcome' # "refused"
    BY <1>12, Zenon DEF Restart
  <2>2. Rounds' = 0
    BY <2>1 DEF Rounds
  <2> QED
    BY <1>0, <2>0, <2>1, <2>2, OthersDrain DEF Drain, DrainInv, RefusedWhenRemoved
<1> QED
  BY <1>1, <1>2, <1>3, <1>4, <1>5, <1>6, <1>7, <1>8, <1>9, <1>10, <1>11, <1>12, AckDrain, CheckDrain, Steps

\* Run does not return ErrRefused before it has read the device.unlinked that waits in the mailbox, unless
\* there were more messages than drainMaxCollect collects or something failed (Run).
THEOREM RefusedHasReadUnlinked == Spec => []DrainReadsUnlinked
<1>1. Init => Drain
  <2> SUFFICES ASSUME Init PROVE Drain
    OBVIOUS
  <2>1. mail = {} /\ serial = 0 /\ faults = 0 /\ drains = 0 /\ pc = "top" /\ ~refused
    BY Zenon DEF Init
  <2>4. outcome # "refused"
    BY Zenon DEF Init
  <2>2. Cardinality(mail) = 0 /\ IsFiniteSet(mail)
    BY <2>1, FS_EmptySet
  <2>3. EachRoundCounts
    BY <2>1, <2>2 DEF EachRoundCounts
  <2> QED
    BY <2>1, <2>2, <2>3, <2>4 DEF Drain, MailCounted, DrainInv, RefusedWhenRemoved, EmptyWhenDrained,
                            DrainReadsUnlinked
<1>2. TypeOK /\ Drain /\ [Next]_vars => Drain'
  BY DrainStep
<1>3. IInv => TypeOK
  BY DEF IInv
<1>4. Drain => DrainReadsUnlinked
  BY DEF Drain, DrainInv
<1> QED
  BY <1>1, <1>2, <1>3, <1>4, Invariance, PTL DEF Spec

-----------------------------------------------------------------------------
(***************************************************************************)
(* Conn implements DurableMailbox.                                         *)
(***************************************************************************)

mapped == <<mail, saved, wiped>>

\* The three variables DurableMailbox speaks of change only in these steps.
LEMMA StepMaps == ASSUME IInv, Next PROVE Mailbox!Next \/ UNCHANGED mapped
<1> USE DEF mapped
<1>1. ASSUME NEW type \in Types, NEW re \in Id \cup Nat \cup {None}, Deposit(type, re), UNCHANGED file
      PROVE  Mailbox!Next \/ UNCHANGED mapped
  <2> DEFINE m == [serial |-> serial + 1, type |-> type, re |-> re]
  <2>1. m \in Message  BY DEF Message, IInv, TypeOK, RelayType
  <2>2. mail' = mail \cup {m}  BY <1>1 DEF Deposit
  <2>3. CASE m \in mail  BY <1>1, <2>2, <2>3
  <2>4. CASE m \notin mail
    <3>1. m \in mail' \ mail  BY <2>2, <2>4
    <3> HIDE DEF m
    <3>2. Mailbox!Deliver  BY <1>1, <2>1, <2>2, <3>1 DEF Mailbox!Deliver
    <3> QED BY <3>2 DEF Mailbox!Next
  <2> QED BY <2>3, <2>4
<1>2. ASSUME NEW B \in SUBSET mail, Persist(B) PROVE Mailbox!Next \/ UNCHANGED mapped
  <2>1. ~wiped /\ UNCHANGED <<mail, wiped>>  BY <1>2 DEF Persist, Collected, Collects, IInv, WipedEnds
  <2>2. saved' \in {saved, applied \cup B}  BY <1>2 DEF Persist
  <2>3. \E S \in SUBSET mail : saved' = saved \cup S
    <3>1. saved \subseteq applied /\ applied \subseteq mail \cup saved  BY <2>1 DEF IInv, AppliedIsKept
    <3>2. CASE saved' = applied \cup B
      <4>1. saved' = saved \cup ((applied \ saved) \cup B)  BY <3>1, <3>2
      <4>2. (applied \ saved) \cup B \in SUBSET mail  BY <3>1
      <4> QED BY <4>1, <4>2
    <3>3. CASE saved' = saved
      <4>1. {} \in SUBSET mail /\ saved' = saved \cup {}  BY <3>3
      <4> QED BY <4>1
    <3> QED BY <2>2, <3>2, <3>3
  <2> QED BY <2>1, <2>3 DEF Mailbox!Next, Mailbox!Save
<1>3. ASSUME NEW B \in SUBSET mail, PersistUnlinked(B) PROVE Mailbox!Next \/ UNCHANGED mapped
  <2>1. UNCHANGED <<mail, saved>> /\ wiped' \in BOOLEAN /\ ~wiped
    BY <1>3 DEF PersistUnlinked, WipeFirst, Collected, Collects, IInv, WipedEnds
  <2>2. \E m \in mail : m \in Message /\ m.type = "device.unlinked"
    BY <1>3 DEF PersistUnlinked, Unlinked, IInv, TypeOK, RelayType
  <2>3. CASE wiped' = TRUE  BY <2>1, <2>2, <2>3 DEF Mailbox!Next, Mailbox!Wipe
  <2>4. CASE wiped' = FALSE  BY <2>1, <2>4 DEF IInv, TypeOK, FileType
  <2> QED BY <2>1, <2>3, <2>4
<1>4. CASE Acknowledge
  <2>1. UNCHANGED file /\ (wiped \/ batch \subseteq saved)  BY <1>4 DEF Acknowledge, IInv, AckedIsSaved
  <2>2. mail' \in {mail, mail \ batch}  BY <1>4 DEF Acknowledge, AckBatch
  <2>3. mail \ batch = mail \ (mail \cap batch) /\ mail \cap batch \in SUBSET mail  OBVIOUS
  <2> QED BY <2>1, <2>2, <2>3 DEF Mailbox!Next, Mailbox!Drop
<1>5. ASSUME NEW i \in owed, VaultAnswers(i) PROVE Mailbox!Next \/ UNCHANGED mapped
  BY <1>1, <1>5 DEF VaultAnswers, Types, IInv, TypeOK, RelayType
<1>6. CASE VaultEvent \/ VaultUnlinks
  BY <1>1, <1>6 DEF VaultEvent, VaultUnlinks, Types
<1>7. ASSUME NEW c \in Call, ContextEnds(c) \/ Returns(c) \/ TakeCall(c) \/ \E i \in Id : Request(c, i)
      PROVE  UNCHANGED mapped
  BY <1>7 DEF ContextEnds, Returns, TakeCall, Request
<1>8. CASE SendStatus \/ NoStatus \/ StatusDue \/ CollectNothing
  BY <1>8 DEF SendStatus, NoStatus, StatusDue, CollectNothing
<1>9. CASE Dispatch \/ Check \/ Stop \/ Restart \/ EndsWiped
  BY <1>9 DEF Dispatch, Check, Stop, Restart, EndsWiped
<1> QED  BY <1>2, <1>3, <1>4, <1>5, <1>6, <1>7, <1>8, <1>9, Steps

\* Conn keeps the mailbox as DurableMailbox promises: nothing is acknowledged before it is in the state
\* file, nothing saved after a wipe, nothing wiped without a device.unlinked (persist).
THEOREM MailboxIsDurable == Spec => KeepsMail
<1>1. Init => Mailbox!Init  BY DEF Init, Mailbox!Init
<1>2. IInv /\ [Next]_vars => [Mailbox!Next]_<<mail, saved, wiped>>
  BY StepMaps DEF mapped
<1> QED  BY <1>1, <1>2, Invariance, PTL DEF Spec, KeepsMail, Mailbox!Spec
=============================================================================
