--------------------------- MODULE McpServerProofs ---------------------------
(***************************************************************************)
(* McpServer: IInv is kept by every step, for any calls and ids, any       *)
(* number of slots, burst and rate.                                        *)
(***************************************************************************)
EXTENDS McpServer, FiniteSetTheorems, TLAPS

USE McpAssumption DEF vars, bucket, client, session, history

-----------------------------------------------------------------------------
(***************************************************************************)
(* Which steps change what.                                                *)
(***************************************************************************)

CallState == <<pc, calls, canceled, slots, told, answers, failed>>
BucketState == <<tokens, last, now, passed>>

\* Calls change when one is taken, goes on, is cancelled, or a write ends.
LEMMA CallSteps ==
  ASSUME [Next]_vars
  PROVE  \/ UNCHANGED CallState
         \/ \E i \in Id : Cancelled(i)
         \/ \E c \in Call : TakeCall(c) \/ ToolEnds(c) \/ Leaves(c) \/ Frees(c)
         \/ \E w \in Writer : Written(w) \/ WriteFails(w)
  BY DEF Next, Outside, Inside, Goroutine, CallState, Closes, Tick, Other, Initialize, Signal, ConnEnds,
         ConnStops, Starts, SessionEnds, Served, StopWaitEnds, Exits, LockOut, TakesOther, Takes

\* The bucket changes with time and when a call is taken.
LEMMA BucketSteps ==
  ASSUME [Next]_vars
  PROVE  UNCHANGED BucketState \/ Tick \/ \E c \in Call : TakeCall(c)
  BY DEF Next, Outside, Inside, Goroutine, BucketState, Closes, Other, Initialize, Signal, ConnEnds,
         ConnStops, Starts, SessionEnds, Served, StopWaitEnds, Exits, LockOut, TakesOther, Takes,
         Cancelled, ToolEnds, Leaves, Frees, Written, WriteFails

\* What a taken call becomes: refused, or running under its id and with a slot.
LEMMA TakenCall ==
  ASSUME NEW c \in Call, TakeCall(c)
  PROVE  /\ pc[c] = "unsent" /\ UNCHANGED <<canceled, told, answers, failed, wmu, main, over>>
         /\ loop = "select"
         /\ \/ /\ pc' = [pc EXCEPT ![c] = "refused"] /\ UNCHANGED <<calls, slots>>
               /\ loop' = "answering" /\ due' = c
            \/ /\ pc' = [pc EXCEPT ![c] = "running"]
               /\ calls[IdOf[c]] = None /\ calls' = [calls EXCEPT ![IdOf[c]] = c]
               /\ slots' = slots \cup {c} /\ ~Full
               /\ UNCHANGED <<loop, due>>
<1>1. pc[c] = "unsent" /\ UNCHANGED <<canceled, told, answers, failed, wmu, main, over>> /\ loop = "select"
  BY DEF TakeCall, Takes
<1>2. CASE Refuses(c)
  BY <1>1, <1>2 DEF Refuses, LoopWrites
<1>3. CASE ~InUse(c) /\ ~Full /\ StartsCall(c)
  BY <1>1, <1>3 DEF StartsCall, InUse
<1> QED BY <1>2, <1>3 DEF TakeCall

-----------------------------------------------------------------------------
(***************************************************************************)
(* Types.                                                                  *)
(***************************************************************************)

\* A step keeps the flags Boolean.
LEMMA FlagsStay == ASSUME Flags, [Next]_vars PROVE Flags'
  BY Zenon DEF Flags, Next, Outside, Inside, Goroutine, Closes, Tick, Other, Initialize, Signal, ConnEnds,
         ConnStops, Starts, SessionEnds, Served, StopWaitEnds, Exits, LockOut, TakeCall,
         Cancelled, ToolEnds, Leaves, Frees, Written, WriteFails

\* What a step makes of the calls are calls' states.
LEMMA CallTypesStay ==
  ASSUME CallTypes, LoopTypes, [Next]_vars
  PROVE  CallTypes'
<1> USE DEF CallTypes, PcType
<1>1. CASE UNCHANGED CallState
  BY <1>1 DEF CallState
<1>2. ASSUME NEW i \in Id, Cancelled(i) PROVE CallTypes'
  BY <1>2 DEF Cancelled
<1>3. ASSUME NEW c \in Call, TakeCall(c) PROVE CallTypes'
  BY <1>3, TakenCall
<1>4. ASSUME NEW c \in Call, ToolEnds(c) \/ Leaves(c) \/ Frees(c) PROVE CallTypes'
  BY <1>4 DEF ToolEnds, Leaves, Frees, session
<1>5. ASSUME NEW w \in Writer, Written(w) \/ WriteFails(w) PROVE CallTypes'
  <2>1. pc' \in [Call -> PcType]
    BY <1>5 DEF Written, WriteFails, Returns, Writer
  <2>2. answers' \in [Call -> Nat] /\ failed' \in [Call -> Nat]
    BY <1>5 DEF Written, WriteFails, OneMore
  <2> QED BY <1>5, <2>1, <2>2 DEF Written, WriteFails
<1> QED BY <1>1, <1>2, <1>3, <1>4, <1>5, CallSteps

\* Time and tokens are numbers.
LEMMA BucketTypesStay ==
  ASSUME BucketTypes, last <= now, [Next]_vars
  PROVE  BucketTypes'
<1> USE DEF BucketTypes
<1>1. CASE UNCHANGED BucketState
  BY <1>1 DEF BucketState
<1>2. CASE Tick
  BY <1>2 DEF Tick
<1>3. ASSUME NEW c \in Call, TakeCall(c) PROVE BucketTypes'
  <2>1. Filled \in Nat
    BY DEF Filled
  <2> QED BY <1>3, <2>1 DEF TakeCall
<1> QED BY <1>1, <1>2, <1>3, BucketSteps

\* Where the loop, the writer and the command may be.
LEMMA LoopTypesStay ==
  ASSUME LoopTypes, [Next]_vars
  PROVE  LoopTypes'
<1> USE DEF LoopTypes
<1>1. CASE Closes \/ Tick \/ Other \/ Initialize \/ Signal \/ ConnEnds
  BY <1>1 DEF Closes, Tick, Other, Initialize, Signal, ConnEnds, TakesOther, Takes, LoopWrites
<1>2. ASSUME NEW i \in Id, Cancelled(i) PROVE LoopTypes'
  BY <1>2 DEF Cancelled, TakesOther, Takes
<1>3. ASSUME NEW c \in Call, TakeCall(c) PROVE LoopTypes'
  BY <1>3, TakenCall DEF TakeCall, Takes
<1>4. ASSUME NEW w \in Writer, Written(w) \/ WriteFails(w) PROVE LoopTypes'
  BY <1>4 DEF Written, WriteFails, Returns
<1>5. CASE Starts \/ SessionEnds \/ Served \/ StopWaitEnds \/ Exits
  BY <1>5 DEF Starts, SessionEnds, Served, StopWaitEnds, Exits
<1>6. ASSUME NEW c \in Call, ToolEnds(c) \/ Leaves(c) \/ Frees(c) PROVE LoopTypes'
  BY <1>6 DEF ToolEnds, Leaves, Frees
<1>7. ASSUME NEW w \in Writer, LockOut(w) PROVE LoopTypes'
  BY <1>7 DEF LockOut, Writer
<1>8. CASE UNCHANGED vars
  BY <1>8
<1> QED BY <1>1, <1>2, <1>3, <1>4, <1>5, <1>6, <1>7, <1>8 DEF Next, Outside, Inside, Goroutine, ConnStops

-----------------------------------------------------------------------------
(***************************************************************************)
(* Calls, their ids, slots and answers.                                    *)
(***************************************************************************)

\* A session that is over stays so: the loop does not return to select, and the context ends once.
LEMMA OverStays ==
  ASSUME SessionOver, WriterWrites, [Next]_vars
  PROVE  SessionOver'
<1> USE DEF SessionOver
<1>1. CASE over
  BY <1>1 DEF Next, Outside, Inside, Goroutine, Closes, Tick, Other, Initialize, Signal, ConnEnds,
         ConnStops, Starts, SessionEnds, Served, StopWaitEnds, Exits, LockOut, TakeCall, TakesOther, Takes,
         Cancelled, ToolEnds, Leaves, Frees, Written, WriteFails
<1>2. CASE loop \in {"ending", "served"}
  <2>1. wmu # Loop
    BY <1>2 DEF WriterWrites, WantsToWrite
  <2> QED
    BY <1>2, <2>1 DEF Next, Outside, Inside, Goroutine, Closes, Tick, Other, Initialize, Signal, ConnEnds,
         ConnStops, Starts, SessionEnds, Served, StopWaitEnds, Exits, LockOut, TakeCall, TakesOther, Takes,
         Cancelled, ToolEnds, Leaves, Frees, Written, WriteFails, Returns
<1> QED BY <1>1, <1>2

\* What the end of a write makes of the calls: the writer's call leaves, or the call that the loop refused is done.
LEMMA EndOfWrite ==
  ASSUME NEW w \in Writer, Written(w) \/ WriteFails(w), LoopTypes, CallTypes, WriterWrites
  PROVE  /\ UNCHANGED <<calls, canceled, slots, told, main, over>> /\ wmu = w /\ wmu' = None
         /\ \/ /\ w \in Call /\ pc[w] = "answering" /\ pc' = [pc EXCEPT ![w] = "leaving"]
               /\ UNCHANGED <<loop, due>>
            \/ /\ w = Loop /\ loop = "answering" /\ loop' = "select" /\ due' = None
               /\ \/ due = None /\ pc' = pc
                  \/ due \in Call /\ pc[due] = "refused" /\ pc' = [pc EXCEPT ![due] = "done"]
<1>1. UNCHANGED <<calls, canceled, slots, told, main, over>> /\ wmu = w /\ wmu' = None /\ Returns(w)
  BY DEF Written, WriteFails
<1>2. WantsToWrite(w)
  BY <1>1 DEF WriterWrites, Writer
<1>3. CASE w = Loop
  <2>1. loop = "answering" /\ loop' = "select" /\ due' = None /\ pc' = [c \in Call |-> IF c = due THEN "done" ELSE pc[c]]
    BY <1>1, <1>2, <1>3 DEF Returns, WantsToWrite
  <2>2. CASE due = None
    <3>1. pc' = pc
      BY <2>1, <2>2 DEF CallTypes
    <3> QED BY <1>1, <1>3, <2>1, <2>2, <3>1
  <2>3. CASE due \in Call
    <3>1. pc' = [pc EXCEPT ![due] = "done"]
      BY <2>1, <2>3 DEF CallTypes
    <3> QED BY <1>1, <1>3, <2>1, <2>3, <3>1 DEF WriterWrites
  <2> QED BY <2>2, <2>3 DEF LoopTypes
<1>4. CASE w # Loop
  BY <1>1, <1>2, <1>4 DEF Returns, WantsToWrite, Writer
<1> QED BY <1>3, <1>4

\* A call that starts finds its id free; one that leaves frees its own.
LEMMA IdsStay ==
  ASSUME KnownById, CallTypes, LoopTypes, WriterWrites, [Next]_vars
  PROVE  KnownById'
<1> USE DEF KnownById, CallTypes, PcType
<1>1. CASE UNCHANGED CallState
  BY <1>1 DEF CallState
<1>2. ASSUME NEW i \in Id, Cancelled(i) PROVE KnownById'
  BY <1>2 DEF Cancelled
<1>3. ASSUME NEW c \in Call, TakeCall(c) PROVE KnownById'
  BY <1>3, TakenCall
<1>4. ASSUME NEW c \in Call, ToolEnds(c) \/ Frees(c) PROVE KnownById'
  BY <1>4 DEF ToolEnds, Frees, session
<1>5. ASSUME NEW c \in Call, Leaves(c) PROVE KnownById'
  BY <1>5 DEF Leaves
<1>6. ASSUME NEW w \in Writer, Written(w) \/ WriteFails(w) PROVE KnownById'
  BY <1>6, EndOfWrite
<1> QED BY <1>1, <1>2, <1>3, <1>4, <1>5, <1>6, CallSteps

\* A call takes a slot when it starts, if there is one, and gives it up when it has left.
LEMMA SlotsStay ==
  ASSUME HeldByCalls, CallTypes, LoopTypes, WriterWrites, [Next]_vars
  PROVE  HeldByCalls'
<1> USE DEF HeldByCalls, InProgress, CallTypes, PcType
<1>1. CASE UNCHANGED CallState
  BY <1>1 DEF CallState
<1>2. ASSUME NEW i \in Id, Cancelled(i) PROVE HeldByCalls'
  BY <1>2 DEF Cancelled
<1>3. ASSUME NEW c \in Call, TakeCall(c) PROVE HeldByCalls'
  <2>1. CASE pc' = [pc EXCEPT ![c] = "refused"] /\ UNCHANGED slots
    <3>1. InProgress' = InProgress
      BY <1>3, <2>1, TakenCall
    <3> QED BY <2>1, <3>1
  <2>2. CASE pc' = [pc EXCEPT ![c] = "running"] /\ slots' = slots \cup {c} /\ ~Full
    <3>1. InProgress' = slots'
      BY <2>2
    <3>2. IsFiniteSet(slots') /\ Cardinality(slots) \in Nat /\ Cardinality(slots') <= Cardinality(slots) + 1
      <4>1. IsFiniteSet(slots') /\ Cardinality(slots') = (IF c \in slots THEN Cardinality(slots) ELSE Cardinality(slots) + 1)
        BY <2>2, FS_AddElement
      <4>2. Cardinality(slots) \in Nat
        BY FS_CardinalityType
      <4> QED BY <4>1, <4>2
    <3>3. Cardinality(slots') \in Nat
      BY <3>2, FS_CardinalityType
    <3>4. Cardinality(slots') <= MaxInFlight
      BY <2>2, <3>2, <3>3 DEF Full
    <3> QED BY <3>1, <3>2, <3>4
  <2> QED BY <1>3, <2>1, <2>2, TakenCall
<1>4. ASSUME NEW c \in Call, ToolEnds(c) PROVE HeldByCalls'
  <2>1. InProgress' = InProgress /\ UNCHANGED slots
    BY <1>4 DEF ToolEnds, session
  <2> QED BY <2>1
<1>5. ASSUME NEW c \in Call, Leaves(c) PROVE HeldByCalls'
  <2>1. InProgress' = InProgress /\ UNCHANGED slots
    BY <1>5 DEF Leaves
  <2> QED BY <2>1
<1>6. ASSUME NEW c \in Call, Frees(c) PROVE HeldByCalls'
  <2>1. InProgress' = slots' /\ slots' = slots \ {c}
    BY <1>6 DEF Frees
  <2>2. IsFiniteSet(slots') /\ Cardinality(slots') <= Cardinality(slots)
    BY <2>1, FS_Subset
  <2>3. Cardinality(slots') \in Nat /\ Cardinality(slots) \in Nat
    BY <2>2, FS_CardinalityType
  <2> QED BY <2>1, <2>2, <2>3
<1>7. ASSUME NEW w \in Writer, Written(w) \/ WriteFails(w) PROVE HeldByCalls'
  <2>1. InProgress' = InProgress /\ UNCHANGED slots
    BY <1>7, EndOfWrite
  <2> QED BY <2>1
<1> QED BY <1>1, <1>2, <1>3, <1>4, <1>5, <1>6, <1>7, CallSteps

\* Who holds the lock still has its message to write, and the loop answers a call it refused.
LEMMA WriterStays ==
  ASSUME WriterWrites, QuietAfterServe, CallTypes, LoopTypes, [Next]_vars
  PROVE  WriterWrites'
<1> USE DEF WriterWrites, WantsToWrite, CallTypes, LoopTypes, PcType
<1>1. CASE Closes \/ Tick \/ Signal \/ ConnEnds \/ Starts \/ StopWaitEnds \/ Exits \/ UNCHANGED vars
  BY <1>1 DEF Closes, Tick, Signal, ConnEnds, Starts, StopWaitEnds, Exits
<1>2. CASE Other \/ Initialize
  BY <1>2 DEF Other, Initialize, LoopWrites, TakesOther, Takes
<1>3. ASSUME NEW i \in Id, Cancelled(i) PROVE WriterWrites'
  BY <1>3 DEF Cancelled
<1>4. ASSUME NEW c \in Call, TakeCall(c) PROVE WriterWrites'
  BY <1>4, TakenCall
<1>5. CASE SessionEnds \/ Served
  BY <1>5 DEF SessionEnds, Served, InProgress, Awaited
<1>6. ASSUME NEW c \in Call, ToolEnds(c) \/ Leaves(c) \/ Frees(c) PROVE WriterWrites'
  BY <1>6 DEF ToolEnds, Leaves, Frees
<1>7. ASSUME NEW w \in Writer, LockOut(w) PROVE WriterWrites'
  BY <1>7 DEF LockOut
<1>8. ASSUME NEW w \in Writer, Written(w) \/ WriteFails(w) PROVE WriterWrites'
  BY <1>8, EndOfWrite
<1> QED BY <1>1, <1>2, <1>3, <1>4, <1>5, <1>6, <1>7, <1>8 DEF Next, Outside, Inside, Goroutine, ConnStops

\* Serve returns when no call is left; nothing starts or is written afterwards.
LEMMA QuietStays ==
  ASSUME QuietAfterServe, WriterWrites, CallTypes, LoopTypes, [Next]_vars
  PROVE  QuietAfterServe'
<1> USE DEF QuietAfterServe, InProgress, CallTypes, LoopTypes, PcType
<1>1. CASE Closes \/ Tick \/ Signal \/ ConnEnds \/ Starts \/ StopWaitEnds \/ Exits \/ UNCHANGED vars
  BY <1>1 DEF Closes, Tick, Signal, ConnEnds, Starts, StopWaitEnds, Exits
<1>2. CASE Other \/ Initialize \/ SessionEnds
  BY <1>2 DEF Other, Initialize, SessionEnds, LoopWrites, TakesOther, Takes
<1>3. ASSUME NEW i \in Id, Cancelled(i) PROVE QuietAfterServe'
  BY <1>3 DEF Cancelled, TakesOther, Takes
<1>4. ASSUME NEW c \in Call, TakeCall(c) PROVE QuietAfterServe'
  BY <1>4, TakenCall
<1>5. CASE Served
  <2>1. wmu = None
    BY <1>5 DEF Served, Awaited, WriterWrites, WantsToWrite
  <2> QED BY <1>5, <2>1 DEF Served, Awaited
<1>6. ASSUME NEW c \in Call, ToolEnds(c) \/ Leaves(c) \/ Frees(c) PROVE QuietAfterServe'
  BY <1>6 DEF ToolEnds, Leaves, Frees
<1>7. ASSUME NEW w \in Writer, LockOut(w) PROVE QuietAfterServe'
  BY <1>7 DEF LockOut
<1>8. ASSUME NEW w \in Writer, Written(w) \/ WriteFails(w) PROVE QuietAfterServe'
  BY <1>8, EndOfWrite DEF Writer
<1> QED BY <1>1, <1>2, <1>3, <1>4, <1>5, <1>6, <1>7, <1>8 DEF Next, Outside, Inside, Goroutine, ConnStops

\* A cancellation marks the call that its id stands for, and only a call in progress.
LEMMA CanceledStay ==
  ASSUME CanceledAreKnown, KnownById, CallTypes, LoopTypes, WriterWrites, [Next]_vars
  PROVE  CanceledAreKnown'
<1> USE DEF CanceledAreKnown, KnownById, CallTypes, PcType
<1>1. CASE UNCHANGED CallState
  BY <1>1 DEF CallState
<1>2. ASSUME NEW i \in Id, Cancelled(i) PROVE CanceledAreKnown'
  <2>1. UNCHANGED pc /\ canceled' = canceled \cup ({calls[i]} \ {None})
        /\ told' = told \cup {c \in Call : pc[c] = "running" /\ IdOf[c] = i}
    BY <1>2 DEF Cancelled
  <2>2. CASE calls[i] = None
    BY <2>1, <2>2
  <2>3. CASE calls[i] # None
    <3>1. calls[i] \in Call /\ IdOf[calls[i]] = i
      BY <2>3
    <3>2. pc[calls[i]] \in {"running", "answering", "leaving"}
      BY <3>1
    <3> QED BY <2>1, <3>1, <3>2
  <2> QED BY <2>2, <2>3
<1>3. ASSUME NEW c \in Call, TakeCall(c) PROVE CanceledAreKnown'
  BY <1>3, TakenCall
<1>4. ASSUME NEW c \in Call, ToolEnds(c) \/ Leaves(c) \/ Frees(c) PROVE CanceledAreKnown'
  BY <1>4 DEF ToolEnds, Leaves, Frees, session
<1>5. ASSUME NEW w \in Writer, Written(w) \/ WriteFails(w) PROVE CanceledAreKnown'
  BY <1>5, EndOfWrite
<1> QED BY <1>1, <1>2, <1>3, <1>4, <1>5, CallSteps

\* An answer is counted when its write ends, well or not: after it, the call is on its way out.
LEMMA Counted ==
  ASSUME NEW w \in Writer, Written(w) \/ WriteFails(w), LoopTypes, CallTypes, WriterWrites
  PROVE  \/ \E c \in Call :
              /\ pc[c] \in {"answering", "refused"}
              /\ pc' = [pc EXCEPT ![c] = IF pc[c] = "answering" THEN "leaving" ELSE "done"]
              /\ Tried(c)' = Tried(c) + 1
              /\ \A d \in Call \ {c} : Tried(d)' = Tried(d)
         \/ pc' = pc /\ \A d \in Call : Tried(d)' = Tried(d)
<1>1. \A c \in Call : Tried(c)' = Tried(c) + IF c = w \/ (w = Loop /\ c = due) THEN 1 ELSE 0
  <2>1. CASE Written(w)
    BY <2>1 DEF Written, OneMore, Tried, CallTypes
  <2>2. CASE WriteFails(w)
    BY <2>2 DEF WriteFails, OneMore, Tried, CallTypes
  <2> QED BY <2>1, <2>2
<1>2. CASE w \in Call /\ pc[w] = "answering" /\ pc' = [pc EXCEPT ![w] = "leaving"]
  <2>1. Tried(w)' = Tried(w) + 1 /\ \A d \in Call \ {w} : Tried(d)' = Tried(d)
    BY <1>1, <1>2 DEF Tried, CallTypes
  <2> QED BY <1>2, <2>1
<1>3. CASE w = Loop /\ due = None /\ pc' = pc
  BY <1>1, <1>3 DEF Tried, CallTypes
<1>4. CASE w = Loop /\ due \in Call /\ pc[due] = "refused" /\ pc' = [pc EXCEPT ![due] = "done"]
  <2>1. PICK c \in Call : c = due
    BY <1>4
  <2>2. Tried(c)' = Tried(c) + 1 /\ \A d \in Call \ {c} : Tried(d)' = Tried(d)
    BY <1>1, <1>4, <2>1 DEF Tried, CallTypes
  <2> QED BY <1>4, <2>1, <2>2
<1> QED BY <1>2, <1>3, <1>4, EndOfWrite

\* A call has no answer until its write ends, then one; a cancelled one has none.
LEMMA AnswersStay ==
  ASSUME AnswersSoFar, CanceledAreKnown, KnownById, CallTypes, LoopTypes, WriterWrites, [Next]_vars
  PROVE  AnswersSoFar'
<1> USE DEF AnswersSoFar, Tried, CallTypes, PcType
<1>1. CASE UNCHANGED CallState
  BY <1>1 DEF CallState
<1>2. ASSUME NEW i \in Id, Cancelled(i) PROVE AnswersSoFar'
  BY <1>2 DEF Cancelled, KnownById
<1>3. ASSUME NEW c \in Call, TakeCall(c) PROVE AnswersSoFar'
  BY <1>3, TakenCall
<1>4. ASSUME NEW c \in Call, ToolEnds(c) PROVE AnswersSoFar'
  BY <1>4 DEF ToolEnds, Answers, session
<1>5. ASSUME NEW c \in Call, Leaves(c) \/ Frees(c) PROVE AnswersSoFar'
  BY <1>5 DEF Leaves, Frees
<1>6. ASSUME NEW w \in Writer, Written(w) \/ WriteFails(w) PROVE AnswersSoFar'
  <2> HIDE DEF Tried
  <2>1. UNCHANGED <<canceled, told>> /\ \A c \in Call : Tried(c) \in Nat
    BY <1>6, EndOfWrite DEF Tried
  <2> QED BY <1>6, <2>1, Counted
<1> QED BY <1>1, <1>2, <1>3, <1>4, <1>5, <1>6, CallSteps

\* A call leaves without a try to answer it only when its context ended.
LEMMA OneAnswerStays ==
  ASSUME OneAnswer, AnswersSoFar, CanceledAreKnown, KnownById, CallTypes, LoopTypes, WriterWrites, [Next]_vars
  PROVE  OneAnswer'
<1>1. AnswersSoFar'
  BY AnswersStay
<1>2. \A c \in Call : Tried(c)' <= 1 /\ (c \in told' => Tried(c)' = 0)
  BY <1>1 DEF AnswersSoFar
<1>3. ASSUME NEW d \in Call, pc'[d] \in {"leaving", "freeing", "done"}, d \notin told', ~SessionOver'
      PROVE  Tried(d)' = 1
  <2> USE <1>3 DEF CallTypes, PcType
  <2>1. ~SessionOver
    BY OverStays
  <2>a. ASSUME UNCHANGED <<answers, failed>> PROVE Tried(d)' = Tried(d)
    BY <2>a DEF Tried
  <2>2. CASE UNCHANGED CallState
    BY <2>1, <2>2, <2>a DEF CallState, OneAnswer
  <2>3. ASSUME NEW i \in Id, Cancelled(i) PROVE Tried(d)' = 1
    BY <2>1, <2>3, <2>a DEF Cancelled, OneAnswer
  <2>4. ASSUME NEW c \in Call, TakeCall(c) PROVE Tried(d)' = 1
    BY <2>1, <2>4, <2>a, TakenCall DEF OneAnswer
  <2>5. ASSUME NEW c \in Call, ToolEnds(c) PROVE Tried(d)' = 1
    <3>1. UNCHANGED <<told, answers, failed, canceled>> /\ pc[c] = "running"
          /\ pc' = [pc EXCEPT ![c] = IF Answers(c) THEN "answering" ELSE "leaving"]
      BY <2>5 DEF ToolEnds, session
    <3>2. CASE d = c
      <4>1. c \in canceled
        BY <2>1, <3>1, <3>2 DEF Answers
      <4> QED BY <3>1, <3>2, <4>1 DEF CanceledAreKnown
    <3>3. CASE d # c
      BY <2>1, <2>a, <3>1, <3>3 DEF OneAnswer
    <3> QED BY <3>2, <3>3
  <2>6. ASSUME NEW c \in Call, Leaves(c) \/ Frees(c) PROVE Tried(d)' = 1
    BY <2>1, <2>6, <2>a DEF Leaves, Frees, OneAnswer
  <2>7. ASSUME NEW w \in Writer, Written(w) \/ WriteFails(w) PROVE Tried(d)' = 1
    <3>1. UNCHANGED told
      BY <2>7, EndOfWrite
    <3> QED BY <2>1, <2>7, <3>1, Counted DEF OneAnswer, AnswersSoFar
  <2> QED BY <2>2, <2>3, <2>4, <2>5, <2>6, <2>7, CallSteps
<1> QED BY <1>2, <1>3 DEF OneAnswer

-----------------------------------------------------------------------------
(***************************************************************************)
(* The token bucket.                                                       *)
(***************************************************************************)

\* The bucket filled up to now: no more than a full one, and no more than was there and came since.
LEMMA FilledBounds ==
  ASSUME BucketTypes, last <= now
  PROVE  /\ Filled \in Nat /\ Filled <= PerToken * Burst /\ Filled <= tokens + (now - last)
         /\ Filled = tokens + (now - last) \/ Filled = PerToken * Burst
<1>1. PerToken * Burst \in Nat /\ Burst * PerToken = PerToken * Burst
  OBVIOUS
<1> QED BY <1>1 DEF Filled, BucketTypes

\* The calls that passed since a time are some of those that passed.
LEMMA SinceFinite ==
  ASSUME BucketTypes, IsFiniteSet(Passed), NEW t \in Nat
  PROVE  IsFiniteSet(Since(t)) /\ Cardinality(Since(t)) \in Nat
<1>1. Since(t) \subseteq Passed
  BY DEF Since, Passed, BucketTypes
<1>2. IsFiniteSet(Since(t))
  BY <1>1, FS_Subset
<1> QED BY <1>2, FS_CardinalityType

\* A tick fills at most one part more.
LEMMA TickKeepsBound ==
  ASSUME BucketTypes, BucketBound, Tick
  PROVE  BucketBound'
<1> USE DEF BucketTypes
<1>1. now' = now + 1 /\ UNCHANGED <<tokens, last, passed>>
  BY DEF Tick, bucket, history
<1>2. last <= now /\ tokens <= PerToken * Burst /\ (\A c \in Call : passed[c] <= now) /\ IsFiniteSet(Passed)
  BY DEF BucketBound
<1>3. last' <= now' /\ tokens' <= PerToken * Burst /\ \A c \in Call : passed'[c] <= now'
  BY <1>1, <1>2
<1>4. Passed' = Passed
  BY <1>1 DEF Passed
<1>5. Filled \in Nat /\ Filled' \in Nat /\ Filled' <= Filled + 1 /\ Filled' <= PerToken * Burst
  <2>1. Filled \in Nat /\ (Filled = tokens + (now - last) \/ Filled = PerToken * Burst)
    BY <1>2, FilledBounds
  <2>2. Filled' = IF tokens + (now + 1 - last) > Burst * PerToken THEN Burst * PerToken ELSE tokens + (now + 1 - last)
    BY <1>1 DEF Filled
  <2>3. PerToken * Burst \in Nat /\ Burst * PerToken = PerToken * Burst
    OBVIOUS
  <2> QED BY <1>2, <2>1, <2>2, <2>3
<1>6. ASSUME NEW t \in 0..now'
      PROVE  PerToken * Cardinality(Since(t)') + Filled' <= PerToken * Burst + (now' - t)
  <2>1. Since(t)' = Since(t) /\ Cardinality(Since(t)) \in Nat
    BY <1>1, <1>2, SinceFinite DEF Since
  <2>2. CASE t \in 0..now
    <3>1. PerToken * Cardinality(Since(t)) + Filled <= PerToken * Burst + (now - t)
      BY <2>2 DEF BucketBound
    <3>2. PerToken * Cardinality(Since(t)) \in Nat /\ PerToken * Burst \in Nat
      BY <2>1
    <3> QED BY <1>1, <1>5, <2>1, <2>2, <3>1, <3>2
  <2>3. CASE t = now + 1
    <3>1. Since(t) = {}
      BY <1>2, <2>3 DEF Since
    <3>2. Cardinality(Since(t)) = 0
      BY <3>1, FS_EmptySet
    <3> QED BY <1>1, <1>5, <2>1, <2>3, <3>2
  <2> QED BY <1>1, <2>2, <2>3
<1> QED BY <1>1, <1>2, <1>3, <1>4, <1>6 DEF BucketBound, Since

\* A call that passes takes a token; one that is refused for the rate leaves the bucket as it was filled.
LEMMA TakeKeepsBound ==
  ASSUME BucketTypes, BucketBound, NEW c \in Call, TakeCall(c)
  PROVE  BucketBound'
<1> USE DEF BucketTypes
<1>1. /\ last <= now /\ tokens <= PerToken * Burst /\ (\A d \in Call : passed[d] <= now) /\ IsFiniteSet(Passed)
      /\ \A t \in 0..now : PerToken * Cardinality(Since(t)) + Filled <= PerToken * Burst + (now - t)
  BY DEF BucketBound
<1>2. Filled \in Nat /\ Filled <= PerToken * Burst
  BY <1>1, FilledBounds
<1>3. CASE UNCHANGED <<tokens, last, now, passed>>
  <2>1. UNCHANGED <<Passed, Filled>> /\ \A t : Since(t)' = Since(t)
    BY <1>3 DEF Passed, Filled, Since
  <2> QED BY <1>1, <1>3, <2>1 DEF BucketBound
<1>4. CASE last' = now /\ now' = now /\ tokens' = Filled /\ passed' = passed
  <2>1. Passed' = Passed /\ \A t : Since(t)' = Since(t)
    BY <1>4 DEF Passed, Since
  <2>2. Filled' = Filled
    BY <1>2, <1>4 DEF Filled
  <2> QED BY <1>1, <1>2, <1>4, <2>1, <2>2 DEF BucketBound
<1>5. CASE /\ last' = now /\ now' = now /\ Filled >= PerToken /\ tokens' = Filled - PerToken
           /\ passed' = [passed EXCEPT ![c] = now]
  <2>1. Filled' = Filled - PerToken
    BY <1>2, <1>5 DEF Filled
  <2>2. Passed' = Passed \cup {c}
    BY <1>5 DEF Passed
  <2>3. IsFiniteSet(Passed')
    BY <1>1, <2>2, FS_AddElement
  <2>4. \A d \in Call : passed'[d] <= now'
    BY <1>1, <1>5
  <2>5. ASSUME NEW t \in 0..now
        PROVE  PerToken * Cardinality(Since(t)') + Filled' <= PerToken * Burst + (now - t)
    <3>1. IsFiniteSet(Since(t)) /\ Cardinality(Since(t)) \in Nat
      BY <1>1, SinceFinite
    <3>2. Since(t)' = Since(t) \cup {c}
      BY <1>5 DEF Since
    <3>3. Cardinality(Since(t)') = Cardinality(Since(t)) \/ Cardinality(Since(t)') = Cardinality(Since(t)) + 1
      BY <3>1, <3>2, FS_AddElement
    <3>4. PerToken * Cardinality(Since(t)') <= PerToken * Cardinality(Since(t)) + PerToken
      BY <3>1, <3>3
    <3>5. PerToken * Cardinality(Since(t)) + Filled <= PerToken * Burst + (now - t)
      BY <1>1
    <3>6. PerToken * Cardinality(Since(t)) \in Nat /\ PerToken * Cardinality(Since(t)') \in Nat /\ PerToken * Burst \in Nat
      BY <3>1, <3>3
    <3> QED BY <1>2, <2>1, <3>4, <3>5, <3>6
  <2> QED BY <1>1, <1>2, <1>5, <2>3, <2>4, <2>5 DEF BucketBound
<1> QED BY <1>3, <1>4, <1>5 DEF TakeCall

\* Every step keeps the bound on what passed and what may pass.
LEMMA BoundStays ==
  ASSUME BucketTypes, BucketBound, [Next]_vars
  PROVE  BucketBound'
<1>1. CASE UNCHANGED BucketState
  <2>1. UNCHANGED <<tokens, last, now, passed>>
    BY <1>1 DEF BucketState
  <2>2. UNCHANGED <<Passed, Filled>> /\ \A t : Since(t)' = Since(t)
    BY <2>1 DEF Passed, Filled, Since
  <2> QED BY <2>1, <2>2 DEF BucketBound
<1> QED BY <1>1, BucketSteps, TickKeepsBound, TakeKeepsBound

-----------------------------------------------------------------------------
(***************************************************************************)
(* The theorems.                                                           *)
(***************************************************************************)

\* Nothing has been sent, and the bucket is full.
LEMMA InitIInv == ASSUME Init PROVE IInv
<1> USE DEF Init
<1>1. Flags
  BY Zenon DEF Flags
<1>2. CallTypes /\ BucketTypes /\ LoopTypes
  BY DEF CallTypes, BucketTypes, LoopTypes, PcType
<1>3. KnownById /\ WriterWrites /\ QuietAfterServe
  BY DEF KnownById, WriterWrites, QuietAfterServe
<1>4. AnswersSoFar /\ CanceledAreKnown /\ OneAnswer
  BY DEF AnswersSoFar, Tried, CanceledAreKnown, OneAnswer
<1>5. HeldByCalls
  <2>1. slots = {} /\ InProgress = {}
    BY DEF InProgress
  <2> QED BY <2>1, FS_EmptySet DEF HeldByCalls
<1>6. BucketBound
  <2>1. Passed = {} /\ \A t \in Nat : Since(t) = {}
    BY DEF Passed, Since
  <2>2. Filled = PerToken * Burst
    BY DEF Filled
  <2>3. PerToken * Burst \in Nat /\ Burst * PerToken = PerToken * Burst
    OBVIOUS
  <2>4. last <= now /\ tokens <= PerToken * Burst /\ \A c \in Call : passed[c] <= now
    BY <2>3
  <2>5. IsFiniteSet(Passed)
    BY <2>1, FS_EmptySet
  <2>6. ASSUME NEW t \in 0..now
        PROVE  PerToken * Cardinality(Since(t)) + Filled <= PerToken * Burst + (now - t)
    <3>1. t = 0 /\ now = 0
      OBVIOUS
    <3>2. Since(t) = {}
      BY <2>1, <3>1
    <3>3. Cardinality(Since(t)) = 0
      BY <3>2, FS_EmptySet
    <3> QED BY <2>2, <2>3, <3>1, <3>3
  <2> QED BY <2>4, <2>5, <2>6 DEF BucketBound
<1> QED BY <1>1, <1>2, <1>3, <1>4, <1>5, <1>6 DEF IInv, TypeOK

\* A step of the client, of the server or of the command keeps IInv.
LEMMA NextIInv == ASSUME IInv, [Next]_vars PROVE IInv'
<1>1. /\ Flags /\ CallTypes /\ BucketTypes /\ LoopTypes /\ KnownById /\ HeldByCalls /\ WriterWrites
      /\ QuietAfterServe /\ AnswersSoFar /\ CanceledAreKnown /\ OneAnswer /\ BucketBound
  BY DEF IInv, TypeOK
<1>2. last <= now
  BY <1>1 DEF BucketBound
<1>3. TypeOK'
  BY <1>1, <1>2, FlagsStay, CallTypesStay, BucketTypesStay, LoopTypesStay DEF TypeOK
<1>4. KnownById' /\ HeldByCalls' /\ WriterWrites' /\ QuietAfterServe'
  BY <1>1, IdsStay, SlotsStay, WriterStays, QuietStays
<1>5. AnswersSoFar' /\ CanceledAreKnown' /\ OneAnswer'
  BY <1>1, AnswersStay, CanceledStay, OneAnswerStays
<1>6. BucketBound'
  BY <1>1, BoundStays
<1> QED BY <1>3, <1>4, <1>5, <1>6 DEF IInv

\* IInv is an invariant: calls in progress hold the slots and their ids, Serve leaves nothing behind (Serve, call).
THEOREM Invariance == Spec => []IInv
<1>1. Init => IInv
  BY InitIInv
<1>2. IInv /\ [Next]_vars => IInv'
  BY NextIInv
<1> QED BY <1>1, <1>2, PTL DEF Spec

\* A call is answered once, or its one write failed, or it was cancelled while it ran and it is never answered,
\* whatever writes fail, and when (call, notification, write).
THEOREM AnsweredOnce == Spec => []OneAnswer
<1>1. IInv => OneAnswer
  BY DEF IInv
<1> QED BY <1>1, Invariance, PTL

\* In no period do more calls pass than the burst and what is filled meanwhile (take).
THEOREM RateIsBounded == Spec => []RateBound
<1>1. ASSUME IInv PROVE RateBound
  <2>1. BucketTypes /\ BucketBound
    BY <1>1 DEF IInv, TypeOK
  <2>2. last <= now /\ IsFiniteSet(Passed)
    BY <2>1 DEF BucketBound
  <2>3. Filled \in Nat
    BY <2>1, <2>2, FilledBounds
  <2>4. ASSUME NEW t \in 0..now
        PROVE  PerToken * Cardinality(Since(t)) <= PerToken * Burst + (now - t)
    <3>1. Cardinality(Since(t)) \in Nat
      BY <2>1, <2>2, SinceFinite
    <3>2. PerToken * Cardinality(Since(t)) + Filled <= PerToken * Burst + (now - t)
      BY <2>1 DEF BucketBound
    <3>3. PerToken * Cardinality(Since(t)) \in Nat /\ PerToken * Burst \in Nat
      BY <3>1
    <3> QED BY <2>1, <2>3, <3>2, <3>3 DEF BucketTypes
  <2> QED BY <2>4 DEF RateBound
<1> QED BY <1>1, Invariance, PTL
=============================================================================
