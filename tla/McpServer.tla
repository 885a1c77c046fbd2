------------------------------- MODULE McpServer -------------------------------
(***************************************************************************)
(* internal/mcp: the MCP session over standard input and output, and the   *)
(* life of the `mcp` command around it (cmd/vettid-agent/mcp.go).          *)
(*                                                                         *)
(* The read loop takes one line at a time and writes every answer but a    *)
(* tool's itself.  A tool call runs in a goroutine of its own, within the  *)
(* token bucket and the slots.  One lock serialises the writes, and a      *)
(* write lasts until the client reads: that is where everybody may wait.   *)
(* The client reads when it likes, or never; and a write may fail.         *)
(*                                                                         *)
(* Tokens are counted in parts: one tick of the clock fills one part, and  *)
(* PerToken parts let a call through.  What a tool does is RequestClient's *)
(* matter; here it returns.  A definition used nowhere is a mistake in the *)
(* one that follows it (README, Mutants).                                  *)
(***************************************************************************)
EXTENDS Integers, FiniteSets

CONSTANTS
  Call,         \* tools/call requests the client may send
  Id,           \* JSON-RPC ids
  IdOf,         \* the id each call carries
  Loop,         \* the read loop, as a writer
  None,
  MaxInFlight,
  Burst,
  PerToken,     \* ticks in which a token is filled
  MaxTime,      \* bound: ticks
  MaxLines,     \* bound: lines other than tools/call
  MaxFails      \* bound: calls whose answer fails to be written

ASSUME McpAssumption ==
  /\ None \notin Call /\ Loop \notin Call /\ Loop # None /\ IdOf \in [Call -> Id]
  /\ MaxInFlight \in Nat \ {0} /\ Burst \in Nat \ {0} /\ PerToken \in Nat \ {0}
  /\ MaxTime \in Nat /\ MaxLines \in Nat /\ MaxFails \in Nat

VARIABLES
  \* the client
  input,       \* standard input: open or closed
  others,      \* lines other than tools/call taken
  \* the Server
  initialized,
  loop,        \* where the read loop is
  due,         \* the call it answers
  pc,          \* each call
  calls,       \* whose cancel function is kept under an id
  canceled,    \* calls whose context was cancelled by the client
  slots,       \* calls that hold one
  wmu,         \* who writes
  tokens, last, now,
  \* the command
  main, over,  \* where it is; whether its context ended
  \* history
  answers,     \* messages written for each call
  failed,      \* and messages for it whose write failed
  told,        \* calls whose cancellation the Server took while their tool ran
  passed       \* when each call passed the rate limit; -1: it did not

bucket  == <<tokens, last>>
client  == <<input, others>>
session == <<initialized, calls, canceled, slots>>
history == <<answers, failed, told, passed>>
vars    == <<client, session, loop, due, pc, wmu, bucket, now, main, over, history>>

InProgress == {c \in Call : pc[c] \in {"running", "answering", "leaving", "freeing"}}

\* The context of every call, once the session ends.
SessionOver == over \/ loop \in {"ending", "served"}

Init ==
  /\ input = "open" /\ others = 0
  /\ initialized = FALSE /\ loop = "select" /\ due = None
  /\ pc = [c \in Call |-> "unsent"] /\ calls = [i \in Id |-> None]
  /\ canceled = {} /\ slots = {} /\ wmu = None
  /\ tokens = Burst * PerToken /\ last = 0 /\ now = 0
  /\ main = "starting" /\ over = FALSE
  /\ answers = [c \in Call |-> 0] /\ failed = [c \in Call |-> 0] /\ told = {} /\ passed = [c \in Call |-> -1]

-----------------------------------------------------------------------------
(***************************************************************************)
(* The client and the clock.                                               *)
(***************************************************************************)

Serving == main \in {"running", "stopping", "deadline"}

\* The client closes standard input.
Closes ==
  /\ Serving /\ input = "open" /\ input' = "closed"
  /\ UNCHANGED <<others, session, loop, due, pc, wmu, bucket, now, main, over, history>>

Tick ==
  /\ Serving /\ now < MaxTime /\ now' = now + 1
  /\ UNCHANGED <<client, session, loop, due, pc, wmu, bucket, main, over, history>>

-----------------------------------------------------------------------------
(***************************************************************************)
(* The read loop.                                                          *)
(***************************************************************************)

\* A line counts as sent when the loop takes it from the goroutine that reads (read), one after the other.
Takes == Serving /\ loop = "select" /\ input = "open" /\ UNCHANGED input
TakesOther == Takes /\ others < MaxLines /\ others' = others + 1

\* The loop goes on to write an answer: to a call, or to anything else.
LoopWrites(to) == loop' = "answering" /\ due' = to

\* ping, tools/list, and every message that is refused for what it is (too long, a batch, a bad id...).
Other ==
  /\ TakesOther /\ LoopWrites(None)
  /\ UNCHANGED <<session, pc, wmu, bucket, now, main, over, history>>

\* A second one is refused.
Initialize ==
  /\ TakesOther /\ LoopWrites(None) /\ initialized' = TRUE
  /\ UNCHANGED <<calls, canceled, slots, pc, wmu, bucket, now, main, over, history>>

\* notifications/cancelled: whatever is kept under the id is cancelled; nothing is answered.
Cancelled(i) ==
  /\ TakesOther
  /\ canceled' = canceled \cup ({calls[i]} \ {None})
  /\ told' = told \cup {c \in Call : pc[c] = "running" /\ IdOf[c] = i}
  /\ UNCHANGED <<initialized, calls, slots, loop, due, pc, wmu, bucket, now, main, over, answers, failed,
                 passed>>

\* take: the bucket is filled for the time since the last take, up to the burst.
FilledOver == tokens + (now - last)
Filled == IF tokens + (now - last) > Burst * PerToken THEN Burst * PerToken ELSE tokens + (now - last)

\* An id is in use until its call has left.
AnyId(c) == FALSE
InUse(c) == calls[IdOf[c]] # None
Full == Cardinality(slots) >= MaxInFlight

\* call: refused before the rate limit, by it, by the slots, or started.
Refuses(c) == LoopWrites(c) /\ pc' = [pc EXCEPT ![c] = "refused"] /\ UNCHANGED <<calls, slots>>

StartsCall(c) ==
  /\ pc' = [pc EXCEPT ![c] = "running"]
  /\ calls' = [calls EXCEPT ![IdOf[c]] = c] /\ slots' = slots \cup {c}
  /\ UNCHANGED <<loop, due>>

TakeCall(c) ==
  /\ Takes /\ pc[c] = "unsent"
  /\ \/ (~initialized \/ InUse(c)) /\ Refuses(c) /\ UNCHANGED <<bucket, passed>>
     \/ /\ initialized /\ ~InUse(c) /\ last' = now
        /\ \/ Filled < PerToken /\ tokens' = Filled /\ Refuses(c) /\ UNCHANGED passed
           \/ /\ Filled >= PerToken /\ tokens' = Filled - PerToken
              /\ passed' = [passed EXCEPT ![c] = now]
              /\ IF Full THEN Refuses(c) ELSE StartsCall(c)
  /\ UNCHANGED <<others, initialized, canceled, wmu, now, main, over, answers, failed, told>>

\* The input or the command's context ended: Serve cancels the calls and waits for them.
SessionEnds ==
  /\ Serving /\ loop = "select" /\ (over \/ input = "closed")
  /\ loop' = "ending"
  /\ UNCHANGED <<client, session, due, pc, wmu, bucket, now, main, over, history>>

\* stopped is set, Serve returns, and the command's context ends.
Awaited == InProgress = {}
Served ==
  /\ Serving /\ loop = "ending" /\ Awaited
  /\ loop' = "served" /\ over' = TRUE
  /\ UNCHANGED <<client, session, due, pc, wmu, bucket, now, main, history>>

-----------------------------------------------------------------------------
(***************************************************************************)
(* A call's goroutine.                                                     *)
(***************************************************************************)

\* The tool returns.  A call whose context ended is not answered.
Answers(c) == ~(SessionOver \/ c \in canceled)
ToolEnds(c) ==
  /\ Serving /\ pc[c] = "running"
  /\ pc' = [pc EXCEPT ![c] = IF Answers(c) THEN "answering" ELSE "leaving"]
  /\ UNCHANGED <<client, session, loop, due, wmu, bucket, now, main, over, history>>

\* The id is given up; then the slot.
Leaves(c) ==
  /\ Serving /\ pc[c] = "leaving"
  /\ calls' = [calls EXCEPT ![IdOf[c]] = None]
  /\ pc' = [pc EXCEPT ![c] = "freeing"]
  /\ UNCHANGED <<client, initialized, canceled, slots, loop, due, wmu, bucket, now, main, over, history>>

Frees(c) ==
  /\ Serving /\ pc[c] = "freeing"
  /\ slots' = slots \ {c} /\ pc' = [pc EXCEPT ![c] = "done"]
  /\ UNCHANGED <<client, initialized, calls, canceled, loop, due, wmu, bucket, now, main, over, history>>

-----------------------------------------------------------------------------
(***************************************************************************)
(* write.                                                                  *)
(***************************************************************************)

WantsToWrite(w) == IF w = Loop THEN loop = "answering" ELSE w \in Call /\ pc[w] = "answering"
LockOut(w) ==
  /\ Serving /\ WantsToWrite(w) /\ wmu = None /\ loop # "served"
  /\ wmu' = w
  /\ UNCHANGED <<client, session, loop, due, pc, bucket, now, main, over, history>>

\* What the writer does next.
Returns(w) ==
  IF w = Loop
  THEN /\ loop' = "select" /\ due' = None
       /\ pc' = [c \in Call |-> IF c = due THEN "done" ELSE pc[c]]
  ELSE pc' = [pc EXCEPT ![w] = "leaving"] /\ UNCHANGED <<loop, due>>

\* One more message for the call that the writer answers, if it answers one.
OneMore(count, w) == [c \in Call |-> count[c] + IF c = w \/ (w = Loop /\ c = due) THEN 1 ELSE 0]

\* The client read it.
Written(w) ==
  /\ Serving /\ wmu = w /\ wmu' = None /\ Returns(w)
  /\ answers' = OneMore(answers, w)
  /\ UNCHANGED <<client, session, bucket, now, main, over, failed, told, passed>>

\* Standard output fails, at any time, or at the deadline that stopSession sets: it is logged, and all goes on.
WriteFails(w) ==
  /\ Serving /\ wmu = w /\ wmu' = None /\ Returns(w)
  /\ failed' = OneMore(failed, w)
  /\ Cardinality({c \in Call : failed'[c] # 0}) <= MaxFails
  /\ UNCHANGED <<client, session, bucket, now, main, over, answers, told, passed>>

-----------------------------------------------------------------------------
(***************************************************************************)
(* The command.                                                            *)
(***************************************************************************)

\* Flags, the state file, its protector and record, the connection, the grants: if one fails, nothing is served.
Starts ==
  /\ main = "starting" /\ main' \in {"running", "exited"}
  /\ UNCHANGED <<client, session, loop, due, pc, wmu, bucket, now, over, history>>

\* SIGINT or SIGTERM.
Signal ==
  /\ Serving /\ ~over /\ over' = TRUE
  /\ UNCHANGED <<client, session, loop, due, pc, wmu, bucket, now, main, history>>

\* Conn.Run returns: its context ended, or the vault ended the pairing, or a save failed.
ConnEnds ==
  /\ main = "running" /\ main' = "stopping" /\ over' = TRUE
  /\ UNCHANGED <<client, session, loop, due, pc, wmu, bucket, now, history>>
ConnStops == over /\ ConnEnds

\* stopSession: Serve is waited for, then a deadline is set, then it is left.
WaitsForServe ==
  /\ loop # "served" /\ main = "stopping" /\ main' = "deadline"
  /\ UNCHANGED <<client, session, loop, due, pc, wmu, bucket, now, over, history>>
StopWaitEnds ==
  /\ loop # "served"
  /\ \/ main = "stopping" /\ main' = "deadline"
     \/ main = "deadline" /\ main' = "exited"
  /\ UNCHANGED <<client, session, loop, due, pc, wmu, bucket, now, over, history>>

Exits ==
  /\ main \in {"stopping", "deadline"} /\ loop = "served" /\ main' = "exited"
  /\ UNCHANGED <<client, session, loop, due, pc, wmu, bucket, now, over, history>>

-----------------------------------------------------------------------------
Writer == Call \cup {Loop}
Goroutine(c) == ToolEnds(c) \/ Leaves(c) \/ Frees(c)

\* What the client and the system do to the session: lines, reading, signals, an end of the connection.
Outside ==
  \/ Closes \/ Tick \/ Other \/ Initialize \/ Signal \/ ConnEnds
  \/ \E i \in Id : Cancelled(i)
  \/ \E c \in Call : TakeCall(c)
  \/ \E w \in Writer : Written(w) \/ WriteFails(w)

\* What the program goes on to do by itself.
Inside ==
  \/ Starts \/ SessionEnds \/ Served \/ ConnStops \/ StopWaitEnds \/ Exits
  \/ \E c \in Call : Goroutine(c)
  \/ \E w \in Writer : LockOut(w)

Next == Outside \/ Inside

Spec == Init /\ [][Next]_vars

\* As long as the program can go on by itself, it does: goroutines run, tools end (their waits are bounded),
\* timers fire.  Which goes first is open.  The client owes nothing, not even to read.
FairSpec == Spec /\ WF_vars(Inside)

-----------------------------------------------------------------------------
(***************************************************************************)
(* What makes it correct.                                                  *)
(***************************************************************************)

PcType == {"unsent", "refused", "running", "answering", "leaving", "freeing", "done"}

Flags == initialized \in BOOLEAN /\ over \in BOOLEAN
CallTypes ==
  /\ pc \in [Call -> PcType] /\ calls \in [Id -> Call \cup {None}]
  /\ canceled \subseteq Call /\ told \subseteq Call
  /\ answers \in [Call -> Nat] /\ failed \in [Call -> Nat]
BucketTypes == tokens \in Nat /\ last \in Nat /\ now \in Nat /\ passed \in [Call -> Int]
LoopTypes ==
  /\ input \in {"open", "closed"} /\ others \in Nat
  /\ loop \in {"select", "answering", "ending", "served"} /\ due \in Call \cup {None}
  /\ wmu \in Call \cup {Loop, None}
  /\ main \in {"starting", "running", "stopping", "deadline", "exited"}
TypeOK == Flags /\ CallTypes /\ BucketTypes /\ LoopTypes

\* The ids of calls in progress are distinct, and each is kept with its own call until that leaves.
KnownById ==
  /\ \A c \in Call : pc[c] \in {"running", "answering", "leaving"} <=> calls[IdOf[c]] = c
  /\ \A i \in Id : calls[i] # None => IdOf[calls[i]] = i

\* Calls in progress hold the slots, and no more than there are.
HeldByCalls ==
  /\ slots = InProgress /\ IsFiniteSet(slots) /\ Cardinality(slots) <= MaxInFlight

\* Who writes has something to write, and what the loop answers is a refused call.
WriterWrites == (wmu # None => WantsToWrite(wmu)) /\ (due # None => pc[due] = "refused")

\* When Serve has returned nothing runs and nothing is being written (Serve, write).
QuietAfterServe == loop = "served" => InProgress = {} /\ wmu = None

\* How often the Server wrote, or tried to write, an answer to a call.
Tried(c) == answers[c] + failed[c]

\* A call is answered at the end, once; one that was cancelled before is on its way out without.
AnswersSoFar ==
  \A c \in Call :
    /\ Tried(c) <= 1
    /\ pc[c] \in {"unsent", "refused", "running", "answering"} => Tried(c) = 0
    /\ c \in told => /\ c \in canceled /\ Tried(c) = 0
                     /\ pc[c] \in {"running", "leaving", "freeing", "done"}

\* Cancelled calls have been started, and are those the client meant.
CanceledAreKnown ==
  \A c \in canceled : pc[c] \notin {"unsent", "refused"} /\ (pc[c] = "running" => c \in told)

\* A call is answered once: its answer is read, or its one write failed and it is not written again.  Unless
\* its context ended while its tool ran, then never: a cancellation reaches the call the client means,
\* whatever ids it uses and whatever writes failed (call, notification, write).
OneAnswer ==
  \A c \in Call :
    /\ Tried(c) <= 1
    /\ c \in told => Tried(c) = 0
    /\ pc[c] \in {"leaving", "freeing", "done"} /\ c \notin told /\ ~SessionOver => Tried(c) = 1

\* In no period do more calls pass than the burst and what is filled meanwhile (take).
Since(t) == {c \in Call : passed[c] >= t}
RateBound == \A t \in 0..now : PerToken * Cardinality(Since(t)) <= PerToken * Burst + (now - t)

\* What has passed and what may pass at once, together.
Passed == {c \in Call : passed[c] >= 0}
BucketBound ==
  /\ last <= now /\ tokens <= PerToken * Burst /\ \A c \in Call : passed[c] <= now
  /\ IsFiniteSet(Passed)
  /\ \A t \in 0..now : PerToken * Cardinality(Since(t)) + Filled <= PerToken * Burst + (now - t)

\* What every step keeps.
IInv ==
  /\ TypeOK /\ KnownById /\ HeldByCalls /\ WriterWrites /\ QuietAfterServe
  /\ AnswersSoFar /\ CanceledAreKnown /\ OneAnswer /\ BucketBound

\* After a signal, or when the connection ends, the process ends, even if the client never reads (stopSession).
SignalEnds == over ~> main = "exited"

\* While the client goes on reading, calls end and give up their places, and when it closes standard input
\* the process ends (Serve, call).
ClientReads == []<>(wmu = None)
InputEnds == input = "closed" ~> main = "exited"
CallsEnd == []<>(InProgress = {} \/ main = "exited")
Ends == SignalEnds /\ (ClientReads => InputEnds /\ CallsEnd)
=============================================================================
