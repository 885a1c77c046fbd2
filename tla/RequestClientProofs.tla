------------------------ MODULE RequestClientProofs ------------------------
(***************************************************************************)
(* RequestClient: IInv is kept by every step, for any tool calls, number   *)
(* of copies, bound on what is kept, windows and faults.                   *)
(***************************************************************************)
EXTENDS RequestClient, FiniteSetTheorems, TLAPS

USE RequestAssumption DEF vars, vault, waiting, Client, Tools, Goes

-----------------------------------------------------------------------------
(***************************************************************************)
(* Records.                                                                *)
(***************************************************************************)

\* What entries become (Entry, dropLocked, do) are entries.
LEMMA EntryTypes ==
  ASSUME NEW e \in EntryType
  PROVE  e.out \in {"none", "result", "error"}
  BY DEF EntryType

LEMMA NewEntryTypes ==
  /\ NoEntry \in EntryType /\ InFlight \in EntryType /\ Handed \in EntryType /\ Abandoned \in EntryType
  /\ Gone \in EntryType /\ GoneInError \in EntryType
  /\ \A out \in {"none", "result", "error"} : Dropped(out) \in EntryType
  /\ \A e \in EntryType, at \in {"done", "kept"}, out \in {"result", "error"} : Entry(at, e.who, out) \in EntryType
  BY DEF EntryType, Entry, NoEntry, InFlight, Handed, Abandoned, Gone, GoneInError, Dropped

\* What goroutines become (run, attempt) are goroutines.
LEMMA RunTypes ==
  /\ NoRun \in RunType
  /\ \A at \in {"ready", "sent", "late"}, n \in Nat : Run(at, n) \in RunType
  /\ \A r \in RunType : r.n \in Nat /\ OneMore(r.n) \in Nat
  BY DEF RunType, NoRun, Run, OneMore

-----------------------------------------------------------------------------
(***************************************************************************)
(* Types.                                                                  *)
(***************************************************************************)

\* The types at the start.
LEMMA InitTypes == ASSUME Init PROVE TypeOK
  BY NewEntryTypes, RunTypes DEF Init, TypeOK, VaultType, WaitType, Id, PcType

\* A step of the vault, the connection or time keeps the types.
LEMMA VaultTypes ==
  ASSUME TypeOK,
         Tick \/ (\E c \in copies : VaultTakes(c)) \/ (\E i \in answers : ConnAnswers(i))
           \/ (\E i \in Id : VaultDecides(i)) \/ (\E w \in waits : OnEvent(w))
  PROVE  TypeOK'
<1> USE DEF TypeOK, VaultType, WaitType
<1>1. CASE Tick
  <2>1. \A n \in Nat : OneLess(n) \in Nat
    BY DEF OneLess
  <2>2. waits' \subseteq [tool: Tool, hold: Nat]
    BY <1>1, <2>1 DEF Tick
  <2> QED BY <1>1, <2>1, <2>2 DEF Tick
<1>2. ASSUME NEW c \in copies, VaultTakes(c) PROVE TypeOK'
  <2>1. c.id \in Id /\ c.tool \in Tool
    BY DEF Copy
  <2>2. CASE \E v \in {"ok", "error"} : Decide(c.id, v) /\ UNCHANGED <<holds, waits>>
    BY <1>2, <2>1, <2>2 DEF VaultTakes, Decide, Id
  <2>3. CASE Announces(c.tool) /\ verdict' = [verdict EXCEPT ![c.id] = "held"] /\ UNCHANGED <<ran, answers>>
    BY <1>2, <2>1, <2>3 DEF VaultTakes, Announces
  <2>4. CASE UNCHANGED <<verdict, holds, waits, ran, answers>>
    BY <1>2, <2>4 DEF VaultTakes
  <2>5. CASE answers' = answers \cup {c.id} /\ UNCHANGED <<verdict, holds, waits, ran>>
    BY <1>2, <2>1, <2>5 DEF VaultTakes
  <2> QED BY <1>2, <2>2, <2>3, <2>4, <2>5 DEF VaultTakes
<1>3. ASSUME NEW i \in answers, ConnAnswers(i) PROVE TypeOK'
  BY <1>3 DEF ConnAnswers, Id
<1>4. ASSUME NEW i \in Id, VaultDecides(i) PROVE TypeOK'
  BY <1>4 DEF VaultDecides, Decide, Id
<1>5. ASSUME NEW w \in waits, OnEvent(w) PROVE TypeOK'
  <2>1. w.tool \in Tool /\ w.hold \in Nat
    OBVIOUS
  <2>2. hold' \in [Tool -> Nat] /\ promised' \in [Tool -> Nat]
    BY <1>5, <2>1 DEF OnEvent, LongerOnly
  <2>3. waits' \subseteq [tool: Tool, hold: Nat] /\ faults' \in Nat
    BY <1>5 DEF OnEvent, Fault
  <2> QED BY <1>5, <2>2, <2>3 DEF OnEvent
<1> QED BY <1>1, <1>2, <1>3, <1>4, <1>5

\* A step of Close keeps the types.
LEMMA CloseTypes ==
  ASSUME TypeOK, Close \/ Closed
  PROVE  TypeOK'
<1> USE DEF TypeOK, VaultType, WaitType
<1>1. CASE Close
  BY <1>1 DEF Close
<1>2. CASE Closed
  <2>1. \A u \in Tool : entry[u] \in EntryType /\ Dropped(entry[u].out) \in EntryType
    BY EntryTypes, NewEntryTypes
  <2> QED BY <1>2, <2>1 DEF Closed
<1> QED BY <1>1, <1>2

\* A step of a tool call keeps the types.
LEMMA ToolTypes ==
  ASSUME TypeOK, NEW t \in Tool,
         Do(t) \/ Register(t) \/ ContextEnds(t) \/ Wakes(t) \/ Status(t) \/ Evict(t)
  PROVE  TypeOK'
<1> USE DEF TypeOK, VaultType, WaitType
<1> entry[t] \in EntryType
  OBVIOUS
<1>1. CASE Do(t)
  BY <1>1 DEF Do, PcType
<1>2. CASE Register(t)
  <2>1. entry' \in [Tool -> EntryType] /\ run' \in [Tool -> RunType]
    <3>1. InFlight \in EntryType /\ Run("ready", 0) \in RunType
      BY NewEntryTypes, RunTypes
    <3> QED BY <1>2, <3>1 DEF Register
  <2>2. pc' \in [Tool -> PcType]
    BY <1>2 DEF Register, PcType
  <2> QED BY <1>2, <2>1, <2>2 DEF Register
<1>3. CASE ContextEnds(t)
  BY <1>3 DEF ContextEnds, Fault
<1>4. CASE Wakes(t)
  <2>1. CASE ToolTakes(t)
    <3>1. entry' \in [Tool -> EntryType]
      BY <2>1, NewEntryTypes DEF ToolTakes, Takes
    <3>2. pc' \in [Tool -> PcType]
      BY <2>1, EntryTypes DEF ToolTakes, PcType
    <3>3. given' \in [Tool -> Nat]
      BY <2>1 DEF ToolTakes, Give
    <3> QED BY <1>4, <3>1, <3>2, <3>3 DEF Wakes
  <2>2. CASE ToolEnds(t)
    <3>1. entry' \in [Tool -> EntryType]
      BY <2>2, NewEntryTypes DEF ToolEnds
    <3>2. pc' \in [Tool -> PcType] /\ UNCHANGED given
      BY <2>2 DEF ToolEnds, PcType
    <3> QED BY <1>4, <3>1, <3>2 DEF Wakes
  <2> QED BY <1>4, <2>1, <2>2 DEF Wakes
<1>5. CASE Status(t)
  <2>1. entry' \in [Tool -> EntryType]
    BY <1>5, NewEntryTypes DEF Status, Takes
  <2>2. given' \in [Tool -> Nat]
    BY <1>5 DEF Status, Give
  <2> QED BY <1>5, <2>1, <2>2 DEF Status
<1>6. CASE Evict(t)
  BY <1>6, EntryTypes, NewEntryTypes DEF Evict
<1> QED BY <1>1, <1>2, <1>3, <1>4, <1>5, <1>6

\* finish keeps the types.
LEMMA FinishTypes ==
  ASSUME TypeOK, NEW t \in Tool, NEW out \in {"result", "error"}, Finish(t, out)
  PROVE  /\ entry' \in [Tool -> EntryType] /\ run' \in [Tool -> RunType]
         /\ conn' \in [Tool -> {"none", "pending", "held", "ok", "error"}] /\ WaitType'
<1>1. entry[t] \in EntryType
  BY DEF TypeOK
<1>2. Dropped(out) \in EntryType /\ \A at \in {"done", "kept"} : Entry(at, entry[t].who, out) \in EntryType
  BY <1>1, NewEntryTypes
<1>3. \E e \in {Dropped(out), Entry("done", entry[t].who, out), Entry("kept", entry[t].who, out)} :
        entry' = [entry EXCEPT ![t] = e]
  BY DEF Finish, Recorded
<1>4. entry' \in [Tool -> EntryType]
  BY <1>2, <1>3 DEF TypeOK
<1>5. run' \in [Tool -> RunType]
  BY RunTypes DEF TypeOK, Finish
<1> QED BY <1>4, <1>5 DEF TypeOK, WaitType, Finish

\* A step of a request's goroutine keeps the types.
LEMMA GoroutineTypes ==
  ASSUME TypeOK, NEW t \in Tool, Goroutine(t)
  PROVE  TypeOK'
<1> run[t] \in RunType
  BY DEF TypeOK
<1>1. CASE Sends(t)
  <2>1. run[t].n <= Retransmissions => run[t].n \in 0..Retransmissions
    BY DEF RunType
  <2>2. copies' \subseteq Copy
    BY <1>1, <2>1 DEF TypeOK, VaultType, Sends, Copy, Id, InnerId
  <2>3. run' \in [Tool -> RunType]
    <3>1. Run("sent", run[t].n) \in RunType /\ Run("ready", OneMore(run[t].n)) \in RunType
      BY RunTypes
    <3> QED BY <1>1, <3>1 DEF Sends, TypeOK
  <2> QED BY <1>1, <2>2, <2>3 DEF TypeOK, VaultType, WaitType, Sends, Fault
<1>2. CASE TimesOut(t)
  BY <1>2, RunTypes DEF TimesOut, TypeOK, VaultType, WaitType
<1>3. CASE Answered(t)
  BY <1>3, FinishTypes DEF Answered, TypeOK, VaultType
<1>4. CASE NextCopy(t)
  BY <1>4, RunTypes DEF NextCopy, TypeOK, VaultType, WaitType
<1>5. CASE GivesUp(t)
  BY <1>5, FinishTypes DEF GivesUp, TypeOK, VaultType
<1>6. CASE Ends(t)
  BY <1>6, FinishTypes DEF Ends, TypeOK, VaultType, Fault
<1> QED BY <1>1, <1>2, <1>3, <1>4, <1>5, <1>6 DEF Goroutine

-----------------------------------------------------------------------------
(***************************************************************************)
(* Entries.                                                                *)
(***************************************************************************)

EntriesInv == NothingKeptForGood /\ Accounted /\ TakenIsGone /\ ClosedKeepsNothing

\* A step that changes only t's part, to what the invariant asks, keeps it.
LEMMA OneEntry ==
  ASSUME TypeOK, EntriesInv, NEW t \in Tool,
         \A u \in Tool \ {t} : entry'[u] = entry[u] /\ run'[u] = run[u] /\ pc'[u] = pc[u] /\ given'[u] = given[u],
         UNCHANGED closed,
         entry'[t].at = "done" => pc'[t] = "waiting" \/ closed = "closing",
         entry'[t].at = "inflight" <=> run'[t].at # "none",
         entry'[t].at = "inflight" /\ entry'[t].who = "tool" => pc'[t] = "waiting",
         pc'[t] \in {"idle", "ensured"} => entry'[t].at = "none",
         given'[t] <= 1, given'[t] > 0 => entry'[t].at = "gone",
         entry'[t].at = "gone" => entry'[t].out # "result",
         closed = "closed" => entry'[t].at \in {"none", "gone"} /\ run'[t].at = "none"
  PROVE  EntriesInv'
  BY DEF EntriesInv, NothingKeptForGood, Accounted, TakenIsGone, ClosedKeepsNothing

\* A tool call's steps keep the entries accounted for.
LEMMA ToolEntries ==
  ASSUME TypeOK, EntriesInv, NEW t \in Tool,
         Do(t) \/ Register(t) \/ ContextEnds(t) \/ Wakes(t) \/ Status(t) \/ Evict(t)
  PROVE  EntriesInv'
<1> /\ entry[t].at = "done" => pc[t] = "waiting" \/ closed = "closing"
    /\ entry[t].at = "inflight" <=> run[t].at # "none"
    /\ entry[t].at = "inflight" /\ entry[t].who = "tool" => pc[t] = "waiting"
    /\ pc[t] \in {"idle", "ensured"} => entry[t].at = "none"
    /\ given[t] \in Nat /\ given[t] <= 1 /\ (given[t] > 0 => entry[t].at = "gone")
    /\ entry[t].at = "gone" => entry[t].out # "result"
    /\ closed = "closed" => entry[t].at \in {"none", "gone"} /\ run[t].at = "none"
  BY DEF TypeOK, EntriesInv, NothingKeptForGood, Accounted, TakenIsGone, ClosedKeepsNothing
<1> entry \in [Tool -> EntryType] /\ run \in [Tool -> RunType] /\ pc \in [Tool -> PcType] /\ given \in [Tool -> Nat]
  BY DEF TypeOK
<1>1. CASE Do(t)
  BY <1>1, OneEntry DEF Do
<1>2. CASE Register(t)
  <2>1. CASE UNCHANGED <<entry, run>>
    BY <1>2, <2>1, OneEntry DEF Register
  <2>2. CASE StillOpen /\ entry' = [entry EXCEPT ![t] = InFlight] /\ run' = [run EXCEPT ![t] = Run("ready", 0)]
             /\ pc' = [pc EXCEPT ![t] = "waiting"]
    <3>1. InFlight.at = "inflight" /\ Run("ready", 0).at = "ready"
      BY DEF InFlight, Entry, Run
    <3> QED BY <1>2, <2>2, <3>1, OneEntry DEF Register, StillOpen
  <2> QED BY <1>2, <2>1, <2>2 DEF Register
<1>3. CASE ContextEnds(t)
  BY <1>3, OneEntry DEF ContextEnds
<1>4. CASE Wakes(t)
  <2>1. CASE ToolTakes(t)
    <3>1. Gone.at = "gone" /\ Gone.out = "none"
      BY DEF Gone, Entry
    <3>2. given'[t] = (IF entry[t].out = "result" THEN given[t] + 1 ELSE given[t])
          /\ \A u \in Tool \ {t} : given'[u] = given[u]
      BY <2>1 DEF ToolTakes, Give
    <3>3. pc'[t] = entry[t].out /\ pc'[t] \notin {"idle", "ensured"}
      BY <2>1, EntryTypes DEF ToolTakes, TypeOK
    <3> QED BY <1>4, <2>1, <3>1, <3>2, <3>3, OneEntry DEF Wakes, ToolTakes, Takes
  <2>2. CASE ToolEnds(t)
    <3>1. Handed.at = "inflight" /\ Handed.who = "status" /\ Abandoned.at = "inflight" /\ Abandoned.who = "nobody"
      BY DEF Handed, Abandoned, Entry
    <3> QED BY <1>4, <2>2, <3>1, OneEntry DEF Wakes, ToolEnds
  <2> QED BY <1>4, <2>1, <2>2 DEF Wakes
<1>5. CASE Status(t)
  <2>1. Gone.at = "gone" /\ Gone.out = "none"
    BY DEF Gone, Entry
  <2>2. given'[t] = given[t] + 1 /\ \A u \in Tool \ {t} : given'[u] = given[u]
    BY <1>5 DEF Status, Give
  <2> QED BY <1>5, <2>1, <2>2, OneEntry DEF Status, Takes
<1>6. CASE Evict(t)
  <2>1. \A out : Dropped(out).at = "gone" /\ Dropped(out).out # "result"
    BY DEF Dropped, Gone, GoneInError, Entry
  <2> QED BY <1>6, <2>1, OneEntry DEF Evict
<1> QED BY <1>1, <1>2, <1>3, <1>4, <1>5, <1>6

\* A goroutine's steps keep the entries accounted for.
LEMMA GoroutineEntries ==
  ASSUME TypeOK, EntriesInv, NEW t \in Tool, Goroutine(t)
  PROVE  EntriesInv'
<1> /\ entry[t].at = "done" => pc[t] = "waiting" \/ closed = "closing"
    /\ entry[t].at = "inflight" <=> run[t].at # "none"
    /\ entry[t].at = "inflight" /\ entry[t].who = "tool" => pc[t] = "waiting"
    /\ pc[t] \in {"idle", "ensured"} => entry[t].at = "none"
    /\ given[t] \in Nat /\ given[t] <= 1 /\ (given[t] > 0 => entry[t].at = "gone")
    /\ entry[t].at = "gone" => entry[t].out # "result"
    /\ closed = "closed" => entry[t].at \in {"none", "gone"} /\ run[t].at = "none"
  BY DEF TypeOK, EntriesInv, NothingKeptForGood, Accounted, TakenIsGone, ClosedKeepsNothing
<1> entry \in [Tool -> EntryType] /\ run \in [Tool -> RunType] /\ pc \in [Tool -> PcType] /\ given \in [Tool -> Nat]
  BY DEF TypeOK
<1>1. \A at, n : Run(at, n).at = at
  BY DEF Run
<1>2. ASSUME NEW out \in {"result", "error"}, Finish(t, out), UNCHANGED <<pc, given, closed>>, run[t].at # "none"
      PROVE  EntriesInv'
  <2>1. \A o : Dropped(o).at = "gone" /\ Dropped(o).out # "result"
    BY DEF Dropped, Gone, GoneInError, Entry
  <2>2. \A at, who : Entry(at, who, out).at = at /\ Entry(at, who, out).who = who
    BY DEF Entry
  <2>3. run'[t].at = "none" /\ \A u \in Tool \ {t} : run'[u] = run[u]
    BY <1>1, <1>2 DEF Finish, NoRun
  <2>4. entry[t].who \in {"nobody", "tool", "status"}
    BY DEF TypeOK, EntryType
  <2>5. CASE entry' = [entry EXCEPT ![t] = Dropped(out)]
    BY <1>2, <2>1, <2>3, <2>5, OneEntry
  <2>6. CASE entry' = [entry EXCEPT ![t] = Entry("kept", entry[t].who, out)] /\ closed = "no"
    BY <1>2, <2>2, <2>3, <2>6, OneEntry
  <2>7. CASE entry' = [entry EXCEPT ![t] = Entry("done", entry[t].who, out)] /\ entry[t].who = "tool" /\ closed = "no"
    BY <1>2, <2>2, <2>3, <2>7, OneEntry
  <2> QED BY <1>2, <2>4, <2>5, <2>6, <2>7 DEF Finish, Recorded, KeptAWhile
<1>3. CASE Sends(t)
  BY <1>3, <1>1, OneEntry DEF Sends
<1>4. CASE TimesOut(t)
  BY <1>4, <1>1, OneEntry DEF TimesOut
<1>5. CASE Answered(t)
  BY <1>5, <1>2 DEF Answered
<1>6. CASE NextCopy(t)
  BY <1>6, <1>1, OneEntry DEF NextCopy
<1>7. CASE GivesUp(t)
  BY <1>7, <1>2 DEF GivesUp
<1>8. CASE Ends(t)
  BY <1>8, <1>2 DEF Ends
<1> QED BY <1>3, <1>4, <1>5, <1>6, <1>7, <1>8 DEF Goroutine

\* Close's two sections, and the steps of the vault, the connection and time, keep the entries accounted for.
LEMMA OtherEntries ==
  ASSUME TypeOK, EntriesInv,
         \/ Close \/ Closed
         \/ UNCHANGED <<entry, run, pc, given, closed>>
  PROVE  EntriesInv'
<1> USE DEF EntriesInv, NothingKeptForGood, Accounted, TakenIsGone, ClosedKeepsNothing
<1>1. CASE Close
  BY <1>1 DEF Close
<1>2. CASE Closed
  <2>1. ASSUME NEW t \in Tool
        PROVE  /\ entry[t].at \in {"done", "kept"} => entry'[t].at = "gone" /\ entry'[t].out # "result"
               /\ entry[t].at \notin {"done", "kept"} => entry'[t] = entry[t]
    BY <1>2 DEF Closed, Dropped, Gone, GoneInError, Entry
  <2>2. \A t \in Tool : entry[t].at \in {"none", "inflight", "done", "kept", "gone"}
    BY DEF TypeOK, EntryType
  <2> QED BY <1>2, <2>1, <2>2 DEF Closed
<1>3. CASE UNCHANGED <<entry, run, pc, given, closed>>
  BY <1>3
<1> QED BY <1>1, <1>2, <1>3

-----------------------------------------------------------------------------
(***************************************************************************)
(* The bound on what is kept.                                              *)
(***************************************************************************)

BoundInv == IsFiniteSet(Held) /\ Bounded

\* What is kept grows only where do has checked that there is room.
LEMMA KeptBound ==
  ASSUME BoundInv, Held' \subseteq Held \/ (Room /\ \E t \in Tool : Held' \subseteq Held \cup {t})
  PROVE  BoundInv'
<1> MaxPending \in Nat /\ IsFiniteSet(Held) /\ Cardinality(Held) \in Nat /\ Cardinality(Held) <= MaxPending
  BY FS_CardinalityType DEF BoundInv, Bounded
<1>1. CASE Held' \subseteq Held
  <2>1. IsFiniteSet(Held') /\ Cardinality(Held') \in Nat /\ Cardinality(Held') <= Cardinality(Held)
    BY <1>1, FS_Subset, FS_CardinalityType
  <2> QED BY <2>1 DEF BoundInv, Bounded
<1>2. ASSUME Room, NEW t \in Tool, Held' \subseteq Held \cup {t} PROVE BoundInv'
  <2>1. IsFiniteSet(Held \cup {t}) /\ Cardinality(Held \cup {t}) \in Nat /\ Cardinality(Held \cup {t}) <= MaxPending
    <3>1. /\ IsFiniteSet(Held \cup {t})
          /\ Cardinality(Held \cup {t}) = Cardinality(Held) \/ Cardinality(Held \cup {t}) = Cardinality(Held) + 1
      BY FS_AddElement
    <3>2. Cardinality(Held) < MaxPending
      BY <1>2 DEF Room
    <3> QED BY <3>1, <3>2
  <2>2. IsFiniteSet(Held') /\ Cardinality(Held') \in Nat /\ Cardinality(Held') <= Cardinality(Held \cup {t})
    BY <1>2, <2>1, FS_Subset, FS_CardinalityType
  <2> QED BY <2>1, <2>2 DEF BoundInv, Bounded
<1> QED BY <1>1, <1>2

\* A tool call's steps.
LEMMA ToolBound ==
  ASSUME TypeOK, BoundInv, NEW t \in Tool,
         Do(t) \/ Register(t) \/ ContextEnds(t) \/ Wakes(t) \/ Status(t) \/ Evict(t)
  PROVE  BoundInv'
<1> entry \in [Tool -> EntryType]
  BY DEF TypeOK
<1>1. CASE UNCHANGED entry
  BY <1>1, KeptBound DEF Held
<1>2. CASE Register(t) /\ ~UNCHANGED entry
  <2>1. Room /\ \A u \in Tool \ {t} : entry'[u] = entry[u]
    BY <1>2 DEF Register
  <2> QED BY <2>1, KeptBound DEF Held
<1>3. ASSUME NEW e, entry' = [entry EXCEPT ![t] = e], e.at = "gone" \/ (e.at = "inflight" /\ entry[t].at = "inflight")
      PROVE  BoundInv'
  <2>1. Held' \subseteq Held
    BY <1>3 DEF Held
  <2> QED BY <2>1, KeptBound
<1>4. /\ Gone.at = "gone" /\ Handed.at = "inflight" /\ Abandoned.at = "inflight"
      /\ \A out : Dropped(out).at = "gone"
  BY DEF Gone, GoneInError, Handed, Abandoned, Dropped, Entry
<1>5. CASE Wakes(t)
  <2>1. CASE ToolTakes(t)
    BY <2>1, <1>3, <1>4 DEF ToolTakes, Takes
  <2>2. CASE ToolEnds(t)
    BY <2>2, <1>3, <1>4 DEF ToolEnds
  <2> QED BY <1>5, <2>1, <2>2 DEF Wakes
<1>6. CASE Status(t)
  BY <1>6, <1>3, <1>4 DEF Status, Takes
<1>7. CASE Evict(t)
  BY <1>7, <1>3, <1>4 DEF Evict
<1> QED BY <1>1, <1>2, <1>5, <1>6, <1>7 DEF Do, ContextEnds

\* The steps of a goroutine: what it records was in flight.
LEMMA GoroutineBound ==
  ASSUME TypeOK, EntriesInv, BoundInv, NEW t \in Tool, Goroutine(t)
  PROVE  BoundInv'
<1> entry \in [Tool -> EntryType]
  BY DEF TypeOK
<1>1. CASE UNCHANGED entry
  BY <1>1, KeptBound DEF Held
<1>2. ASSUME NEW out, Finish(t, out), run[t].at # "none" PROVE BoundInv'
  <2>1. entry[t].at = "inflight" /\ \A u \in Tool \ {t} : entry'[u] = entry[u]
    BY <1>2 DEF EntriesInv, Accounted, Finish, Recorded
  <2> QED BY <2>1, KeptBound DEF Held
<1> QED BY <1>1, <1>2 DEF Goroutine, Sends, TimesOut, Answered, NextCopy, GivesUp, Ends

\* The others.
LEMMA OtherBound ==
  ASSUME TypeOK, BoundInv, Close \/ Closed \/ UNCHANGED entry
  PROVE  BoundInv'
<1>1. CASE UNCHANGED entry
  BY <1>1, KeptBound DEF Held
<1>2. CASE Closed
  <2>1. \A t \in Tool : entry'[t] = entry[t] \/ entry'[t].at = "gone"
    BY <1>2 DEF Closed, Dropped, Gone, GoneInError, Entry
  <2> QED BY <2>1, KeptBound DEF Held
<1> QED BY <1>1, <1>2 DEF Close

-----------------------------------------------------------------------------
(***************************************************************************)
(* One inner id, and the wait for the member.                              *)
(***************************************************************************)

\* Only the vault changes what it made of an id; a copy goes out under its request's.
LEMMA OneIdStep ==
  ASSUME TypeOK, OneId, Next
  PROVE  OneId'
<1> \A t \in Tool, n \in 0..Retransmissions : InnerId(t, n) = <<t, 0>> /\ <<t, 0>> \in Id
  BY DEF InnerId, Id
<1> /\ copies \subseteq Copy /\ verdict \in [Id -> {"none", "held", "ok", "error"}] /\ ran \in [Tool -> Nat]
  BY DEF TypeOK, VaultType
<1>1. ASSUME NEW i \in Id, NEW v \in {"ok", "error"}, Decide(i, v), i = <<i[1], 0>>, verdict[i] # "ok", copies' \subseteq copies
      PROVE  OneId'
  <2>1. i[1] \in Tool
    BY DEF Id
  <2> QED BY <1>1, <2>1 DEF OneId, Decide, InnerId
<1>2. ASSUME NEW c \in copies, VaultTakes(c) PROVE OneId'
  <2>1. c.id \in Id /\ c.tool \in Tool /\ c.id = <<c.tool, 0>> /\ copies' \subseteq copies
    BY <1>2 DEF Copy, OneId, InnerId, VaultTakes
  <2>2. CASE verdict[c.id] = "none" /\ \E v \in {"ok", "error"} : Decide(c.id, v)
    BY <1>1, <2>1, <2>2
  <2>3. CASE verdict[c.id] \in {"none", "held"} /\ verdict' = [verdict EXCEPT ![c.id] = "held"] /\ UNCHANGED ran
    BY <2>1, <2>3 DEF OneId, InnerId
  <2>4. CASE UNCHANGED <<verdict, ran>>
    BY <2>1, <2>4 DEF OneId
  <2> QED BY <1>2, <2>2, <2>3, <2>4 DEF VaultTakes
<1>3. ASSUME NEW i \in Id, VaultDecides(i) PROVE OneId'
  <2>1. i = <<i[1], 0>> /\ verdict[i] = "held" /\ UNCHANGED copies
    BY <1>3 DEF VaultDecides, OneId, InnerId
  <2> QED BY <1>1, <1>3, <2>1 DEF VaultDecides
<1>4. ASSUME NEW t \in Tool, Sends(t) PROVE OneId'
  <2>1. copies' \subseteq copies \cup {[tool |-> t, id |-> InnerId(t, run[t].n), copy |-> run[t].n]}
    BY <1>4 DEF Sends
  <2>2. \A c \in copies' : c.id = InnerId(c.tool, c.copy)
    BY <2>1 DEF OneId, InnerId
  <2> QED BY <1>4, <2>2 DEF OneId, Sends
<1>5. CASE UNCHANGED <<copies, verdict, ran>>
  BY <1>5 DEF OneId
<1> QED BY <1>2, <1>3, <1>4, <1>5 DEF Next, Goroutine, Tick, ConnAnswers, OnEvent, Do, Register, ContextEnds, Wakes,
       Status, Evict, TimesOut, Answered, NextCopy, GivesUp, Ends, Close, Closed

\* An approval.waiting never shortens the wait (OnEvent).
LEMMA WaitStep ==
  ASSUME TypeOK, WaitsAsLong, Next
  PROVE  WaitsAsLong'
<1> hold \in [Tool -> Nat] /\ promised \in [Tool -> Nat] /\ waits \subseteq [tool: Tool, hold: Nat]
  BY DEF TypeOK, VaultType, WaitType
<1>1. CASE Tick
  BY <1>1 DEF Tick, WaitsAsLong
<1>2. ASSUME NEW w \in waits, OnEvent(w) PROVE WaitsAsLong'
  <2>1. w.tool \in Tool
    OBVIOUS
  <2> QED BY <1>2, <2>1 DEF OnEvent, LongerOnly, WaitsAsLong
<1>3. ASSUME NEW t \in Tool, NEW out, Finish(t, out) PROVE WaitsAsLong'
  BY <1>3 DEF Finish, WaitsAsLong
<1>4. CASE UNCHANGED <<hold, promised>>
  BY <1>4 DEF WaitsAsLong
<1> QED BY <1>1, <1>2, <1>3, <1>4 DEF Next, Goroutine, VaultTakes, VaultDecides, ConnAnswers, Do, Register, ContextEnds,
       Wakes, Status, Evict, Sends, TimesOut, Answered, NextCopy, GivesUp, Ends, Close, Closed

-----------------------------------------------------------------------------
(***************************************************************************)
(* The theorems.                                                           *)
(***************************************************************************)

\* The start.
LEMMA InitInv == ASSUME Init PROVE IInv
<1>1. Held = {}
  BY DEF Init, Held, NoEntry, Entry
<1>2. IsFiniteSet(Held) /\ Bounded
  BY <1>1, FS_EmptySet DEF Bounded
<1>3. NothingKeptForGood /\ Accounted /\ TakenIsGone /\ ClosedKeepsNothing
  BY DEF Init, NothingKeptForGood, Accounted, TakenIsGone, ClosedKeepsNothing, NoEntry, Entry, NoRun, Run
<1>4. OneId /\ WaitsAsLong
  <2>1. \A t \in Tool : InnerId(t, 0) \in Id
    BY DEF Id, InnerId
  <2> QED BY <2>1 DEF Init, OneId, WaitsAsLong
<1> QED BY <1>2, <1>3, <1>4, InitTypes DEF IInv

\* Each part is kept, action by action.
LEMMA Kept == ASSUME IInv, [Next]_vars PROVE IInv'
<1> TypeOK /\ EntriesInv /\ BoundInv /\ OneId /\ WaitsAsLong
  BY DEF IInv, EntriesInv, BoundInv
<1>1. ASSUME TypeOK', EntriesInv', BoundInv', OneId', WaitsAsLong' PROVE IInv'
  BY <1>1 DEF IInv, EntriesInv, BoundInv
<1>2. CASE Next
  <2>1. OneId' /\ WaitsAsLong'
    BY <1>2, OneIdStep, WaitStep
  <2>2. CASE Tick \/ (\E c \in copies : VaultTakes(c)) \/ (\E i \in answers : ConnAnswers(i))
             \/ (\E i \in Id : VaultDecides(i)) \/ (\E w \in waits : OnEvent(w))
    <3>1. UNCHANGED <<entry, run, pc, given, closed>>
      BY <2>2 DEF Tick, VaultTakes, ConnAnswers, VaultDecides, OnEvent
    <3> QED BY <1>1, <2>1, <2>2, <3>1, VaultTypes, OtherEntries, OtherBound
  <2>3. ASSUME NEW t \in Tool, Do(t) \/ Register(t) \/ ContextEnds(t) \/ Wakes(t) \/ Status(t) \/ Evict(t)
        PROVE  IInv'
    BY <1>1, <2>1, <2>3, ToolTypes, ToolEntries, ToolBound
  <2>4. ASSUME NEW t \in Tool, Goroutine(t) PROVE IInv'
    BY <1>1, <2>1, <2>4, GoroutineTypes, GoroutineEntries, GoroutineBound
  <2>5. CASE Close \/ Closed
    BY <1>1, <2>1, <2>5, CloseTypes, OtherEntries, OtherBound
  <2> QED BY <1>2, <2>2, <2>3, <2>4, <2>5 DEF Next
<1>3. CASE UNCHANGED vars
  BY <1>3 DEF IInv, TypeOK, VaultType, WaitType, NothingKeptForGood, Accounted, TakenIsGone, OneId, WaitsAsLong,
              ClosedKeepsNothing, Bounded, Held
<1> QED BY <1>2, <1>3

\* IInv holds always: types, and that what is kept has someone who will take or drop it, what a tool call has
\* taken is gone, the vault knows one id for each request, and the bound holds.
THEOREM Invariance == Spec => []IInv
  BY InitInv, Kept, PTL DEF Spec

\* MaxPending bounds what is in flight and what is kept, whatever tool calls come at once (heldLocked).
THEOREM PendingIsBounded == Spec => []Bounded
<1>1. IInv => Bounded  BY DEF IInv
<1> QED BY <1>1, Invariance, PTL

\* Once Close has returned nothing runs and no result is kept (Close, do).
THEOREM CloseIsFinal == Spec => []ClosedKeepsNothing
<1>1. IInv => ClosedKeepsNothing  BY DEF IInv
<1> QED BY <1>1, Invariance, PTL

\* The vault executes a request at most once, for any number of copies (run).
THEOREM RequestExecutedOnce == Spec => []ExecutedOnce
<1>1. IInv => ExecutedOnce  BY DEF IInv, OneId, ExecutedOnce
<1> QED BY <1>1, Invariance, PTL

\* A copy's wait covers every approval.waiting that came (deadline, OnEvent).
THEOREM MemberIsWaitedFor == Spec => WaitsForTheMember
<1>1. ASSUME IInv, Next PROVE \A t \in Tool : run'[t].at = "late" /\ run[t].at # "late" => promised[t] = 0
  <2> SUFFICES ASSUME NEW t \in Tool, run'[t].at = "late", run[t].at # "late" PROVE promised[t] = 0
    OBVIOUS
  <2> run \in [Tool -> RunType]
    BY <1>1 DEF IInv, TypeOK
  <2>1. ~UNCHANGED run
    OBVIOUS
  <2>2. \A at, n : Run(at, n).at = at
    BY DEF Run
  <2>3. PICK u \in Tool : Register(u) \/ Goroutine(u)
    BY <1>1, <2>1 DEF Next, Tick, VaultTakes, ConnAnswers, VaultDecides, OnEvent, Do, ContextEnds, Wakes, Status, Evict,
                      Close, Closed
  <2>4. TimesOut(u) /\ u = t
    BY <2>1, <2>2, <2>3 DEF Register, Goroutine, Sends, TimesOut, Answered, NextCopy, GivesUp, Ends, Finish, NoRun
  <2> QED BY <1>1, <2>4 DEF TimesOut, DeadlinePassed, IInv, WaitsAsLong
<1>2. IInv /\ [Next]_vars => [\A t \in Tool : run'[t].at = "late" /\ run[t].at # "late" => promised[t] = 0]_vars
  BY <1>1
<1> QED BY <1>2, Invariance, PTL DEF Spec, WaitsForTheMember

-----------------------------------------------------------------------------
(***************************************************************************)
(* The refinement: the Client is what AtMostOnce promises.                 *)
(***************************************************************************)

(* What an entry or the connection has as a result is one of a request the *)
(* vault executed, and only a call that returned its id leaves a result to *)
(* Status (do, finish).                                                    *)
Real ==
  \A t \in Tool :
    /\ entry[t].out = "result" => verdict[InnerId(t, 0)] = "ok"
    /\ conn[t] = "ok" => verdict[InnerId(t, 0)] = "ok"
    /\ entry[t].who = "status" => pc[t] = "pending"

\* The vault decides on one request, on which it has not decided.
Decides(i, v) ==
  /\ verdict[i] \in {"none", "held"} /\ verdict' = [verdict EXCEPT ![i] = v]
  /\ UNCHANGED <<pc, entry, conn, given>>

LEMMA VerdictStep ==
  ASSUME IInv, Next
  PROVE  \/ UNCHANGED verdict
         \/ \E t \in Tool, v \in {"held", "ok", "error"} : Decides(<<t, 0>>, v)
<1> USE DEF IInv, TypeOK, VaultType
<1>1. ASSUME NEW c \in copies, VaultTakes(c)
      PROVE  UNCHANGED verdict \/ \E v \in {"held", "ok", "error"} : Decides(<<c.tool, 0>>, v)
  <2>1. c.id = <<c.tool, 0>>
    BY DEF OneId, InnerId
  <2> QED BY <1>1, <2>1 DEF VaultTakes, Decide, Decides
<1>2. ASSUME NEW i \in Id, VaultDecides(i)
      PROVE  i[1] \in Tool /\ \E v \in {"held", "ok", "error"} : Decides(<<i[1], 0>>, v)
  <2>1. i[1] \in Tool /\ i = <<i[1], 0>>
    BY <1>2 DEF VaultDecides, OneId, InnerId, Id
  <2> QED BY <1>2, <2>1 DEF VaultDecides, Decide, Decides
<1>3. \A c \in copies : c.tool \in Tool
  BY DEF Copy
<1> QED BY <1>1, <1>2, <1>3 DEF Next, Goroutine, Tick, ConnAnswers, OnEvent, Do, Register, ContextEnds, Wakes,
       Status, Evict, Sends, TimesOut, Answered, NextCopy, GivesUp, Ends, Close, Closed

\* What a step does to an entry: it takes no result from anywhere but the connection.
LEMMA RealStep ==
  ASSUME IInv, Real, Next
  PROVE  Real'
<1> USE DEF Real
<1>t. /\ entry \in [Tool -> EntryType] /\ pc \in [Tool -> PcType] /\ verdict \in [Id -> {"none", "held", "ok", "error"}]
      /\ conn \in [Tool -> {"none", "pending", "held", "ok", "error"}]
      /\ \A t \in Tool : InnerId(t, 0) = <<t, 0>> /\ <<t, 0>> \in Id
  BY DEF IInv, TypeOK, VaultType, InnerId, Id
<1>e. \A at, who, out : Entry(at, who, out).at = at /\ Entry(at, who, out).who = who /\ Entry(at, who, out).out = out
  BY DEF Entry
<1>d. \A out : Dropped(out).who = "nobody" /\ Dropped(out).out # "result"
  BY <1>e DEF Dropped, Gone, GoneInError
<1>1. CASE UNCHANGED <<verdict, entry, conn, pc>>
  BY <1>1
<1>2. ASSUME NEW t \in Tool, NEW v \in {"held", "ok", "error"}, Decides(<<t, 0>>, v)
      PROVE  Real'
  BY <1>2, <1>t DEF Decides
<1>3. ASSUME NEW i \in answers, ConnAnswers(i) PROVE Real'
  <2>1. UNCHANGED <<verdict, entry, pc>>
    BY <1>3 DEF ConnAnswers
  <2>2. UNCHANGED conn \/ (i = <<i[1], 0>> /\ conn' = [conn EXCEPT ![i[1]] = verdict[i]])
    BY <1>3 DEF ConnAnswers, InnerId
  <2> QED BY <1>t, <2>1, <2>2
<1>4. ASSUME NEW t \in Tool, Do(t) \/ Register(t) \/ ContextEnds(t) PROVE Real'
  <2>1. UNCHANGED <<verdict, conn>> /\ pc[t] \in {"idle", "ensured", "waiting"} /\ InFlight.who = "tool"
        /\ InFlight.out = "none"
    BY <1>4, <1>e DEF Do, Register, ContextEnds, InFlight
  <2>2. \/ UNCHANGED entry
        \/ entry' = [entry EXCEPT ![t] = InFlight]
    BY <1>4 DEF Do, Register, ContextEnds
  <2>3. \A u \in Tool \ {t} : pc'[u] = pc[u]
    BY <1>4, <1>t DEF Do, Register, ContextEnds
  <2> QED BY <1>t, <2>1, <2>2, <2>3
<1>5. ASSUME NEW t \in Tool, Wakes(t) PROVE Real'
  <2>1. UNCHANGED <<verdict, conn>> /\ pc[t] = "waiting"
    BY <1>5 DEF Wakes
  <2>2. /\ \/ entry' = [entry EXCEPT ![t] = Gone]
           \/ entry' = [entry EXCEPT ![t] = Abandoned]
           \/ entry' = [entry EXCEPT ![t] = Handed] /\ pc' = [pc EXCEPT ![t] = "pending"]
        /\ \A u \in Tool \ {t} : pc'[u] = pc[u]
    BY <1>5, <1>t DEF Wakes, ToolTakes, ToolEnds, Takes
  <2>3. Gone.who = "nobody" /\ Abandoned.who = "nobody" /\ Handed.out = "none" /\ Gone.out = "none"
        /\ Abandoned.out = "none"
    BY <1>e DEF Gone, Abandoned, Handed
  <2> QED BY <1>t, <2>1, <2>2, <2>3
<1>6. ASSUME NEW t \in Tool, Status(t) \/ Evict(t) PROVE Real'
  <2>1. UNCHANGED <<verdict, conn, pc>>
    BY <1>6 DEF Status, Evict
  <2>2. \/ entry' = [entry EXCEPT ![t] = Gone]
        \/ entry' = [entry EXCEPT ![t] = Dropped(@.out)]
    BY <1>6 DEF Status, Evict, Takes
  <2>3. Gone.who = "nobody" /\ Gone.out = "none"
    BY <1>e DEF Gone
  <2> QED BY <1>d, <1>t, <2>1, <2>2, <2>3
<1>7. ASSUME NEW t \in Tool, NEW out \in {"result", "error"}, Finish(t, out), UNCHANGED <<verdict, pc>>,
             out = "result" => conn[t] = "ok"
      PROVE  Real'
  <2>1. \/ entry' = [entry EXCEPT ![t] = Dropped(out)]
        \/ \E at : entry' = [entry EXCEPT ![t] = Entry(at, entry[t].who, out)]
    BY <1>7 DEF Finish, Recorded
  <2>2. conn' = [conn EXCEPT ![t] = "none"]
    BY <1>7 DEF Finish
  <2>3. CASE entry' = [entry EXCEPT ![t] = Dropped(out)]
    BY <1>7, <1>d, <1>t, <2>2, <2>3
  <2>4. ASSUME NEW at, entry' = [entry EXCEPT ![t] = Entry(at, entry[t].who, out)] PROVE Real'
    BY <1>7, <1>e, <1>t, <2>2, <2>4
  <2> QED BY <2>1, <2>3, <2>4
<1>8. ASSUME NEW t \in Tool, Goroutine(t) PROVE Real'
  <2>1. CASE Sends(t) \/ TimesOut(t) \/ NextCopy(t)
    <3>1. UNCHANGED <<verdict, entry, pc>> /\ (UNCHANGED conn \/ \E c \in {"none", "pending"} : conn' = [conn EXCEPT ![t] = c])
      BY <2>1 DEF Sends, TimesOut, NextCopy
    <3> QED BY <1>t, <3>1
  <2>2. CASE Answered(t)
    BY <1>7, <2>2 DEF Answered
  <2>3. CASE GivesUp(t) \/ Ends(t)
    BY <1>7, <2>3 DEF GivesUp, Ends
  <2> QED BY <1>8, <2>1, <2>2, <2>3 DEF Goroutine
<1>9. CASE Closed
  <2>1. \A t \in Tool : entry'[t] = entry[t] \/ \E out : entry'[t] = Dropped(out)
    BY <1>9 DEF Closed
  <2>2. UNCHANGED <<verdict, conn, pc>>
    BY <1>9 DEF Closed
  <2> QED BY <1>d, <2>1, <2>2
<1>10. CASE Tick \/ Close \/ \E w \in waits : OnEvent(w)
  BY <1>1, <1>10 DEF Tick, Close, OnEvent
<1>11. CASE (\E c \in copies : VaultTakes(c)) \/ (\E i \in Id : VaultDecides(i))
  <2>1. UNCHANGED <<entry, conn, pc>>
    BY <1>11 DEF VaultTakes, VaultDecides
  <2> QED BY <1>1, <1>2, <2>1, VerdictStep
<1> QED BY <1>3, <1>4, <1>5, <1>6, <1>8, <1>9, <1>10, <1>11 DEF Next

outcomes == <<[t \in Tool |-> Decided(t)], [t \in Tool |-> Told(t)], given>>

\* The vault's decision is the decision; "held" is none.
LEMMA DecisionMaps ==
  ASSUME IInv, NEW t \in Tool, NEW v \in {"held", "ok", "error"}, Decides(<<t, 0>>, v)
  PROVE  Requests!Decide(t) \/ UNCHANGED outcomes
<1>t. /\ verdict \in [Id -> {"none", "held", "ok", "error"}]
      /\ \A u \in Tool : InnerId(u, 0) = <<u, 0>> /\ <<u, 0>> \in Id
  BY DEF IInv, TypeOK, VaultType, InnerId, Id
<1>1. \A u \in Tool \ {t} : Decided(u)' = Decided(u)
  <2>1. \A u \in Tool \ {t} : <<u, 0>> # <<t, 0>>
    OBVIOUS
  <2>2. \A u \in Tool \ {t} : verdict'[<<u, 0>>] = verdict[<<u, 0>>]
    BY <1>t, <2>1 DEF Decides
  <2> QED BY <1>t, <2>2 DEF Decided
<1>2. Decided(t) = "none" /\ Decided(t)' = IF v = "held" THEN "none" ELSE v
  BY <1>t DEF Decides, Decided
<1>3. UNCHANGED <<[u \in Tool |-> Told(u)], given>>
  BY DEF Decides, Told
<1>4. CASE v = "held"
  BY <1>1, <1>2, <1>3, <1>4 DEF outcomes
<1>5. CASE v # "held"
  <2>1. [u \in Tool |-> Decided(u)]' = [[u \in Tool |-> Decided(u)] EXCEPT ![t] = v]
    BY <1>1, <1>2, <1>5
  <2> QED BY <1>2, <1>3, <1>5, <2>1 DEF Requests!Decide
<1> QED BY <1>4, <1>5

\* A call goes on, or returns what is no result.
LEMMA CallMaps ==
  ASSUME IInv, NEW t \in Tool, NEW to \in {"ensured", "waiting", "error", "pending", "none"}, UNCHANGED <<verdict, given>>,
         pc[t] \in {"idle", "ensured", "waiting"}, pc' = [pc EXCEPT ![t] = to]
  PROVE  Requests!Return(t) \/ UNCHANGED outcomes
<1>1. pc \in [Tool -> PcType]
  BY DEF IInv, TypeOK
<1>2. /\ \A u \in Tool \ {t} : Told(u)' = Told(u)
      /\ Told(t) = "nothing" /\ Told(t)' = IF to \in {"ensured", "waiting"} THEN "nothing" ELSE to
  BY <1>1 DEF Told
<1>3. UNCHANGED <<[u \in Tool |-> Decided(u)], given>>
  BY DEF Decided
<1>4. CASE to \in {"ensured", "waiting"}
  BY <1>2, <1>3, <1>4 DEF outcomes
<1>5. CASE to \in {"error", "pending", "none"}
  <2>1. [u \in Tool |-> Told(u)]' = [[u \in Tool |-> Told(u)] EXCEPT ![t] = to]
    BY <1>2, <1>5
  <2> QED BY <1>2, <1>3, <1>5, <2>1 DEF Requests!Return
<1> QED BY <1>4, <1>5

\* A result is taken: its request was executed, and it was not given yet.
LEMMA TakesMaps ==
  ASSUME IInv, Real, NEW t \in Tool, entry[t].at \in {"done", "kept", "gone"}, entry[t].out = "result", Give(t)
  PROVE  Requests!GiveResult(t)
<1>1. given \in [Tool -> Nat] /\ entry[t].at # "gone"
  BY DEF IInv, TypeOK, TakenIsGone
<1>2. given[t] = 0
  BY <1>1 DEF IInv, TakenIsGone
<1>4. given' = [given EXCEPT ![t] = 1]
  BY <1>2 DEF Give
<1>5. Decided(t) = "ok"
  BY DEF Real, Decided
<1> QED BY <1>2, <1>4, <1>5 DEF Requests!GiveResult

LEMMA WakesMaps ==
  ASSUME IInv, Real, NEW t \in Tool, Wakes(t)
  PROVE  Requests!Return(t) \/ UNCHANGED outcomes
<1>1. UNCHANGED verdict /\ pc[t] = "waiting" /\ entry[t].out \in {"none", "result", "error"} /\ given \in [Tool -> Nat]
  BY EntryTypes DEF Wakes, IInv, TypeOK
<1>2. CASE ToolEnds(t)
  BY <1>1, <1>2, CallMaps DEF ToolEnds
<1>3. CASE ToolTakes(t) /\ entry[t].out # "result"
  <2>1. UNCHANGED given
    BY <1>1, <1>3 DEF ToolTakes, Give
  <2> QED BY <1>1, <1>3, <2>1, CallMaps DEF ToolTakes
<1>4. CASE ToolTakes(t) /\ entry[t].out = "result"
  <2>1. Requests!GiveResult(t)
    BY <1>4, TakesMaps DEF ToolTakes
  <2>2. pc' = [pc EXCEPT ![t] = "result"] /\ pc \in [Tool -> PcType]
    BY <1>4 DEF ToolTakes, IInv, TypeOK
  <2>3. Told(t) = "nothing" /\ [u \in Tool |-> Told(u)]' = [[u \in Tool |-> Told(u)] EXCEPT ![t] = "result"]
    BY <1>1, <2>2 DEF Told
  <2>4. UNCHANGED [u \in Tool |-> Decided(u)]
    BY <1>1 DEF Decided
  <2> QED BY <2>1, <2>3, <2>4 DEF Requests!Return
<1> QED BY <1>2, <1>3, <1>4 DEF Wakes

LEMMA StatusMaps ==
  ASSUME IInv, Real, NEW t \in Tool, Status(t)
  PROVE  Requests!Collect(t)
<1>1. UNCHANGED <<verdict, pc>> /\ Told(t) = "pending"
  BY DEF Status, Real, Told
<1>2. Requests!GiveResult(t)
  BY TakesMaps DEF Status
<1>3. UNCHANGED <<[u \in Tool |-> Decided(u)], [u \in Tool |-> Told(u)]>>
  BY <1>1 DEF Decided, Told
<1> QED BY <1>1, <1>2, <1>3 DEF Requests!Collect

\* Every step is one of the promised ones, or changes no outcome.
LEMMA StepMaps ==
  ASSUME IInv, Real, [Next]_vars
  PROVE  [Requests!Next]_outcomes
<1> USE DEF Requests!Next
<1>1. CASE UNCHANGED <<verdict, pc, given>>
  BY <1>1 DEF outcomes, Decided, Told
<1>2. ASSUME NEW t \in Tool, Do(t) \/ Register(t) PROVE Requests!Next \/ UNCHANGED outcomes
  <2>1. UNCHANGED <<verdict, given>> /\ pc[t] \in {"idle", "ensured"}
        /\ \E to \in {"ensured", "waiting", "error"} : pc' = [pc EXCEPT ![t] = to]
    BY <1>2 DEF Do, Register
  <2> QED BY <2>1, CallMaps
<1>3. CASE (\E c \in copies : VaultTakes(c)) \/ (\E i \in Id : VaultDecides(i))
  <2>1. UNCHANGED <<pc, given>> /\ Next
    BY <1>3 DEF VaultTakes, VaultDecides, Next
  <2> QED BY <1>1, <2>1, VerdictStep, DecisionMaps
<1>4. CASE Tick \/ Close \/ Closed \/ (\E i \in answers : ConnAnswers(i)) \/ (\E w \in waits : OnEvent(w))
  BY <1>1, <1>4 DEF Tick, Close, Closed, ConnAnswers, OnEvent
<1>5. ASSUME NEW t \in Tool, ContextEnds(t) \/ Evict(t) \/ Goroutine(t) PROVE [Requests!Next]_outcomes
  <2>1. CASE ContextEnds(t) \/ Evict(t)
    BY <1>1, <2>1 DEF ContextEnds, Evict
  <2>2. CASE Sends(t) \/ TimesOut(t) \/ NextCopy(t)
    BY <1>1, <2>2 DEF Sends, TimesOut, NextCopy
  <2>3. CASE Answered(t) \/ GivesUp(t) \/ Ends(t)
    BY <1>1, <2>3 DEF Answered, GivesUp, Ends
  <2> QED BY <1>5, <2>1, <2>2, <2>3 DEF Goroutine
<1>6. CASE UNCHANGED vars
  BY <1>1, <1>6
<1> QED BY <1>2, <1>3, <1>4, <1>5, <1>6, WakesMaps, StatusMaps DEF Next

\* A result that is given is that of a request the vault executed, once, and to nobody who was told an error (do,
\* Status, finish).
THEOREM ResultsAreOfRequests == Spec => ResultsAreReal
<1>1. Init => Requests!Init /\ Real
  <2>1. Init => Real
    BY DEF Init, Real, NoEntry, Entry
  <2>2. \A t \in Tool : InnerId(t, 0) \in Id
    BY DEF InnerId, Id
  <2>3. Init => Requests!Init
    BY <2>2 DEF Init, Requests!Init, Decided, Told
  <2> QED BY <2>1, <2>3
<1>2. IInv /\ Real /\ [Next]_vars => Real'
  BY RealStep DEF Real
<1>3. IInv /\ Real /\ [Next]_vars
        => [Requests!Next]_<<[t \in Tool |-> Decided(t)], [t \in Tool |-> Told(t)], given>>
  BY StepMaps DEF outcomes
<1> QED BY <1>1, <1>2, <1>3, Invariance, PTL DEF Spec, ResultsAreReal, Requests!Spec

\* What a step of AtMostOnce does, in functions.
GivenWell(d, o, g) == \A t \in Tool : g[t] <= 1 /\ (g[t] > 0 => d[t] = "ok" /\ o[t] \in {"result", "pending"})

LEMMA GivenWellStays ==
  ASSUME NEW d, NEW o, NEW g \in [Tool -> Nat], NEW dd, NEW oo, NEW gg, NEW c \in Tool,
         d = [t \in Tool |-> d[t]], o = [t \in Tool |-> o[t]], GivenWell(d, o, g),
         \/ \E v : d[c] = "none" /\ dd = [d EXCEPT ![c] = v] /\ oo = o /\ gg = g
         \/ \E out : o[c] = "nothing" /\ dd = d /\ oo = [o EXCEPT ![c] = out] /\ gg = g
         \/ /\ d[c] = "ok" /\ g[c] = 0 /\ dd = d /\ gg = [g EXCEPT ![c] = 1]
            /\ oo = [o EXCEPT ![c] = "result"] \/ (o[c] = "pending" /\ oo = o)
  PROVE  GivenWell(dd, oo, gg)
<1>1. ASSUME NEW v, d[c] = "none", dd = [d EXCEPT ![c] = v], oo = o, gg = g PROVE GivenWell(dd, oo, gg)
  BY <1>1 DEF GivenWell
<1>2. ASSUME NEW out, o[c] = "nothing", dd = d, oo = [o EXCEPT ![c] = out], gg = g PROVE GivenWell(dd, oo, gg)
  BY <1>2 DEF GivenWell
<1>3. ASSUME d[c] = "ok", dd = d, gg = [g EXCEPT ![c] = 1],
             oo = [o EXCEPT ![c] = "result"] \/ (o[c] = "pending" /\ oo = o)
      PROVE  GivenWell(dd, oo, gg)
  BY <1>3 DEF GivenWell
<1> QED BY <1>1, <1>2, <1>3

\* Who has a result has the one result of an executed request: AtMostOnce has it so, and the Client implements that.
THEOREM ResultGivenOnce == Spec => []GivenOnce
<1> DEFINE d == [t \in Tool |-> Decided(t)]
           o == [t \in Tool |-> Told(t)]
<1>0. GivenOnce <=> GivenWell(d, o, given)
  BY DEF GivenOnce, Requests!GivenOnce, GivenWell
<1>1. Requests!Init => GivenOnce
  BY DEF Requests!Init, GivenOnce, Requests!GivenOnce
<1>2. IInv /\ GivenOnce /\ [Requests!Next]_<<d, o, given>> => GivenOnce'
  <2> SUFFICES ASSUME IInv, GivenOnce, [Requests!Next]_<<d, o, given>> PROVE GivenOnce'
    OBVIOUS
  <2>1. given \in [Tool -> Nat] /\ d = [t \in Tool |-> d[t]] /\ o = [t \in Tool |-> o[t]]
    BY DEF IInv, TypeOK
  <2>2. ASSUME NEW c \in Tool, Requests!Decide(c) \/ Requests!Return(c) \/ Requests!Collect(c)
        PROVE  GivenWell(d', o', given')
    <3>1. \/ \E v : d[c] = "none" /\ d' = [d EXCEPT ![c] = v] /\ o' = o /\ given' = given
          \/ \E out : o[c] = "nothing" /\ d' = d /\ o' = [o EXCEPT ![c] = out] /\ given' = given
          \/ /\ d[c] = "ok" /\ given[c] = 0 /\ d' = d /\ given' = [given EXCEPT ![c] = 1]
             /\ o' = [o EXCEPT ![c] = "result"] \/ (o[c] = "pending" /\ o' = o)
      BY <2>2 DEF Requests!Decide, Requests!Return, Requests!Collect, Requests!GiveResult
    <3> HIDE DEF d, o
    <3> QED BY <1>0, <2>1, <3>1, GivenWellStays
  <2>3. ASSUME UNCHANGED <<d, o, given>> PROVE GivenWell(d', o', given')
    <3> HIDE DEF d, o
    <3> QED BY <1>0, <2>3
  <2>4. GivenOnce' <=> GivenWell(d', o', given')
    BY DEF GivenOnce, Requests!GivenOnce, GivenWell
  <2> QED BY <2>2, <2>3, <2>4 DEF Requests!Next
<1> QED BY <1>1, <1>2, Invariance, ResultsAreOfRequests, PTL DEF ResultsAreReal, Requests!Spec

=============================================================================
