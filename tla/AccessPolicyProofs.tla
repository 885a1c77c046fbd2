------------------------- MODULE AccessPolicyProofs -------------------------
(***************************************************************************)
(* The bound on requests in any hour holds for every clock, every number   *)
(* of tool calls and every fault: the inductive invariant is AccessPolicy's *)
(* IInv.                                                                   *)
(***************************************************************************)
EXTENDS AccessPolicy, TLAPS

USE AccessAssumption, NoneAssumption DEF Return, Ended, Wake, SetIfUnchanged, Same, Fault

LEMMA NoFlightType == NoFlight \in Flight /\ Started \in Flight /\ NoAccess \in Acc
BY DEF NoFlight, Started, Flight, NoAccess, Acc, Codes

LEMMA SentType == ASSUME NEW a \in Acc PROVE Sent(a) \in Flight
BY DEF Sent, NoFlight, Flight, Codes

LEMMA AtStartType == AtStart \in [Keys -> Flight]
<1>1. Sent(NoAccess) \in Flight /\ NoFlight \in Flight
  BY NoFlightType, SentType
<1> QED
  BY <1>1 DEF AtStart

\* Pruning keeps an end of the list.
LEMMA PrunedFacts ==
  ASSUME sent \in Seq(Nat), NEW k \in 0..Len(sent)
  PROVE  /\ Pruned(k) \in Seq(Nat) /\ Len(Pruned(k)) = Len(sent) - k
         /\ \A i \in 1..Len(Pruned(k)) : Pruned(k)[i] = sent[k + i]
BY DEF Pruned

LEMMA TypeInit == Init => TypeOK
<1> SUFFICES ASSUME Init PROVE TypeOK
  OBVIOUS
<1>1. VaultType
  BY DEF Init, VaultType, VaultState
<1>2. ConnType
  BY DEF Init, ConnType, NoAccess, Acc
<1>3. CallsType
  BY AtStartType DEF Init, CallsType
<1>4. ManagerType
  <2>1. sent \in Seq(Nat) /\ asked \in Seq(Nat)
    BY DEF Init
  <2> QED
    BY <2>1 DEF Init, ManagerType
<1> QED
  BY <1>1, <1>2, <1>3, <1>4 DEF Init, TypeOK

\* What the vault and the member do changes no type, and nothing of this process.
LEMMA VaultStepType == ASSUME TypeOK, VaultNext PROVE TypeOK'
<1> USE DEF clock, net, conn, quiets, limits, hist
<1>1. vault.pend \in Nat /\ vault.last \in Nat /\ vault.session \in Nat /\ vault.exp \in Nat
      /\ vault.sessions \in Nat /\ vault.holds \in Nat /\ vault.held \in BOOLEAN
      /\ now \in Nat
      /\ vault = [pend |-> vault.pend, last |-> vault.last, session |-> vault.session, exp |-> vault.exp, sessions |-> vault.sessions, holds |-> vault.holds, held |-> vault.held]
  BY DEF TypeOK, VaultType, VaultState
<1>2. ASSUME vault' \in VaultState, strays' \in Nat, mail' \subseteq Event,
             UNCHANGED <<clock, conn, flight, pc, quiets, limits, held, statusAt, hist>>
      PROVE  TypeOK'
  BY <1>2 DEF TypeOK, VaultType, ConnType, CallsType, ManagerType
<1>3. CASE MemberGrants
  <2>1. vault' = [pend |-> 0, last |-> vault.last, session |-> vault.sessions + 1, exp |-> now + Life, sessions |-> vault.sessions + 1, holds |-> vault.holds, held |-> vault.held]
    BY <1>1, <1>3 DEF MemberGrants
  <2>2. vault' \in VaultState
    BY <1>1, <2>1 DEF VaultState
  <2> QED
    BY <1>1, <1>2, <1>3, <2>2 DEF MemberGrants, TypeOK, VaultType, Event
<1>4. CASE MemberDenies
  <2>1. vault' = [pend |-> 0, last |-> vault.last, session |-> vault.session, exp |-> vault.exp, sessions |-> vault.sessions, holds |-> vault.holds, held |-> vault.held]
    BY <1>1, <1>4 DEF MemberDenies
  <2>2. vault' \in VaultState
    BY <1>1, <2>1 DEF VaultState
  <2> QED
    BY <1>1, <1>2, <1>4, <2>2 DEF MemberDenies, TypeOK, VaultType, Event
<1>5. CASE MemberEnds
  <2>1. vault' = [pend |-> 0, last |-> vault.last, session |-> 0, exp |-> 0, sessions |-> vault.sessions, holds |-> vault.holds, held |-> vault.held]
    BY <1>1, <1>5 DEF MemberEnds
  <2>2. vault' \in VaultState
    BY <1>1, <2>1 DEF VaultState
  <2> QED
    BY <1>1, <1>2, <1>5, <2>2 DEF MemberEnds, TypeOK, VaultType, Event
<1>6. CASE VaultHold
  <2>1. vault' = [pend |-> vault.pend, last |-> vault.last, session |-> vault.session, exp |-> vault.exp, sessions |-> vault.sessions, holds |-> vault.holds + 1, held |-> TRUE]
    BY <1>1, <1>6 DEF VaultHold
  <2>2. vault' \in VaultState
    BY <1>1, <2>1 DEF VaultState
  <2> QED
    BY <1>1, <1>2, <1>6, <2>2 DEF VaultHold, TypeOK, VaultType, Event
<1>7. CASE MemberChecks
  <2>1. vault' = [pend |-> vault.pend, last |-> vault.last, session |-> vault.session, exp |-> vault.exp, sessions |-> vault.sessions, holds |-> vault.holds, held |-> FALSE]
    BY <1>1, <1>7 DEF MemberChecks
  <2>2. vault' \in VaultState
    BY <1>1, <2>1 DEF VaultState
  <2> QED
    BY <1>1, <1>2, <1>7, <2>2 DEF MemberChecks, TypeOK, VaultType, Event
<1>8. CASE VaultTakesStray
  <2>1. vault' = vault \/ vault' = [pend |-> now + Quiet, last |-> now, session |-> vault.session, exp |-> vault.exp, sessions |-> vault.sessions, holds |-> vault.holds, held |-> vault.held]
    BY <1>1, <1>8 DEF VaultTakesStray, TakeRequest
  <2>2. vault' \in VaultState
    BY <1>1, <2>1 DEF VaultState
  <2> QED
    BY <1>1, <1>2, <1>8, <2>2 DEF VaultTakesStray, TypeOK, VaultType
<1> QED
  BY <1>3, <1>4, <1>5, <1>6, <1>7, <1>8 DEF VaultNext

\* A step of a request or of a tool call that asks for no access.
LEMMA CallStepType ==
  ASSUME TypeOK, flight' \in [Keys -> Flight],
         pc' \in [Caller -> {"idle", "probe", "retry", "request", "ready", "work"}],
         vault' \in VaultState, strays' \in Nat, faults' \in Nat, acc' \in Acc,
         outstanding' \in BOOLEAN, held' \in BOOLEAN, outExp' \in Nat, allowedAfter' \in Nat,
         statusAt' \in Nat, quietUntil' \in Nat,
         UNCHANGED <<now, mail, applying, saved, sent, hist>>
  PROVE  TypeOK'
BY DEF TypeOK, VaultType, ConnType, CallsType, ManagerType, Keys, hist

LEMMA AnswerType == ASSUME TypeOK, NEW k \in Keys, VaultAnswers(k) PROVE TypeOK'
<1> USE DEF clock, net, conn, quiets, limits, hist
<1>1. flight[k] \in Flight /\ vault \in VaultState /\ now \in Nat
  BY DEF TypeOK, VaultType, CallsType, Keys
<1>2. vault.session \in Nat /\ vault.last \in Nat /\ vault.held \in BOOLEAN
  BY <1>1 DEF VaultState
<1>3. RequestReply.code \in Codes /\ RequestReply.note \in Nat
  BY <1>1, <1>2 DEF RequestReply, Codes
<1>4. OtherReply(k).code \in Codes /\ OtherReply(k).note \in Nat
  BY <1>1, <1>2 DEF OtherReply, Codes
<1>5. flight' \in [Keys -> Flight]
  <2>1. PICK c \in Codes, n \in Nat :
          flight' = [flight EXCEPT ![k] = [at |-> "answered", with |-> flight[k].with,
                                           code |-> c, note |-> n]]
    BY <1>3, <1>4 DEF VaultAnswers
  <2>2. [at |-> "answered", with |-> flight[k].with, code |-> c, note |-> n] \in Flight
    BY <1>1 DEF Flight
  <2> QED
    BY <2>1, <2>2 DEF TypeOK, CallsType, Keys
<1>6. vault' \in VaultState
  <2>1. vault' = vault \/ vault' = [vault EXCEPT !.pend = now + Quiet, !.last = now]
    BY DEF VaultAnswers, TakeRequest
  <2>2. vault' = vault \/ vault' = [pend |-> now + Quiet, last |-> now, session |-> vault.session,
                exp |-> vault.exp, sessions |-> vault.sessions, holds |-> vault.holds, held |-> vault.held]
    BY <1>1, <2>1 DEF VaultState
  <2> QED
    BY <1>1, <2>2 DEF VaultState
<1> QED
  BY <1>5, <1>6, CallStepType DEF VaultAnswers, TypeOK, VaultType, ConnType, CallsType, ManagerType

\* What the goroutines do with an answer, and when none comes.
LEMMA BackgroundType ==
  ASSUME TypeOK, Background \/ CheckHold \/ \E k \in Keys : TimesOut(k)
  PROVE  TypeOK' /\ UNCHANGED <<now, sent, asked>>
<1> USE DEF clock, net, conn, quiets, limits, hist
<1> DEFINE PC == {"idle", "probe", "retry", "request", "ready", "work"}
<1>1. /\ flight \in [Keys -> Flight] /\ pc \in [Caller -> PC] /\ NoFlight \in Flight
      /\ Sent(acc) \in Flight /\ Sent(NoAccess) \in Flight /\ acc \in Acc /\ NoAccess \in Acc
      /\ vault \in VaultState /\ strays \in Nat /\ faults \in Nat /\ now \in Nat
      /\ outstanding \in BOOLEAN /\ held \in BOOLEAN /\ outExp \in Nat /\ allowedAfter \in Nat
      /\ statusAt \in Nat /\ quietUntil \in Nat
  BY NoFlightType, SentType DEF TypeOK, VaultType, ConnType, CallsType, ManagerType, Keys
<1>2. \A k \in Keys : flight[k].note \in Nat
  BY <1>1 DEF Flight
<1>3. CASE ProbeSends
  BY <1>1, <1>3, CallStepType DEF ProbeSends, Keys
<1>4. CASE ProbeEnds
  <2>1. [state |-> "active", session |-> flight["probe"].note, exp |-> 0] \in Acc
    BY <1>2 DEF Acc, Keys
  <2>2. acc' \in Acc
    BY <1>1, <1>4, <2>1 DEF ProbeEnds, ProbeFound
  <2> QED
    BY <1>1, <1>4, <2>2, CallStepType DEF ProbeEnds, Keys
<1>5. CASE RequestEnds
  <2>1. flight["request"].note \in Nat
    BY <1>2 DEF Keys
  <2>2. outExp' \in Nat /\ allowedAfter' \in Nat
    BY <1>1, <1>5, <2>1 DEF RequestEnds
  <2> QED
    BY <1>1, <1>5, <2>2, CallStepType DEF RequestEnds, Keys
<1>6. CASE OnStatus
  BY <1>1, <1>6, CallStepType DEF OnStatus, HeldAsTold, Keys
<1>7. CASE \E c \in Caller : WorkSends(c)
  BY <1>1, <1>7, CallStepType DEF WorkSends, Keys
<1>8. CASE \E c \in Caller : WorkEnds(c)
  <2>1. PICK c \in Caller : WorkEnds(c)
    BY <1>8
  <2>2. acc' \in Acc /\ held' \in BOOLEAN
    BY <1>1, <2>1 DEF WorkEnds
  <2>3. flight' \in [Keys -> Flight] /\ pc' \in [Caller -> PC]
    BY <1>1, <2>1 DEF WorkEnds, Keys
  <2> QED
    BY <1>1, <2>1, <2>2, <2>3, CallStepType DEF WorkEnds
<1>9. CASE CheckHold
  BY <1>1, <1>9, CallStepType DEF CheckHold, Keys
<1>10. CASE \E k \in Keys : TimesOut(k)
  <2>1. PICK k \in Keys : TimesOut(k)
    BY <1>10
  <2>2. strays' \in Nat
    BY <1>1, <2>1 DEF TimesOut
  <2> QED
    BY <1>1, <2>1, <2>2, CallStepType DEF TimesOut, Keys
<1> QED
  BY <1>3, <1>4, <1>5, <1>6, <1>7, <1>8, <1>9, <1>10 DEF Background

\* A session event, in its two halves.
LEMMA EventType ==
  ASSUME TypeOK, OnEvent \/ \E e \in mail : ApplyEvent(e)
  PROVE  TypeOK' /\ UNCHANGED <<now, sent, asked>>
<1> USE DEF clock, net, conn, quiets, limits, hist
<1>1. CASE OnEvent
  <2>1. now \in Nat /\ now + Quiet \in Nat /\ faults' \in Nat /\ now' = now /\ mail' \subseteq Event
    BY <1>1 DEF OnEvent, TypeOK, VaultType
  <2>2. [until |-> now + Quiet, here |-> TRUE] \in [until: Nat, here: BOOLEAN]
    BY <2>1
  <2>3. quietUntil' \in {quietUntil, now + Quiet}
        /\ refusal' \in {refusal, [until |-> now + Quiet, here |-> TRUE]}
    BY <1>1 DEF OnEvent, StartQuiet
  <2>4. ManagerType'
    BY <1>1, <2>1, <2>2, <2>3 DEF OnEvent, TypeOK, ManagerType
  <2> QED
    BY <1>1, <2>1, <2>4 DEF OnEvent, TypeOK, VaultType, ConnType, CallsType
<1>2. CASE \E e \in mail : ApplyEvent(e)
  <2>1. PICK e \in mail : ApplyEvent(e)
    BY <1>2
  <2>2. e \in Event
    BY DEF TypeOK, VaultType
  <2>3. acc' \in Acc
    BY <2>1, <2>2, NoFlightType DEF ApplyEvent, Event, Acc
  <2> QED
    BY <2>1, <2>2, <2>3 DEF ApplyEvent, TypeOK, VaultType, ConnType, CallsType, ManagerType
<1> QED
  BY <1>1, <1>2

\* Ensure sends, or does not.
LEMMA EnsureType ==
  ASSUME TypeOK, NEW c \in Caller, Ensure(c) \/ GiveUp(c)
  PROVE  TypeOK'
<1> USE DEF clock, net, conn, quiets, limits, hist
<1> DEFINE PC == {"idle", "probe", "retry", "request", "ready", "work"}
<1>1. /\ flight \in [Keys -> Flight] /\ pc \in [Caller -> PC] /\ NoFlight \in Flight
      /\ Sent(NoAccess) \in Flight /\ flight["probe"] \in Flight
      /\ now \in Nat /\ sent \in Seq(Nat) /\ asked \in Seq(Nat) /\ outExp \in Nat /\ quietUntil \in Nat
      /\ outstanding \in BOOLEAN
  BY NoFlightType, SentType DEF TypeOK, CallsType, ManagerType, Keys
<1>2. CASE EnsureOk(c) \/ EnsureHeld(c)
  BY <1>1, <1>2 DEF EnsureOk, EnsureHeld, TypeOK, VaultType, ConnType, CallsType, ManagerType, Keys
<1>8. CASE GiveUp(c)
  <2>1. flight' \in [Keys -> Flight] /\ pc' \in [Caller -> PC]
    BY <1>1, <1>8 DEF GiveUp, Keys
  <2> QED
    BY <1>8, <2>1 DEF GiveUp, TypeOK, VaultType, ConnType, CallsType, ManagerType, Keys
<1>3. CASE EnsureProbes(c)
  <2>1. flight' \in [Keys -> Flight]
    BY <1>1, <1>3, NoFlightType DEF EnsureProbes, Keys
  <2> QED
    BY <1>1, <1>3, <2>1 DEF EnsureProbes, TypeOK, VaultType, ConnType, CallsType, ManagerType, Keys
<1>4. ASSUME NEW k \in 0..Len(sent), sent' = Pruned(k) \/ sent' = Append(Pruned(k), now) \/ sent' = sent
      PROVE  sent' \in Seq(Nat)
  <2>1. Pruned(k) \in Seq(Nat)
    BY <1>1, PrunedFacts
  <2>2. Append(Pruned(k), now) \in Seq(Nat)
    BY <1>1, <2>1
  <2> QED
    BY <1>1, <1>4, <2>1, <2>2
<1>5. ASSUME ForgetUnanswered PROVE outstanding' \in BOOLEAN /\ quietUntil' \in Nat /\ outExp' \in Nat
  BY <1>1, <1>5 DEF ForgetUnanswered, StillWaiting, QuietNow
<1>6. CASE EnsureAsks(c)
  <2>1. sent' \in Seq(Nat) /\ asked' \in Seq(Nat)
    <3>1. PICK k \in 0..Len(sent) : sent' = Append(Pruned(k), now)
      BY <1>6 DEF EnsureAsks
    <3>2. sent' \in Seq(Nat)
      BY <1>4, <3>1
    <3>3. asked' = Append(asked, now)
      BY <1>6 DEF EnsureAsks
    <3> QED
      BY <1>1, <3>2, <3>3
  <2>2. flight' \in [Keys -> Flight] /\ pc' \in [Caller -> PC]
    BY <1>1, <1>6 DEF EnsureAsks, Keys
  <2> QED
    BY <1>5, <1>6, <2>1, <2>2 DEF EnsureAsks, TypeOK, VaultType, ConnType, CallsType, ManagerType, Keys
<1>7. CASE EnsureWaits(c)
  <2>1. sent' \in Seq(Nat)
    BY <1>1, <1>4, <1>7 DEF EnsureWaits
  <2> QED
    BY <1>1, <1>5, <1>7, <2>1 DEF EnsureWaits, TypeOK, VaultType, ConnType, CallsType, ManagerType, Keys
<1> QED
  BY <1>2, <1>3, <1>6, <1>7, <1>8 DEF Ensure

\* Every step keeps the types.
LEMMA TypeStep == TypeOK /\ [Next]_vars => TypeOK'
<1> SUFFICES ASSUME TypeOK, [Next]_vars PROVE TypeOK'
  OBVIOUS
<1> USE DEF clock, net, conn, quiets, limits, hist
<1>1. CASE Tick
  <2>1. vault' = [pend |-> IF now' < vault.pend THEN vault.pend ELSE 0,
                  last |-> IF now' < vault.last + Quiet THEN vault.last ELSE 0,
                  session |-> IF now' < vault.exp THEN vault.session ELSE 0,
                  exp |-> IF now' < vault.exp THEN vault.exp ELSE 0,
                  sessions |-> vault.sessions, holds |-> vault.holds, held |-> vault.held]
    BY <1>1 DEF Tick, TypeOK, VaultType, VaultState
  <2>2. vault' \in VaultState
    BY <2>1 DEF TypeOK, VaultType, VaultState
  <2>3. now' \in Nat /\ faults' \in Nat
    BY <1>1 DEF Tick, TypeOK
  <2>4. VaultType'
    BY <1>1, <2>2 DEF Tick, TypeOK, VaultType
  <2>5. ConnType' /\ CallsType'
    BY <1>1 DEF Tick, TypeOK, ConnType, CallsType
  <2>6. ManagerType'
    BY <1>1 DEF Tick, TypeOK, ManagerType
  <2> QED
    BY <2>3, <2>4, <2>5, <2>6 DEF TypeOK
<1>2. CASE Restart
  <2>1. flight' \in [Keys -> Flight]
    BY <1>2, AtStartType DEF Restart
  <2>2. sent' \in Seq(Nat) /\ asked' \in Seq(Nat)
    BY <1>2 DEF Restart
  <2>3. refusal' = [until |-> refusal.until, here |-> FALSE]
    BY <1>2 DEF Restart, TypeOK, ManagerType
  <2>4. refusal' \in [until: Nat, here: BOOLEAN]
    BY <2>3 DEF TypeOK, ManagerType
  <2>5. ManagerType'
    BY <1>2, <2>2, <2>4 DEF Restart, ManagerType
  <2>6. CallsType'
    BY <1>2, <2>1 DEF Restart, CallsType, Keys
  <2> QED
    BY <1>2, <2>5, <2>6 DEF Restart, TypeOK, VaultType, ConnType
<1>3. CASE UNCHANGED vars
  BY <1>3 DEF vars, TypeOK, VaultType, ConnType, CallsType, ManagerType
<1> QED
  BY <1>1, <1>2, <1>3, VaultStepType, AnswerType, BackgroundType, EventType, EnsureType
  DEF Next, TypeOK, CallsType, Keys

\* What the lists hold.
Lists == SentIsTheEnd /\ InOrder /\ RateBound

\* They hold it still when the clock runs, and when nothing is sent or pruned.
LEMMA ListsKept ==
  ASSUME TypeOK, Lists, now' \in Nat, now' >= now, UNCHANGED <<sent, asked>>
  PROVE  Lists'
<1>1. now \in Nat /\ asked \in Seq(Nat) /\ sent \in Seq(Nat)
  BY DEF TypeOK, ManagerType
<1>2. SentIsTheEnd'
  BY <1>1 DEF Lists, SentIsTheEnd, Gone
<1>3. InOrder'
  BY <1>1 DEF Lists, InOrder
<1>4. RateBound'
  BY DEF Lists, RateBound
<1> QED
  BY <1>2, <1>3, <1>4 DEF Lists

\* A request is sent only when fewer than MaxPerHour are left of the last hour, so that the one
\* MaxPerHour before it is an hour old.
LEMMA ListsAsk ==
  ASSUME TypeOK, Lists, NEW k \in 0..Len(sent), PrunesTo(k), Room(k),
         sent' = Append(Pruned(k), now), asked' = Append(asked, now), now' = now
  PROVE  Lists'
<1> DEFINE n == Len(asked)
           gone == Len(asked) - Len(sent)
<1>1. now \in Nat /\ asked \in Seq(Nat) /\ sent \in Seq(Nat) /\ n \in Nat /\ Len(sent) \in Nat
  BY DEF TypeOK, ManagerType
<1>2. /\ Pruned(k) \in Seq(Nat) /\ Len(Pruned(k)) = Len(sent) - k
      /\ \A i \in 1..Len(Pruned(k)) : Pruned(k)[i] = sent[k + i]
  BY <1>1, PrunedFacts
<1>3. /\ Len(asked') = n + 1 /\ asked'[n + 1] = now
      /\ \A i \in 1..n : asked'[i] = asked[i]
  BY <1>1
<1>4. /\ Len(sent') = Len(sent) - k + 1 /\ sent'[Len(sent) - k + 1] = now
      /\ \A i \in 1..(Len(sent) - k) : sent'[i] = sent[k + i]
  BY <1>1, <1>2
<1>5. \A i \in 1..n : asked[i] \in Nat /\ asked[i] <= now
  BY <1>1 DEF Lists, InOrder
<1>6. gone \in Nat /\ gone + k <= n /\ \A i \in 1..(gone + k) : asked[i] + Hour <= now
  <2>1. gone \in Nat /\ gone + k <= n
    BY <1>1 DEF Lists, SentIsTheEnd, Gone
  <2>2. \A i \in 1..gone : asked[i] + Hour <= now
    BY DEF Lists, SentIsTheEnd, Gone
  <2>3. ASSUME NEW i \in (gone + 1)..(gone + k) PROVE asked[i] + Hour <= now
    <3>1. i - gone \in 1..k /\ i - gone \in 1..Len(sent) /\ gone + (i - gone) = i
      BY <1>1, <2>1, <2>3
    <3>2. sent[i - gone] = asked[i]
      BY <3>1 DEF Lists, SentIsTheEnd, Gone
    <3> QED
      BY <3>1, <3>2 DEF PrunesTo
  <2> QED
    BY <1>1, <2>1, <2>2, <2>3
<1>7. SentIsTheEnd'
  <2>1. Len(asked') - Len(sent') = gone + k
    BY <1>1, <1>3, <1>4
  <2>2. \A i \in 1..(gone + k) : asked'[i] + Hour <= now
    BY <1>1, <1>3, <1>6
  <2>3. ASSUME NEW i \in 1..Len(sent') PROVE sent'[i] = asked'[gone + k + i]
    <3>1. CASE i = Len(sent) - k + 1
      BY <1>1, <1>3, <1>4, <3>1
    <3>2. CASE i # Len(sent) - k + 1
      <4>1. i \in 1..(Len(sent) - k) /\ k + i \in 1..Len(sent) /\ gone + (k + i) = gone + k + i
            /\ gone + k + i \in 1..n
        <5>1. i \in Nat /\ i >= 1 /\ i <= Len(sent) - k
          BY <1>1, <1>4, <2>3, <3>2
        <5>2. k \in Nat /\ k <= Len(sent) /\ n \in Nat /\ Len(sent) \in Nat /\ gone = n - Len(sent)
          BY <1>1
        <5>3. gone \in Nat
          BY <1>1, <1>6 DEF Lists, SentIsTheEnd, Gone
        <5> QED
          BY <5>1, <5>2, <5>3
      <4>2. sent'[i] = sent[k + i]
        BY <1>4, <4>1
      <4>3. sent[k + i] = asked[gone + (k + i)]
        BY <4>1 DEF Lists, SentIsTheEnd, Gone
      <4>4. asked'[gone + k + i] = asked[gone + k + i]
        BY <1>3, <4>1
      <4> QED
        BY <4>1, <4>2, <4>3, <4>4
    <3> QED
      BY <3>1, <3>2
  <2>4. Gone' = gone + k
    BY <2>1 DEF Gone
  <2>5. Gone' >= 0 /\ 1..Gone' = 1..(gone + k)
    BY <1>1, <1>6, <2>4
  <2>6. \A i \in 1..Gone' : asked'[i] + Hour <= now'
    BY <2>2, <2>5
  <2>7. \A i \in 1..Len(sent') : sent'[i] = asked'[Gone' + i]
    BY <2>3, <2>4
  <2> QED
    BY <2>5, <2>6, <2>7 DEF SentIsTheEnd
<1>8. InOrder'
  BY <1>1, <1>3, <1>5 DEF Lists, InOrder
<1>9. RateBound'
  <2> SUFFICES ASSUME NEW i \in 1..Len(asked'), i + MaxPerHour <= Len(asked')
               PROVE  asked'[i + MaxPerHour] - asked'[i] >= Hour
    BY DEF RateBound
  <2>1. i \in 1..n
    BY <1>1, <1>3
  <2>2. CASE i + MaxPerHour = n + 1
    <3>1. i \in 1..(gone + k)
      BY <1>1, <1>6, <2>1, <2>2 DEF Room
    <3>2. asked[i] + Hour <= now
      BY <1>6, <3>1
    <3> QED
      BY <1>1, <1>3, <1>5, <2>1, <2>2, <3>2
  <2>3. CASE i + MaxPerHour <= n
    <3>1. i + MaxPerHour \in 1..n
      BY <1>1, <2>1, <2>3
    <3>2. asked[i + MaxPerHour] - asked[i] >= Hour
      BY <2>1, <3>1 DEF Lists, RateBound
    <3>3. asked'[i + MaxPerHour] = asked[i + MaxPerHour] /\ asked'[i] = asked[i]
      BY <1>3, <2>1, <3>1
    <3> QED
      BY <3>2, <3>3
  <2>4. i + MaxPerHour <= n \/ i + MaxPerHour = n + 1
    <3>1. i + MaxPerHour <= n + 1 /\ i + MaxPerHour \in Nat
      BY <1>3, <2>1
    <3> QED
      BY <1>1, <3>1
  <2> QED
    BY <2>2, <2>3, <2>4
<1> QED
  BY <1>7, <1>8, <1>9 DEF Lists

\* Pruning alone drops what is an hour old.
LEMMA ListsPrune ==
  ASSUME TypeOK, Lists, NEW k \in 0..Len(sent), PrunesTo(k), sent' = Pruned(k),
         asked' = asked, now' = now
  PROVE  Lists'
<1> DEFINE gone == Len(asked) - Len(sent)
<1>1. now \in Nat /\ asked \in Seq(Nat) /\ sent \in Seq(Nat) /\ Len(asked) \in Nat /\ Len(sent) \in Nat
  BY DEF TypeOK, ManagerType
<1>2. /\ Len(Pruned(k)) = Len(sent) - k
      /\ \A i \in 1..Len(Pruned(k)) : Pruned(k)[i] = sent[k + i]
  BY <1>1, PrunedFacts
<1>3. Len(asked') - Len(sent') = gone + k /\ gone \in Nat
  BY <1>1, <1>2 DEF Lists, SentIsTheEnd, Gone
<1>4. ASSUME NEW i \in 1..(gone + k) PROVE asked[i] + Hour <= now
  <2>1. CASE i \in 1..gone
    BY <2>1 DEF Lists, SentIsTheEnd, Gone
  <2>2. CASE i \notin 1..gone
    <3>1. i - gone \in 1..k /\ i - gone \in 1..Len(sent) /\ gone + (i - gone) = i
      BY <1>1, <1>3, <2>2
    <3>2. sent[i - gone] = asked[i]
      BY <3>1 DEF Lists, SentIsTheEnd, Gone
    <3> QED
      BY <3>1, <3>2 DEF PrunesTo
  <2> QED
    BY <2>1, <2>2
<1>5. ASSUME NEW i \in 1..Len(sent') PROVE sent'[i] = asked'[gone + k + i]
  <2>1. k + i \in 1..Len(sent) /\ gone + (k + i) = gone + k + i
    BY <1>1, <1>2, <1>3, <1>5
  <2>2. sent[k + i] = asked[gone + (k + i)]
    BY <2>1 DEF Lists, SentIsTheEnd, Gone
  <2> QED
    BY <1>2, <2>1, <2>2
<1>6. SentIsTheEnd'
  <2>1. Gone' = gone + k /\ gone + k >= 0
    BY <1>1, <1>3 DEF Gone
  <2> QED
    BY <1>4, <1>5, <2>1 DEF SentIsTheEnd
<1> QED
  BY <1>6 DEF Lists, InOrder, RateBound

LEMMA ListsStep == TypeOK /\ Lists /\ [Next]_vars => Lists'
<1> SUFFICES ASSUME TypeOK, Lists, [Next]_vars PROVE Lists'
  OBVIOUS
<1> USE DEF clock, net, conn, quiets, limits, hist
<1>1. now \in Nat
  BY DEF TypeOK
<1>2. CASE Tick
  BY <1>1, <1>2, ListsKept DEF Tick
<1>3. CASE Restart
  BY <1>3 DEF Restart, Lists, SentIsTheEnd, Gone, InOrder, RateBound
<1>4. CASE VaultNext \/ \E k \in Keys : VaultAnswers(k)
  <2>1. UNCHANGED <<now, sent, asked>>
    BY <1>4 DEF VaultNext, VaultAnswers, MemberGrants, MemberDenies, MemberEnds, VaultHold, MemberChecks,
                VaultTakesStray
  <2> QED
    BY <1>1, <2>1, ListsKept
<1>5. CASE Background \/ CheckHold \/ \E k \in Keys : TimesOut(k)
  BY <1>1, <1>5, BackgroundType, ListsKept
<1>6. CASE OnEvent \/ \E e \in mail : ApplyEvent(e)
  BY <1>1, <1>6, EventType, ListsKept
<1>7. CASE \E c \in Caller : EnsureOk(c) \/ EnsureProbes(c) \/ EnsureHeld(c) \/ GiveUp(c)
  <2>1. UNCHANGED <<now, sent, asked>>
    BY <1>7 DEF EnsureOk, EnsureProbes, EnsureHeld, GiveUp
  <2> QED
    BY <1>1, <2>1, ListsKept
<1>8. CASE \E c \in Caller : EnsureAsks(c)
  BY <1>8, ListsAsk DEF EnsureAsks
<1>9. CASE \E c \in Caller : EnsureWaits(c)
  BY <1>1, <1>9, ListsKept, ListsPrune DEF EnsureWaits
<1>10. CASE UNCHANGED vars
  BY <1>1, <1>10, ListsKept DEF vars
<1> QED
  BY <1>2, <1>3, <1>4, <1>5, <1>6, <1>7, <1>8, <1>9, <1>10 DEF Next, Ensure, TypeOK, CallsType, Keys

\* The inductive invariant holds (AccessPolicy's IInv: types, and what the lists of times hold).
THEOREM Invariance == Spec => []IInv
<1>1. Init => IInv
  <2>1. Init => Len(asked) = 0 /\ Len(sent) = 0
    BY DEF Init
  <2> QED
    BY <2>1, TypeInit DEF IInv, SentIsTheEnd, Gone, InOrder, RateBound
<1>2. IInv /\ [Next]_vars => IInv'
  BY TypeStep, ListsStep DEF IInv, Lists
<1> QED
  BY <1>1, <1>2, PTL DEF Spec

\* Ensure never sends more than MaxPerHour requests in any hour, whatever became of them (pruneSent).
THEOREM AsksWithinTheHour == Spec => []RateBound
<1>1. IInv => RateBound
  BY DEF IInv
<1> QED
  BY <1>1, Invariance, PTL

(***************************************************************************)
(* Asking politely.                                                        *)
(***************************************************************************)

\* The steps that are about neither a refusal nor what is outstanding.
LEMMA QuietKept ==
  ASSUME \/ VaultNext \/ CheckHold \/ ProbeSends \/ ProbeEnds \/ OnStatus
         \/ \E k \in Keys : VaultAnswers(k) \/ TimesOut(k)
         \/ \E e \in mail : ApplyEvent(e)
         \/ \E c \in Caller : WorkSends(c) \/ WorkEnds(c) \/ EnsureOk(c) \/ EnsureProbes(c) \/ EnsureHeld(c) \/ GiveUp(c)
         \/ UNCHANGED vars
  PROVE  UNCHANGED <<now, refusal, quietUntil, outstanding, outExp>>
<1> USE DEF clock, net, conn, quiets, limits, hist
<1>1. CASE VaultNext
  BY <1>1 DEF VaultNext, MemberGrants, MemberDenies, MemberEnds, VaultHold, MemberChecks, VaultTakesStray
<1>2. CASE CheckHold \/ ProbeSends \/ ProbeEnds \/ OnStatus
  BY <1>2 DEF CheckHold, ProbeSends, ProbeEnds, OnStatus
<1>3. CASE \/ \E k \in Keys : VaultAnswers(k) \/ TimesOut(k)
           \/ \E e \in mail : ApplyEvent(e)
  BY <1>3 DEF VaultAnswers, TimesOut, ApplyEvent
<1>4. CASE \E c \in Caller : WorkSends(c) \/ WorkEnds(c) \/ EnsureOk(c) \/ EnsureProbes(c) \/ EnsureHeld(c) \/ GiveUp(c)
  BY <1>4 DEF WorkSends, WorkEnds, EnsureOk, EnsureProbes, EnsureHeld, GiveUp
<1>5. CASE UNCHANGED vars
  BY <1>5 DEF vars
<1> QED
  BY <1>1, <1>2, <1>3, <1>4, <1>5

LEMMA RefusalStep == TypeOK /\ RefusalIsQuiet /\ [Next]_vars => RefusalIsQuiet'
<1> SUFFICES ASSUME TypeOK, RefusalIsQuiet, [Next]_vars PROVE RefusalIsQuiet'
  OBVIOUS
<1> USE DEF clock, net, conn, quiets, limits, hist
<1>1. /\ now \in Nat /\ outExp \in Nat /\ quietUntil \in Nat
      /\ refusal \in [until: Nat, here: BOOLEAN] /\ refusal.until \in Nat
  BY DEF TypeOK, ManagerType
<1>2. CASE Tick
  BY <1>1, <1>2 DEF Tick, RefusalIsQuiet
<1>3. CASE OnEvent
  <2>1. now' = now /\ outstanding' = FALSE
    BY <1>3 DEF OnEvent
  <2>2. CASE UNCHANGED <<quietUntil, refusal>>
    BY <1>1, <2>1, <2>2 DEF RefusalIsQuiet
  <2>3. CASE quietUntil' = now + Quiet /\ refusal' = [until |-> now + Quiet, here |-> TRUE]
    BY <1>1, <2>1, <2>3 DEF RefusalIsQuiet
  <2> QED
    BY <1>3, <2>2, <2>3 DEF OnEvent, StartQuiet
<1>4. CASE RequestEnds
  <2>1. flight["request"].note \in Nat
    BY DEF TypeOK, CallsType, Keys, Flight
  <2>2. (outExp' = outExp /\ outstanding' = outstanding) \/ (outExp' >= now /\ outExp' \in Nat)
    BY <1>1, <1>4, <2>1 DEF RequestEnds
  <2>3. UNCHANGED <<now, refusal, quietUntil>>
    BY <1>4 DEF RequestEnds
  <2> QED
    BY <1>1, <2>2, <2>3 DEF RefusalIsQuiet
<1>5. CASE Restart
  <2>1. ~refusal'.here
    BY <1>1, <1>5 DEF Restart
  <2> QED
    BY <2>1 DEF RefusalIsQuiet
<1>6. CASE \E c \in Caller : EnsureAsks(c) \/ EnsureWaits(c)
  <2>1. ForgetUnanswered /\ now' = now /\ refusal' = refusal
    BY <1>6 DEF EnsureAsks, EnsureWaits
  <2> QED
    BY <1>1, <2>1 DEF RefusalIsQuiet, ForgetUnanswered, QuietNow, Unanswered, StillWaiting
<1>7. ASSUME UNCHANGED <<now, refusal, quietUntil, outstanding, outExp>>
      PROVE  RefusalIsQuiet'
  BY <1>7 DEF RefusalIsQuiet
<1> QED
  BY <1>2, <1>3, <1>4, <1>5, <1>6, <1>7, QuietKept DEF Next, Ensure, Background

\* Only Ensure sends a device.session.request.
LEMMA OnlyEnsureAsks ==
  ASSUME TypeOK, [Next]_vars, Asks
  PROVE  \E c \in Caller : EnsureAsks(c)
<1> USE DEF clock, net, conn, quiets, limits, hist
<1>1. /\ flight \in [Keys -> Flight] /\ "request" \in Keys /\ "request" \notin Caller
      /\ flight["request"].at = "none" /\ flight'["request"].at = "sent"
  BY DEF TypeOK, CallsType, Keys, Asks
<1>2. ASSUME flight' = flight PROVE FALSE
  BY <1>1, <1>2
<1>3. ASSUME NEW k \in Keys, k # "request", NEW v, flight' = [flight EXCEPT ![k] = v] PROVE FALSE
  BY <1>1, <1>3
<1>4. ASSUME flight' = [flight EXCEPT !["request"] = NoFlight] PROVE FALSE
  BY <1>1, <1>4 DEF NoFlight
<1>5. ~(Tick \/ VaultNext \/ OnEvent \/ UNCHANGED vars)
  BY <1>2 DEF Tick, VaultNext, OnEvent, vars, MemberGrants, MemberDenies, MemberEnds, VaultHold,
              MemberChecks, VaultTakesStray
<1>6. ~\E e \in mail : ApplyEvent(e)
  BY <1>2 DEF ApplyEvent
<1>7. ~Restart
  <2>1. AtStart["request"].at = "none"
    BY DEF AtStart, NoFlight, Keys
  <2> QED
    BY <1>1, <2>1 DEF Restart
<1>8. ~\E k \in Keys : VaultAnswers(k) \/ TimesOut(k)
  <2>1. ASSUME NEW k \in Keys, VaultAnswers(k) PROVE FALSE
    <3>1. k # "request"
      BY <1>1, <2>1 DEF VaultAnswers
    <3> QED
      BY <1>3, <2>1, <3>1 DEF VaultAnswers
  <2>2. ASSUME NEW k \in Keys, TimesOut(k) PROVE FALSE
    BY <1>3, <1>4, <2>2 DEF TimesOut
  <2> QED
    BY <2>1, <2>2
<1>9. ~(ProbeSends \/ ProbeEnds \/ CheckHold)
  BY <1>3 DEF ProbeSends, ProbeEnds, CheckHold, Keys
<1>10. ~(RequestEnds \/ OnStatus)
  BY <1>3, <1>4 DEF RequestEnds, OnStatus, Keys
<1>11. ASSUME NEW c \in Caller,
              WorkSends(c) \/ WorkEnds(c) \/ EnsureOk(c) \/ EnsureHeld(c) \/ EnsureProbes(c)
                \/ EnsureWaits(c) \/ GiveUp(c)
       PROVE  FALSE
  <2>1. c \in Keys /\ c # "request" /\ "probe" \in Keys
    BY <1>1 DEF Keys
  <2>2. CASE WorkSends(c) \/ WorkEnds(c) \/ GiveUp(c)
    BY <1>3, <2>1, <2>2 DEF WorkSends, WorkEnds, GiveUp
  <2>3. CASE EnsureOk(c) \/ EnsureHeld(c) \/ EnsureWaits(c)
    BY <1>2, <2>3 DEF EnsureOk, EnsureHeld, EnsureWaits
  <2>4. CASE EnsureProbes(c)
    BY <1>2, <1>3, <2>1, <2>4 DEF EnsureProbes
  <2> QED
    BY <1>11, <2>2, <2>3, <2>4
<1> QED
  BY <1>5, <1>6, <1>7, <1>8, <1>9, <1>10, <1>11 DEF Next, Ensure, Background

\* No request to the member within the quiet period of a refusal, while one is outstanding or went
\* unanswered just now, or before the time the vault named (Ensure).
THEOREM AsksOnlyPolitely == Spec => AsksPolitely
<1> DEFINE J == TypeOK /\ RefusalIsQuiet
<1> DEFINE Polite == Asks => /\ refusal.here => now >= refusal.until
                             /\ outstanding => now >= outExp + Quiet
                             /\ now >= allowedAfter
<1>1. Init => J
  <2>1. Init => ~refusal.here
    BY DEF Init
  <2> QED
    BY <2>1, TypeInit DEF RefusalIsQuiet
<1>2. J /\ [Next]_vars => J'
  BY TypeStep, RefusalStep
<1>3. J /\ [Next]_vars => Polite
  <2> SUFFICES ASSUME J, [Next]_vars, Asks
               PROVE  /\ refusal.here => now >= refusal.until
                      /\ outstanding => now >= outExp + Quiet
                      /\ now >= allowedAfter
    OBVIOUS
  <2>1. /\ now \in Nat /\ outExp \in Nat /\ quietUntil \in Nat /\ allowedAfter \in Nat
        /\ refusal.until \in Nat
    BY DEF TypeOK, ManagerType
  <2>2. now >= QuietNow /\ now >= allowedAfter /\ ~StillWaiting
    BY OnlyEnsureAsks DEF EnsureAsks, MayAsk, AskedAlready
  <2> QED
    BY <2>1, <2>2 DEF RefusalIsQuiet, QuietNow, Unanswered, StillWaiting
<1>4. J /\ [Next]_vars => [Polite]_vars
  BY <1>3
<1> HIDE DEF J, Polite
<1>5. Spec => []J
  BY <1>1, <1>2, PTL DEF Spec
<1>6. Spec => [][Polite]_vars
  BY <1>4, <1>5, PTL DEF Spec
<1> QED
  BY <1>6 DEF AsksPolitely, Polite

(***************************************************************************)
(* Late answers.                                                           *)
(***************************************************************************)

\* The vault counts the sessions it grants, and has the last one or none.
LEMMA VaultMoves ==
  ASSUME TypeOK, [Next]_vars
  PROVE  /\ vault.sessions \in Nat /\ vault'.sessions \in Nat /\ vault.session \in Nat
         /\ vault'.sessions >= vault.sessions
         /\ \/ vault'.session \in {0, vault.session}
            \/ vault'.session = vault.sessions + 1 /\ vault'.sessions = vault.sessions + 1
<1> USE DEF clock, net, conn, quiets, limits, hist
<1>1. /\ vault.sessions \in Nat /\ vault.session \in Nat
      /\ vault = [pend |-> vault.pend, last |-> vault.last, session |-> vault.session, exp |-> vault.exp,
                  sessions |-> vault.sessions, holds |-> vault.holds, held |-> vault.held]
  BY DEF TypeOK, VaultType, VaultState
<1> DEFINE Goal == /\ vault'.sessions \in Nat /\ vault'.sessions >= vault.sessions
                   /\ \/ vault'.session \in {0, vault.session}
                      \/ vault'.session = vault.sessions + 1 /\ vault'.sessions = vault.sessions + 1
<1> SUFFICES Goal
  BY <1>1
<1>2. ASSUME vault' = vault PROVE Goal
  BY <1>1, <1>2
<1>3. ASSUME vault'.session \in {0, vault.session}, vault'.sessions = vault.sessions PROVE Goal
  BY <1>1, <1>3
<1>4. CASE Tick
  <2>1. vault' = [pend |-> IF now' < vault.pend THEN vault.pend ELSE 0,
                  last |-> IF now' < vault.last + Quiet THEN vault.last ELSE 0,
                  session |-> IF now' < vault.exp THEN vault.session ELSE 0,
                  exp |-> IF now' < vault.exp THEN vault.exp ELSE 0,
                  sessions |-> vault.sessions, holds |-> vault.holds, held |-> vault.held]
    BY <1>1, <1>4 DEF Tick
  <2> QED
    BY <1>3, <2>1
<1>5. CASE MemberGrants
  <2>1. vault' = [pend |-> 0, last |-> vault.last, session |-> vault.sessions + 1, exp |-> now + Life,
                  sessions |-> vault.sessions + 1, holds |-> vault.holds, held |-> vault.held]
    BY <1>1, <1>5 DEF MemberGrants
  <2> QED
    BY <1>1, <2>1
<1>6. CASE MemberDenies \/ MemberEnds \/ VaultHold \/ MemberChecks
  <2>1. vault'.session \in {0, vault.session} /\ vault'.sessions = vault.sessions
    BY <1>1, <1>6 DEF MemberDenies, MemberEnds, VaultHold, MemberChecks
  <2> QED
    BY <1>3, <2>1
<1>7. CASE VaultTakesStray \/ \E k \in Keys : VaultAnswers(k)
  <2>1. vault' = vault \/ vault' = [pend |-> now + Quiet, last |-> now, session |-> vault.session,
                exp |-> vault.exp, sessions |-> vault.sessions, holds |-> vault.holds, held |-> vault.held]
    BY <1>1, <1>7 DEF VaultTakesStray, VaultAnswers, TakeRequest
  <2> QED
    BY <1>2, <1>3, <2>1
<1>8. CASE OnEvent \/ Background \/ CheckHold \/ Restart \/ UNCHANGED vars
  <2>1. vault' = vault
    BY <1>8 DEF OnEvent, Background, CheckHold, Restart, vars, ProbeSends, ProbeEnds, RequestEnds, OnStatus,
                WorkSends, WorkEnds
  <2> QED
    BY <1>2, <2>1
<1>9. CASE \/ \E e \in mail : ApplyEvent(e)
           \/ \E k \in Keys : TimesOut(k)
           \/ \E c \in Caller : Ensure(c) \/ GiveUp(c)
  <2>1. vault' = vault
    BY <1>9 DEF ApplyEvent, TimesOut, Ensure, GiveUp, EnsureOk, EnsureProbes, EnsureHeld, EnsureAsks, EnsureWaits
  <2> QED
    BY <1>2, <2>1
<1> HIDE DEF Goal
<1> QED
  BY <1>4, <1>5, <1>6, <1>7, <1>8, <1>9 DEF Next, VaultNext

\* What is known stays known, and over.
LEMMA StaysKnown ==
  ASSUME TypeOK, [Next]_vars, NEW a \in Acc, Known(a)
  PROVE  a.session <= vault'.sessions /\ (a.state = "active" => a.session # 0)
<1>1. a.session \in Nat
  BY DEF Acc
<1> QED
  BY <1>1, VaultMoves DEF Known

LEMMA StaysOver ==
  ASSUME TypeOK, [Next]_vars, NEW f \in Flight, Known(f.with), Over(f)
  PROVE  f.code = "session_required" /\ f.with.state = "active" => f.with.session # vault'.session
<1>1. f.with.session \in Nat
  BY DEF Flight, Acc
<1> QED
  BY <1>1, VaultMoves DEF Known, Over

\* How a request moves: an answer comes from the vault alone.
LEMMA FlightMoves ==
  ASSUME TypeOK, [Next]_vars, NEW k \in Keys
  PROVE  flight'[k] \in {flight[k], NoFlight, Started, Sent(acc), Sent(NoAccess)} \/ VaultAnswers(k)
<1> USE DEF clock, net, conn, quiets, limits, hist
<1> DEFINE Goal == flight'[k] \in {flight[k], NoFlight, Started, Sent(acc), Sent(NoAccess)} \/ VaultAnswers(k)
<1> SUFFICES Goal
  OBVIOUS
<1>1. flight \in [Keys -> Flight]
  BY DEF TypeOK, CallsType
<1>2. ASSUME flight' = flight PROVE Goal
  BY <1>2
<1>3. ASSUME NEW j \in Keys, NEW v \in {NoFlight, Started, Sent(acc), Sent(NoAccess)},
             flight' = [flight EXCEPT ![j] = v]
      PROVE  Goal
  BY <1>1, <1>3
<1>4. CASE Tick \/ VaultNext \/ OnEvent \/ UNCHANGED vars \/ \E e \in mail : ApplyEvent(e)
  <2>1. flight' = flight
    BY <1>4 DEF Tick, VaultNext, OnEvent, vars, MemberGrants, MemberDenies, MemberEnds, VaultHold,
                MemberChecks, VaultTakesStray, ApplyEvent
  <2> QED
    BY <1>2, <2>1
<1>5. CASE \E j \in Keys : VaultAnswers(j)
  <2>1. PICK j \in Keys : VaultAnswers(j)
    BY <1>5
  <2>2. PICK v : flight' = [flight EXCEPT ![j] = v]
    BY <2>1 DEF VaultAnswers
  <2> QED
    BY <1>1, <2>1, <2>2
<1>6. CASE \E j \in Keys : TimesOut(j)
  BY <1>3, <1>6 DEF TimesOut
<1>7. CASE Restart
  BY <1>7 DEF Restart, AtStart
<1>8. CASE ProbeSends \/ ProbeEnds \/ RequestEnds \/ OnStatus \/ CheckHold
  <2>1. "probe" \in Keys /\ "request" \in Keys /\ "status" \in Keys /\ "conn" \in Keys
    BY DEF Keys
  <2> QED
    BY <1>3, <1>8, <2>1 DEF ProbeSends, ProbeEnds, RequestEnds, OnStatus, CheckHold
<1>9. CASE \E c \in Caller : WorkSends(c) \/ WorkEnds(c) \/ GiveUp(c)
  <2>1. PICK c \in Caller : WorkSends(c) \/ WorkEnds(c) \/ GiveUp(c)
    BY <1>9
  <2>2. c \in Keys
    BY DEF Keys
  <2> QED
    BY <1>3, <2>1, <2>2 DEF WorkSends, WorkEnds, GiveUp
<1>10. CASE \E c \in Caller : Ensure(c)
  <2>1. "probe" \in Keys /\ "request" \in Keys
    BY DEF Keys
  <2>2. PICK c \in Caller : Ensure(c)
    BY <1>10
  <2>3. CASE EnsureOk(c) \/ EnsureHeld(c) \/ EnsureWaits(c)
    BY <1>2, <2>3 DEF EnsureOk, EnsureHeld, EnsureWaits
  <2>4. CASE EnsureProbes(c)
    BY <1>2, <1>3, <2>1, <2>4 DEF EnsureProbes
  <2>5. CASE EnsureAsks(c)
    BY <1>3, <2>1, <2>5 DEF EnsureAsks
  <2> QED
    BY <2>2, <2>3, <2>4, <2>5 DEF Ensure
<1> HIDE DEF Goal
<1> QED
  BY <1>4, <1>5, <1>6, <1>7, <1>8, <1>9, <1>10 DEF Next, Background

LEMMA AnswersStep ==
  ASSUME TypeOK, SessionsKnown, AnswersKnown, [Next]_vars
  PROVE  AnswersKnown'
<1>1. flight \in [Keys -> Flight] /\ "probe" \in Keys /\ acc \in Acc /\ NoAccess \in Acc
      /\ vault.session \in Nat /\ vault.sessions \in Nat
  BY NoFlightType DEF TypeOK, CallsType, ConnType, Keys, VaultType, VaultState
<1>2. Known(acc) /\ Known(NoAccess)
  BY <1>1 DEF SessionsKnown, Known, NoAccess
<1> DEFINE Fine(k, f) ==
                      /\ f.with.session <= vault'.sessions /\ (f.with.state = "active" => f.with.session # 0)
                      /\ f.code = "session_required" /\ f.with.state = "active" => f.with.session # vault'.session
                      /\ k = "probe" /\ f.code = "ok" => f.note \in 1..vault'.sessions
<1>3. ASSUME NEW k, NEW a \in Acc, Known(a) PROVE Fine(k, Sent(a))
  <2>1. Sent(a).with = a /\ Sent(a).code = ""
    BY DEF Sent
  <2> QED
    BY <1>3, <2>1, StaysKnown
<1>4. ASSUME NEW k PROVE Fine(k, NoFlight) /\ Fine(k, Started)
  <2>1. NoFlight.with = NoAccess /\ NoFlight.code = "" /\ Started.with = NoAccess /\ Started.code = ""
    BY DEF NoFlight, Started
  <2> QED
    BY <1>1, <1>2, <2>1, StaysKnown
<1>5. ASSUME NEW k \in Keys PROVE Fine(k, flight[k])
  <2>1. flight[k] \in Flight /\ flight[k].with \in Acc /\ Known(flight[k].with) /\ Over(flight[k])
    BY <1>1 DEF Flight, AnswersKnown
  <2> QED
    BY <1>1, <2>1, VaultMoves, StaysKnown, StaysOver DEF AnswersKnown
<1>6. ASSUME NEW k \in Keys, VaultAnswers(k)
      PROVE  Fine(k, flight'[k])
  <2> DEFINE r == IF k = "request" THEN RequestReply ELSE OtherReply(k)
  <2>1. flight'[k] = [at |-> "answered", with |-> flight[k].with, code |-> r.code, note |-> r.note]
    BY <1>1, <1>6 DEF VaultAnswers
  <2>2. flight'[k].with = flight[k].with /\ flight'[k].code = r.code /\ flight'[k].note = r.note
    BY <2>1
  <2>3. r.code = "session_required" => vault.session = 0
    BY DEF RequestReply, OtherReply
  <2>4. k = "probe" /\ r.code = "ok" => r.note = vault.session /\ vault.session # 0
    BY DEF OtherReply
  <2>5. vault'.session = vault.session /\ vault'.sessions = vault.sessions
    <3>1. vault = [pend |-> vault.pend, last |-> vault.last, session |-> vault.session, exp |-> vault.exp,
                   sessions |-> vault.sessions, holds |-> vault.holds, held |-> vault.held]
      BY DEF TypeOK, VaultType, VaultState
    <3>2. vault' = vault \/ vault' = [pend |-> now + Quiet, last |-> now, session |-> vault.session,
                exp |-> vault.exp, sessions |-> vault.sessions, holds |-> vault.holds, held |-> vault.held]
      BY <1>6, <3>1 DEF VaultAnswers, TakeRequest
    <3> QED
      BY <3>2
  <2>6. flight[k].with \in Acc /\ Known(flight[k].with)
    BY <1>1 DEF Flight, AnswersKnown
  <2>7. k = "probe" /\ r.code = "ok" => r.note \in 1..vault'.sessions
    BY <1>1, <2>4, <2>5 DEF SessionsKnown
  <2> HIDE DEF r
  <2> QED
    BY <2>2, <2>3, <2>5, <2>6, <2>7 DEF Known
<1> HIDE DEF Fine
<1>7. ASSUME NEW k \in Keys PROVE Fine(k, flight'[k])
  BY <1>1, <1>2, <1>3, <1>4, <1>5, <1>6, FlightMoves
<1>8. flight'["probe"].code = "ok" => flight'["probe"].note \in 1..vault'.sessions
  BY <1>1, <1>7 DEF Fine
<1> QED
  BY <1>7, <1>8 DEF Fine, AnswersKnown, Known, Over

\* What the session may become, and who says so.
LEMMA AccMoves ==
  ASSUME TypeOK, [Next]_vars
  PROVE  \/ acc' = acc
         \/ \E e \in mail : ApplyEvent(e)
         \/ Restart /\ acc' = saved
         \/ \E k \in Keys : /\ flight[k].code = "session_required" /\ Same(acc, flight[k].with)
                            /\ acc' = NoAccess
         \/ /\ ProbeEnds /\ flight["probe"].code = "ok"
            /\ acc' = [state |-> "active", session |-> flight["probe"].note, exp |-> 0]
<1> USE DEF clock, net, conn, quiets, limits, hist
<1>1. CASE Tick \/ VaultNext \/ OnEvent \/ UNCHANGED vars
  BY <1>1 DEF Tick, VaultNext, OnEvent, vars, MemberGrants, MemberDenies, MemberEnds, VaultHold,
              MemberChecks, VaultTakesStray
<1>2. CASE \E k \in Keys : VaultAnswers(k) \/ TimesOut(k)
  BY <1>2 DEF VaultAnswers, TimesOut
<1>3. CASE Restart
  BY <1>3 DEF Restart
<1>4. CASE ProbeSends \/ RequestEnds \/ OnStatus \/ CheckHold
  BY <1>4 DEF ProbeSends, RequestEnds, OnStatus, CheckHold
<1>5. CASE ProbeEnds
  <2>1. "probe" \in Keys
    BY DEF Keys
  <2> QED
    BY <1>5, <2>1 DEF ProbeEnds, ProbeFound
<1>6. CASE \E c \in Caller : WorkEnds(c)
  BY <1>6 DEF WorkEnds, Keys
<1>7. CASE \E c \in Caller : WorkSends(c) \/ Ensure(c) \/ GiveUp(c)
  BY <1>7 DEF WorkSends, GiveUp, Ensure, EnsureOk, EnsureProbes, EnsureHeld, EnsureAsks, EnsureWaits
<1> QED
  BY <1>1, <1>2, <1>3, <1>4, <1>5, <1>6, <1>7 DEF Next, Background

LEMMA MailMoves ==
  ASSUME TypeOK, SessionsKnown, [Next]_vars, NEW e \in mail', e \notin mail
  PROVE  e.session <= vault'.sessions /\ (e.type = "granted" => e.session # 0)
<1> USE DEF clock, net, conn, quiets, limits, hist
<1>1. /\ vault.sessions \in Nat /\ vault.session \in Nat /\ vault'.sessions \in Nat
      /\ vault'.sessions >= vault.sessions
  BY VaultMoves
<1>2. MemberGrants \/ MemberDenies \/ MemberEnds
  <2>1. CASE Tick \/ VaultHold \/ MemberChecks \/ VaultTakesStray \/ UNCHANGED vars \/ OnEvent
    BY <2>1 DEF Tick, VaultHold, MemberChecks, VaultTakesStray, vars, OnEvent
  <2>2. CASE Background \/ CheckHold \/ Restart
    BY <2>2 DEF Background, CheckHold, Restart, ProbeSends, ProbeEnds, RequestEnds, OnStatus, WorkSends, WorkEnds
  <2>3. CASE \/ \E j \in mail : ApplyEvent(j)
             \/ \E k \in Keys : VaultAnswers(k) \/ TimesOut(k)
             \/ \E c \in Caller : Ensure(c) \/ GiveUp(c)
    BY <2>3 DEF ApplyEvent, VaultAnswers, TimesOut, Ensure, GiveUp, EnsureOk, EnsureProbes, EnsureHeld,
                EnsureAsks, EnsureWaits
  <2> QED
    BY <2>1, <2>2, <2>3 DEF Next, VaultNext
<1>3. CASE MemberGrants
  <2>1. e = [type |-> "granted", session |-> vault.sessions + 1, exp |-> now + Life]
    BY <1>3 DEF MemberGrants
  <2>2. vault'.sessions = vault.sessions + 1
    BY <1>3 DEF MemberGrants, TypeOK, VaultType, VaultState
  <2> QED
    BY <1>1, <2>1, <2>2
<1>4. CASE MemberDenies
  <2>1. e = [type |-> "denied", session |-> 0, exp |-> 0]
    BY <1>4 DEF MemberDenies
  <2> QED
    BY <1>1, <2>1
<1>5. CASE MemberEnds
  <2>1. e = [type |-> "ended", session |-> vault.session, exp |-> 0]
    BY <1>5 DEF MemberEnds
  <2>2. vault.session # 0
    BY <1>5 DEF MemberEnds
  <2>3. vault.session <= vault.sessions
    BY DEF SessionsKnown
  <2> QED
    BY <1>1, <2>1, <2>2, <2>3
<1> QED
  BY <1>2, <1>3, <1>4, <1>5

LEMMA NewMailExpires ==
  ASSUME TypeOK, [Next]_vars, NEW e \in mail', e \notin mail
  PROVE  e.type = "granted" => e.exp # 0
<1> USE DEF clock, net, conn, quiets, limits, hist
<1>1. CASE MemberGrants
  BY <1>1 DEF MemberGrants, TypeOK
<1>2. CASE MemberDenies \/ MemberEnds
  BY <1>2 DEF MemberDenies, MemberEnds
<1>3. CASE Tick \/ VaultHold \/ MemberChecks \/ VaultTakesStray \/ UNCHANGED vars \/ OnEvent
  BY <1>3 DEF Tick, VaultHold, MemberChecks, VaultTakesStray, vars, OnEvent
<1>4. CASE Background \/ CheckHold \/ Restart
  BY <1>4 DEF Background, CheckHold, Restart, ProbeSends, ProbeEnds, RequestEnds, OnStatus, WorkSends, WorkEnds
<1>5. CASE \/ \E j \in mail : ApplyEvent(j)
           \/ \E k \in Keys : VaultAnswers(k) \/ TimesOut(k)
           \/ \E c \in Caller : Ensure(c) \/ GiveUp(c)
  BY <1>5 DEF ApplyEvent, VaultAnswers, TimesOut, Ensure, GiveUp, EnsureOk, EnsureProbes, EnsureHeld,
              EnsureAsks, EnsureWaits
<1> QED
  BY <1>1, <1>2, <1>3, <1>4, <1>5 DEF Next, VaultNext

LEMMA SessionsStep ==
  ASSUME TypeOK, SessionsKnown, AnswersKnown, [Next]_vars
  PROVE  SessionsKnown'
<1> USE DEF clock, net, conn, quiets, limits, hist
<1>1. /\ vault.sessions \in Nat /\ vault.session \in Nat /\ vault'.sessions \in Nat
      /\ vault'.sessions >= vault.sessions
      /\ \/ vault'.session \in {0, vault.session}
         \/ vault'.session = vault.sessions + 1 /\ vault'.sessions = vault.sessions + 1
  BY VaultMoves
<1>2. acc \in Acc /\ saved \in Acc /\ NoAccess \in Acc /\ mail \subseteq Event
  BY NoFlightType DEF TypeOK, ConnType, VaultType
<1> DEFINE Has(a) == a.session <= vault'.sessions /\ (a.state = "active" => a.session # 0)
<1>3. vault'.session <= vault'.sessions
  BY <1>1 DEF SessionsKnown
<1>4. Has(acc) /\ Has(saved)
  BY <1>2, StaysKnown DEF SessionsKnown
<1>5. Has(NoAccess)
  BY <1>1 DEF NoAccess
<1>6. ASSUME NEW e \in mail, ApplyEvent(e) PROVE Has(acc')
  <2>1. e.session \in Nat /\ e.session <= vault.sessions /\ (e.type = "granted" => e.session # 0)
    BY <1>2 DEF SessionsKnown, Event
  <2>2. CASE e.type = "granted"
    <3>1. acc' = [state |-> "active", session |-> e.session, exp |-> e.exp]
      BY <1>6, <2>2 DEF ApplyEvent
    <3> QED
      BY <1>1, <2>1, <2>2, <3>1
  <2>3. CASE e.type \in {"denied", "ended"}
    <3>1. acc' = NoAccess
      BY <1>6, <2>3 DEF ApplyEvent
    <3> QED
      BY <1>5, <3>1
  <2> QED
    BY <1>2, <2>2, <2>3 DEF Event
<1>7. Has(acc')
  <2>1. ASSUME flight["probe"].code = "ok",
               acc' = [state |-> "active", session |-> flight["probe"].note, exp |-> 0]
        PROVE  Has(acc')
    BY <1>1, <2>1 DEF AnswersKnown
  <2> HIDE DEF Has
  <2> QED
    BY <1>4, <1>5, <1>6, <2>1, AccMoves
<1>8. saved' = saved \/ saved' = acc'
  <2>1. CASE Tick \/ VaultNext \/ UNCHANGED vars \/ OnEvent \/ CheckHold \/ Restart
    BY <2>1 DEF Tick, VaultNext, vars, OnEvent, CheckHold, Restart, MemberGrants, MemberDenies, MemberEnds,
                VaultHold, MemberChecks, VaultTakesStray
  <2>2. CASE Background
    BY <2>2 DEF Background, ProbeSends, ProbeEnds, RequestEnds, OnStatus, WorkSends, WorkEnds
  <2>3. CASE \/ \E e \in mail : ApplyEvent(e)
             \/ \E k \in Keys : VaultAnswers(k) \/ TimesOut(k)
             \/ \E c \in Caller : Ensure(c) \/ GiveUp(c)
    BY <2>3 DEF ApplyEvent, VaultAnswers, TimesOut, Ensure, GiveUp, EnsureOk, EnsureProbes, EnsureHeld,
                EnsureAsks, EnsureWaits
  <2> QED
    BY <2>1, <2>2, <2>3 DEF Next
<1>9. Has(saved')
  <2> HIDE DEF Has
  <2> QED
    BY <1>4, <1>7, <1>8
<1>10. ASSUME NEW e \in mail' PROVE e.session <= vault'.sessions /\ (e.type = "granted" => e.session # 0)
  <2>1. CASE e \in mail
    <3>1. e.session \in Nat /\ e.session <= vault.sessions /\ (e.type = "granted" => e.session # 0)
      BY <1>2, <2>1 DEF SessionsKnown, Event
    <3> QED
      BY <1>1, <3>1
  <2>2. CASE e \notin mail
    BY <2>2, MailMoves
  <2> QED
    BY <2>1, <2>2
<1> QED
  BY <1>3, <1>7, <1>9, <1>10 DEF SessionsKnown, Known

\* A probe begins while it is not known whether there is a session.
LEMMA ProbeStarts ==
  ASSUME TypeOK, [Next]_vars, flight'["probe"].at # "none", flight["probe"].at = "none"
  PROVE  acc.state = "unknown"
<1> USE DEF clock, net, conn, quiets, limits, hist
<1>1. /\ flight \in [Keys -> Flight] /\ "probe" \in Keys /\ "request" \in Keys /\ "status" \in Keys
      /\ \A c \in Caller : c \in Keys /\ c # "probe"
      /\ NoFlight.at = "none"
  BY DEF TypeOK, CallsType, Keys, NoFlight
<1>2. CASE Tick \/ VaultNext \/ OnEvent \/ UNCHANGED vars \/ \E e \in mail : ApplyEvent(e)
  BY <1>2 DEF Tick, VaultNext, OnEvent, vars, MemberGrants, MemberDenies, MemberEnds, VaultHold,
              MemberChecks, VaultTakesStray, ApplyEvent
<1>3. CASE \E k \in Keys : VaultAnswers(k)
  BY <1>1, <1>3 DEF VaultAnswers
<1>4. CASE \E k \in Keys : TimesOut(k)
  BY <1>1, <1>4 DEF TimesOut
<1>5. CASE Restart
  <2>1. AtStart["probe"].at = "none"
    BY <1>1 DEF AtStart
  <2> QED
    BY <1>5, <2>1 DEF Restart
<1>6. CASE ProbeSends \/ ProbeEnds \/ RequestEnds \/ OnStatus \/ CheckHold
  BY <1>1, <1>6 DEF ProbeSends, ProbeEnds, RequestEnds, OnStatus, CheckHold
<1>7. CASE \E c \in Caller : WorkSends(c) \/ WorkEnds(c) \/ GiveUp(c)
  BY <1>1, <1>7 DEF WorkSends, WorkEnds, GiveUp
<1>8. CASE \E c \in Caller : Ensure(c)
  BY <1>1, <1>8 DEF Ensure, EnsureOk, EnsureHeld, EnsureWaits, EnsureProbes, EnsureAsks
<1> QED
  BY <1>2, <1>3, <1>4, <1>5, <1>6, <1>7, <1>8 DEF Next, Background

\* What a request compares with is what it did, nothing, or the session as it is.
LEMMA WithMoves ==
  ASSUME TypeOK, [Next]_vars, NEW k \in Keys
  PROVE  flight'[k].with \in {flight[k].with, acc, NoAccess}
<1>1. CASE VaultAnswers(k)
  BY <1>1 DEF VaultAnswers, TypeOK, CallsType
<1>2. NoFlight.with = NoAccess /\ Started.with = NoAccess
  BY DEF NoFlight, Started
<1>3. Sent(acc).with = acc /\ Sent(NoAccess).with = NoAccess
  BY DEF Sent
<1> QED
  BY <1>1, <1>2, <1>3, FlightMoves

LEMMA FoundOnceStep ==
  ASSUME TypeOK, FoundOnce, [Next]_vars
  PROVE  FoundOnce'
<1>1. "probe" \in Keys /\ NoAccess.state = "none" /\ ~Found(NoAccess) /\ mail \subseteq Event
      /\ flight \in [Keys -> Flight]
  BY DEF Keys, NoAccess, Found, TypeOK, VaultType, CallsType
<1> DEFINE Fresh == ~Found(acc') /\ \A k \in Keys : ~Found(flight'[k].with)
<1>2. ASSUME NEW e \in mail' PROVE e.type = "granted" => e.exp # 0
  <2>1. CASE e \in mail
    BY <2>1 DEF FoundOnce
  <2>2. CASE e \notin mail
    BY <2>2, NewMailExpires
  <2> QED BY <2>1, <2>2
<1>3. CASE Restart
  <2>1. \A k \in Keys : flight'[k].with = NoAccess /\ flight'["probe"].at = "none"
    BY <1>1, <1>3 DEF Restart, AtStart, Sent, NoFlight
  <2>2. \A k \in Keys : ~Found(flight'[k].with)
    BY <1>1, <2>1
  <2>3. acc'.state = "unknown" => ~Found(acc')
    BY DEF Found
  <2> QED
    BY <1>1, <1>2, <2>1, <2>2, <2>3 DEF FoundOnce
<1>4. CASE ProbeEnds /\ acc' = [state |-> "active", session |-> flight["probe"].note, exp |-> 0]
  <2>1. flight["probe"].at # "none" /\ flight'["probe"].at = "none" /\ acc'.state = "active"
    <3>1. flight["probe"].at = "answered" /\ flight'["probe"] = NoFlight
      BY <1>1, <1>4 DEF ProbeEnds
    <3>2. NoFlight.at = "none"
      BY DEF NoFlight
    <3>3. acc'.state = "active"
      BY <1>4
    <3> QED
      BY <3>1, <3>2, <3>3
  <2>2. ASSUME NEW k \in Keys PROVE ~Found(flight'[k].with)
    BY <1>1, <2>1, WithMoves DEF FoundOnce
  <2> QED
    BY <1>2, <2>1, <2>2 DEF FoundOnce
<1>5. CASE ~Restart /\ (acc' = acc \/ (~Found(acc') /\ acc'.state # "unknown"))
  <2>1. ASSUME acc'.state = "unknown" \/ flight'["probe"].at # "none"
        PROVE  Fresh
    <3>1. acc.state = "unknown" \/ flight["probe"].at # "none"
      BY <1>5, <2>1, ProbeStarts
    <3>2. ~Found(acc) /\ \A k \in Keys : ~Found(flight[k].with)
      BY <3>1 DEF FoundOnce
    <3>3. ASSUME NEW k \in Keys PROVE ~Found(flight'[k].with)
      BY <1>1, <3>2, WithMoves
    <3> QED
      BY <1>5, <3>2, <3>3
  <2>2. ASSUME NEW k \in Keys, Found(acc'), Found(flight'[k].with) PROVE flight'[k].with = acc'
    BY <1>1, <1>5, <2>2, WithMoves DEF FoundOnce
  <2> QED
    BY <1>2, <2>1, <2>2 DEF FoundOnce
<1>6. ASSUME NEW e \in mail, ApplyEvent(e) PROVE ~Found(acc') /\ acc'.state # "unknown"
  <2>1. e.type \in {"granted", "denied", "ended"} /\ (e.type = "granted" => e.exp # 0)
    BY <1>1 DEF Event, FoundOnce
  <2> QED
    BY <1>1, <1>6, <2>1 DEF ApplyEvent, Found
<1> QED
  BY <1>1, <1>3, <1>4, <1>5, <1>6, AccMoves

\* An answer never ends a session granted while it was on its way (CompareAndSetAccess).
THEOREM LateAnswersEndNothing == Spec => DropsOnlyEndedSessions
<1> DEFINE J == TypeOK /\ SessionsKnown /\ AnswersKnown /\ FoundOnce
<1> DEFINE Over2 == acc.state = "active" /\ acc' = NoAccess /\ UNCHANGED <<applying, faults>>
                      => acc.session # vault.session
<1>1. Init => J
  <2> SUFFICES ASSUME Init PROVE J
    OBVIOUS
  <2>1. TypeOK
    BY TypeInit
  <2>2. vault.session \in {0, 1} /\ vault.sessions = vault.session /\ mail = {}
    BY DEF Init
  <2>3. acc = [state |-> "unknown", session |-> 0, exp |-> 0] /\ saved = acc
    BY DEF Init
  <2>4. SessionsKnown
    BY <2>2, <2>3 DEF SessionsKnown, Known
  <2>5. ASSUME NEW k \in Keys PROVE flight[k].with = NoAccess /\ flight[k].code = ""
    BY DEF Init, AtStart, Sent, NoFlight
  <2>6. NoAccess.session = 0 /\ NoAccess.state = "none"
    BY DEF NoAccess
  <2>7. "probe" \in Keys
    BY DEF Keys
  <2>8. AnswersKnown
    <3>1. Known(NoAccess)
      BY <2>2, <2>6 DEF Known
    <3>2. ASSUME NEW k \in Keys PROVE Known(flight[k].with) /\ Over(flight[k])
      BY <2>5, <3>1 DEF Over
    <3>3. flight["probe"].code # "ok"
      BY <2>5, <2>7
    <3> QED
      BY <3>2, <3>3 DEF AnswersKnown
  <2>9. FoundOnce
    <3>1. ~Found(acc) /\ ~Found(NoAccess)
      BY <2>3, <2>6 DEF Found
    <3> QED
      BY <2>2, <2>5, <3>1 DEF FoundOnce
  <2> QED
    BY <2>1, <2>4, <2>8, <2>9
<1>2. J /\ [Next]_vars => J'
  BY TypeStep, SessionsStep, AnswersStep, FoundOnceStep
<1>3. J /\ [Next]_vars => Over2
  <2> SUFFICES ASSUME J, [Next]_vars, acc.state = "active", acc' = NoAccess,
                      UNCHANGED <<applying, faults>>
               PROVE  acc.session # vault.session
    OBVIOUS
  <2> USE DEF clock, net, conn, quiets, limits, hist
  <2>1. NoAccess.state = "none"
    BY DEF NoAccess
  <2>2. ~\E e \in mail : ApplyEvent(e)
    <3>1. mail \subseteq Event
      BY DEF TypeOK, VaultType
    <3> QED
      BY <3>1 DEF ApplyEvent
  <2>3. ~Restart
    BY DEF Restart, TypeOK
  <2>4. acc' # acc
    BY <2>1
  <2>5. acc' # [state |-> "active", session |-> flight["probe"].note, exp |-> 0]
    BY <2>1
  <2>6. PICK k \in Keys : flight[k].code = "session_required" /\ acc = flight[k].with
    BY <2>2, <2>3, <2>4, <2>5, AccMoves DEF FoundOnce
  <2> QED
    BY <2>6 DEF AnswersKnown, Over
<1>4. J /\ [Next]_vars => [Over2]_vars
  BY <1>3
<1> HIDE DEF J, Over2
<1>5. Spec => []J
  BY <1>1, <1>2, PTL DEF Spec
<1>6. Spec => [][Over2]_vars
  BY <1>4, <1>5, PTL DEF Spec
<1> QED
  BY <1>6 DEF DropsOnlyEndedSessions, Over2

(***************************************************************************)
(* Probes.                                                                 *)
(***************************************************************************)

\* While it is not known whether there is a session, the probe under way compares with just that.
ProbeComparesWithUnknown ==
  acc.state = "unknown" /\ flight["probe"].at \in {"sent", "answered"} => flight["probe"].with = acc

LEMMA ProbeMoves ==
  ASSUME TypeOK, [Next]_vars
  PROVE  \/ flight'["probe"] = flight["probe"]
         \/ flight'["probe"].at \in {"none", "started"}
         \/ flight'["probe"] = Sent(acc) /\ acc' = acc
         \/ VaultAnswers("probe")
<1> USE DEF clock, net, conn, quiets, limits, hist
<1>1. /\ flight \in [Keys -> Flight] /\ "probe" \in Keys /\ "request" \in Keys /\ "status" \in Keys
      /\ \A c \in Caller : c \in Keys /\ c # "probe"
      /\ NoFlight.at = "none" /\ Started.at = "started"
  BY DEF TypeOK, CallsType, Keys, NoFlight, Started
<1>2. CASE Tick \/ VaultNext \/ OnEvent \/ UNCHANGED vars \/ \E e \in mail : ApplyEvent(e)
  BY <1>2 DEF Tick, VaultNext, OnEvent, vars, MemberGrants, MemberDenies, MemberEnds, VaultHold,
              MemberChecks, VaultTakesStray, ApplyEvent
<1>3. CASE \E k \in Keys : VaultAnswers(k)
  BY <1>1, <1>3 DEF VaultAnswers
<1>4. CASE \E k \in Keys : TimesOut(k)
  BY <1>1, <1>4 DEF TimesOut
<1>5. CASE Restart
  <2>1. AtStart["probe"].at = "none"
    BY <1>1 DEF AtStart
  <2> QED
    BY <1>5, <2>1 DEF Restart
<1>6. CASE ProbeSends \/ ProbeEnds \/ RequestEnds \/ OnStatus \/ CheckHold
  BY <1>1, <1>6 DEF ProbeSends, ProbeEnds, RequestEnds, OnStatus, CheckHold
<1>7. CASE \E c \in Caller : WorkSends(c) \/ WorkEnds(c) \/ GiveUp(c)
  BY <1>1, <1>7 DEF WorkSends, WorkEnds, GiveUp
<1>8. CASE \E c \in Caller : Ensure(c)
  BY <1>1, <1>8 DEF Ensure, EnsureOk, EnsureHeld, EnsureWaits, EnsureProbes, EnsureAsks
<1> QED
  BY <1>2, <1>3, <1>4, <1>5, <1>6, <1>7, <1>8 DEF Next, Background

LEMMA ProbeComparesStep ==
  ASSUME TypeOK, ProbeComparesWithUnknown, [Next]_vars
  PROVE  ProbeComparesWithUnknown'
<1>1. SUFFICES ASSUME acc'.state = "unknown", flight'["probe"].at \in {"sent", "answered"}
               PROVE  flight'["probe"].with = acc'
  BY DEF ProbeComparesWithUnknown
<1>2. acc' = acc
  <2>1. ~Restart
    <3>1. AtStart["probe"].at = "none"
      BY DEF AtStart, Keys, NoFlight
    <3> QED
      BY <1>1, <3>1 DEF Restart
  <2>2. ASSUME NEW e \in mail, ApplyEvent(e) PROVE FALSE
    <3>1. e.type \in {"granted", "denied", "ended"}
      BY DEF TypeOK, VaultType, Event
    <3> QED
      BY <1>1, <2>2, <3>1 DEF ApplyEvent, NoAccess
  <2> QED
    BY <1>1, <2>1, <2>2, AccMoves DEF NoAccess
<1>3. CASE VaultAnswers("probe")
  <2>1. flight["probe"].at = "sent" /\ flight'["probe"].with = flight["probe"].with
    BY <1>3 DEF VaultAnswers, TypeOK, CallsType, Keys
  <2> QED
    BY <1>1, <1>2, <2>1 DEF ProbeComparesWithUnknown
<1>4. CASE flight'["probe"] = flight["probe"]
  BY <1>1, <1>2, <1>4 DEF ProbeComparesWithUnknown
<1>5. CASE flight'["probe"] = Sent(acc)
  <2>1. Sent(acc).with = acc
    BY DEF Sent
  <2>2. flight'["probe"].with = Sent(acc).with
    BY <1>5
  <2> QED
    BY <1>2, <2>1, <2>2
<1> QED
  BY <1>1, <1>3, <1>4, <1>5, ProbeMoves

\* A caller starts over only when the probe ends without an error.
LEMMA RetryMoves ==
  ASSUME TypeOK, [Next]_vars, NEW c \in Caller, pc'[c] = "retry"
  PROVE  (pc[c] = "retry" /\ ~Restart) \/ ProbeEnds
<1> USE DEF clock, net, conn, quiets, limits, hist
<1>1. pc \in [Caller -> {"idle", "probe", "retry", "request", "ready", "work"}]
  BY DEF TypeOK, CallsType
<1>2. ~Restart
  BY DEF Restart
<1>3. CASE Tick \/ VaultNext \/ OnEvent \/ UNCHANGED vars \/ \E e \in mail : ApplyEvent(e)
  BY <1>2, <1>3 DEF Tick, VaultNext, OnEvent, vars, MemberGrants, MemberDenies, MemberEnds, VaultHold,
              MemberChecks, VaultTakesStray, ApplyEvent
<1>4. CASE \E k \in Keys : VaultAnswers(k) \/ TimesOut(k)
  BY <1>2, <1>4 DEF VaultAnswers, TimesOut
<1>5. CASE ProbeSends \/ RequestEnds \/ OnStatus \/ CheckHold
  BY <1>2, <1>5 DEF ProbeSends, RequestEnds, OnStatus, CheckHold
<1>6. CASE \E d \in Caller : WorkSends(d) \/ WorkEnds(d) \/ GiveUp(d)
  <2>1. PICK d \in Caller : WorkSends(d) \/ WorkEnds(d) \/ GiveUp(d)
    BY <1>6
  <2>2. \E to \in {"idle", "work"} : pc' = [pc EXCEPT ![d] = to]
    BY <2>1 DEF WorkSends, WorkEnds, GiveUp, Return
  <2> QED
    BY <1>1, <1>2, <2>2
<1>7. CASE \E d \in Caller : Ensure(d)
  <2>1. PICK d \in Caller : Ensure(d)
    BY <1>7
  <2>2. \E to \in {"idle", "probe", "request", "ready"} : pc' = [pc EXCEPT ![d] = to]
    BY <2>1 DEF Ensure, EnsureOk, EnsureHeld, EnsureWaits, EnsureProbes, EnsureAsks, Return
  <2> QED
    BY <1>1, <1>2, <2>2
<1> QED
  BY <1>2, <1>3, <1>4, <1>5, <1>6, <1>7 DEF Next, Background

\* Ensure, which starts over after a probe, finds settled whether there is a session (Ensure, probe).
THEOREM ProbesSettle == Spec => []ProbeSettles
<1> DEFINE J == TypeOK /\ ProbeComparesWithUnknown /\ ProbeSettles
<1>1. Init => J
  <2> SUFFICES ASSUME Init PROVE J
    OBVIOUS
  <2>1. flight["probe"].at = "none" /\ \A c \in Caller : pc[c] = "idle"
    BY DEF Init, AtStart, Keys, NoFlight
  <2> QED
    BY <2>1, TypeInit DEF ProbeComparesWithUnknown, ProbeSettles
<1>2. J /\ [Next]_vars => J'
  <2> SUFFICES ASSUME J, [Next]_vars PROVE J'
    OBVIOUS
  <2>1. ASSUME NEW c \in Caller, pc'[c] = "retry" PROVE acc'.state # "unknown"
    <3>1. CASE pc[c] = "retry" /\ ~Restart
      <4>1. ASSUME NEW e \in mail, ApplyEvent(e) PROVE acc'.state # "unknown"
        <5>1. e.type \in {"granted", "denied", "ended"}
          BY DEF TypeOK, VaultType, Event
        <5> QED
          BY <4>1, <5>1 DEF ApplyEvent, NoAccess
      <4> QED
        BY <3>1, <4>1, AccMoves DEF ProbeSettles, NoAccess
    <3>2. CASE ProbeEnds
      <4>1. flight["probe"].at = "answered" /\ (acc.state = "unknown" => flight["probe"].with = acc)
        BY <3>2 DEF ProbeEnds, ProbeComparesWithUnknown
      <4>2. pc[c] # "retry" => flight["probe"].code \in {"ok", "session_required"}
        BY <2>1, <3>2 DEF ProbeEnds
      <4>3. CASE pc[c] = "retry"
        BY <3>2, <4>3 DEF ProbeEnds, ProbeFound, ProbeSettles, NoAccess
      <4>4. CASE pc[c] # "retry"
        BY <3>2, <4>1, <4>2, <4>4 DEF ProbeEnds, ProbeFound, NoAccess
      <4> QED
        BY <4>3, <4>4
    <3> QED
      BY <2>1, <3>1, <3>2, RetryMoves
  <2>2. ProbeSettles'
    BY <2>1 DEF ProbeSettles
  <2> QED
    BY <2>2, TypeStep, ProbeComparesStep
<1>3. J => ProbeSettles
  OBVIOUS
<1> HIDE DEF J
<1> QED
  BY <1>1, <1>2, <1>3, PTL DEF Spec

=============================================================================
