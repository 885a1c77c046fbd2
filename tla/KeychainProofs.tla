--------------------------- MODULE KeychainProofs ---------------------------
(***************************************************************************)
(* Proofs about Keychain: the key of a file that is at home stays, for any *)
(* number of directories, of items, of moves and copies and of calls that  *)
(* fail, and what Wipe and the probe return is so.  The inductive          *)
(* invariants are Keychain's IInv and, with it, ToldInv; a step of one     *)
(* process keeps what the others have (StepKeeps, ToldKept), and each      *)
(* action is such a step.                                                  *)
(***************************************************************************)
EXTENDS Keychain, WellFoundedInduction, TLAPS

USE KeychainAssumption

-----------------------------------------------------------------------------
(***************************************************************************)
(* Records of calls.                                                       *)
(***************************************************************************)

\* A record of a call, field by field (Call).
LEMMA RunOf ==
  ASSUME NEW at \in Ats, NEW job \in Jobs, NEW d \in Dir \cup {Gone}, NEW m \in 0..made,
         NEW o \in SUBSET (1..made), NEW l \in 0..made, NEW v \in SUBSET (1..made),
         NEW h \in BOOLEAN, NEW w \in SUBSET (1..made)
  PROVE  [at |-> at, job |-> job, dir |-> d, mine |-> m, others |-> o, last |-> l,
          removed |-> v, hurt |-> h, was |-> w] \in RunType
BY DEF RunType

\* A step of one process leaves the calls of the others (Runs).
LEMMA RunsFacts ==
  ASSUME run \in [Proc -> RunType], NEW p \in Proc, NEW r \in RunType, Runs(p, r)
  PROVE  /\ run' \in [Proc -> RunType] /\ run'[p] = r
         /\ \A q \in Proc \ {p} : run'[q] = run[q]
BY DEF Runs

\* A call goes on to its next state (Goes).
LEMMA AtFacts ==
  ASSUME NEW r \in RunType, NEW at \in Ats
  PROVE  LET s == [r EXCEPT !.at = at] IN
         /\ s \in RunType /\ s.at = at /\ s.job = r.job /\ s.dir = r.dir
         /\ s.mine = r.mine /\ s.others = r.others /\ s.last = r.last
         /\ s.removed = r.removed /\ s.hurt = r.hurt /\ s.was = r.was
BY DEF RunType, Ats

\* A call fails (GoesHurt).
LEMMA HurtFacts ==
  ASSUME NEW r \in RunType, NEW at \in Ats
  PROVE  LET s == [r EXCEPT !.at = at, !.hurt = TRUE] IN
         /\ s \in RunType /\ s.at = at /\ s.job = r.job /\ s.dir = r.dir
         /\ s.mine = r.mine /\ s.others = r.others /\ s.last = r.last
         /\ s.removed = r.removed /\ s.hurt = TRUE /\ s.was = r.was
BY DEF RunType, Ats

Unopened(r, failed) ==
  [r EXCEPT !.at = IF r.job = "probe" THEN "list" ELSE "error",
            !.job = IF @ = "probe" THEN "unprobe" ELSE @,
            !.hurt = @ \/ failed]

\* A probe that does not open its item becomes a wipe of it (NotOpened).
LEMMA NotOpenedFacts ==
  ASSUME NEW r \in RunType, NEW f \in BOOLEAN
  PROVE  LET s == Unopened(r, f) IN
         /\ s \in RunType
         /\ s.dir = r.dir
         /\ s.mine = r.mine /\ s.others = r.others /\ s.last = r.last
         /\ s.at = IF r.job = "probe" THEN "list" ELSE "error"
         /\ s.job = IF r.job = "probe" THEN "unprobe" ELSE r.job
         /\ r.hurt \/ f => s.hurt
BY DEF RunType, Ats, Jobs, Unopened

\* A call begins (Starts).
LEMMA CallFacts ==
  ASSUME NEW d \in Dir \cup {Gone}, NEW at \in Ats, NEW job \in Jobs, NEW m \in 0..made, made \in Nat
  PROVE  LET s == Call(d, at, job, m) IN
         /\ s \in RunType /\ s.at = at /\ s.job = job /\ s.dir = d
         /\ s.mine = m /\ s.others = {} /\ s.last = None /\ s.removed = {}
<1>1. None \in 0..made /\ {} \in SUBSET (1..made) /\ FALSE \in BOOLEAN
  BY DEF None
<1>2. Call(d, at, job, m) \in RunType
  BY <1>1, RunOf DEF Call
<1> QED
  BY <1>2 DEF Call

\* A process between calls (Idle).
LEMMA IdleFacts ==
  ASSUME made \in Nat
  PROVE  /\ Idle \in RunType /\ Idle.at = "idle" /\ Idle.job = "none" /\ Idle.dir = Gone
         /\ Idle.mine = None /\ Idle.others = {} /\ Idle.last = None
<1>1. "idle" \in Ats /\ "none" \in Jobs /\ None \in 0..made
  BY DEF Ats, Jobs, None
<1> QED
  BY <1>1, CallFacts DEF Idle

\* An item is made for a call (Add).
LEMMA AddFacts ==
  ASSUME NEW r \in RunType, made \in Nat, made' = made + 1
  PROVE  LET s == [r EXCEPT !.at = "back", !.mine = made + 1] IN
         /\ s \in RunType' /\ s.at = "back" /\ s.job = r.job /\ s.dir = r.dir
         /\ s.mine = made + 1 /\ s.others = r.others /\ s.last = r.last
<1>1. RunType \subseteq RunType'
  <2>1. 0..made \subseteq 0..made' /\ SUBSET (1..made) \subseteq SUBSET (1..made')
    OBVIOUS
  <2> QED
    BY <2>1 DEF RunType
<1>2. r \in RunType' /\ made + 1 \in 0..made'
  BY <1>1
<1> QED
  BY <1>2 DEF RunType, Ats

ListedRun(r, o, l, w) == [r EXCEPT !.at = "remove", !.others = o, !.last = l, !.was = w]

\* The items that a wipe will delete (List).
LEMMA ListFacts ==
  ASSUME NEW r \in RunType, NEW o \in SUBSET (1..made), NEW l \in 0..made, NEW w \in SUBSET (1..made)
  PROVE  LET s == ListedRun(r, o, l, w) IN
         /\ s \in RunType /\ s.at = "remove" /\ s.job = r.job /\ s.dir = r.dir
         /\ s.mine = r.mine /\ s.others = o /\ s.last = l
         /\ s.removed = r.removed /\ s.was = w /\ s.hurt = r.hurt
BY DEF RunType, Ats, ListedRun

Without(r, n) ==
  [r EXCEPT !.others = @ \ {n}, !.last = IF @ = n THEN None ELSE @, !.removed = @ \cup {n}]

\* One of them is deleted (Remove).
LEMMA RemoveFacts ==
  ASSUME NEW r \in RunType, NEW n \in 1..made, made \in Nat
  PROVE  LET s == Without(r, n) IN
         /\ s \in RunType /\ s.at = r.at /\ s.job = r.job /\ s.dir = r.dir
         /\ s.mine = r.mine /\ s.others = r.others \ {n} /\ s.last = IF r.last = n THEN None ELSE r.last
         /\ s.removed = r.removed \cup {n} /\ s.was = r.was /\ s.hurt = r.hurt
<1>1. /\ r.others \ {n} \in SUBSET (1..made) /\ r.removed \cup {n} \in SUBSET (1..made)
      /\ (IF r.last = n THEN None ELSE r.last) \in 0..made
  BY DEF RunType, None
<1> QED
  BY <1>1 DEF RunType, Without


-----------------------------------------------------------------------------
(***************************************************************************)
(* Steps of one process p, in one directory h.                             *)
(***************************************************************************)

Becomes(p, at, job, dir, mine, others, last) ==
  /\ run' \in [Proc -> RunType'] /\ \A q \in Proc \ {p} : run'[q] = run[q]
  /\ run'[p].at = at /\ run'[p].job = job /\ run'[p].dir = dir
  /\ run'[p].mine = mine /\ run'[p].others = others /\ run'[p].last = last

NamesNext(p) == {run'[p].mine, run'[p].last} \cup run'[p].others

\* What the step may touch: its directory's file and loaded item, and the items it names; it names none
\* that another directory has.
StepOf(p, h) ==
  /\ h \in Dir /\ p \in {h, Status} /\ run[p].dir \in {h, Gone}
  /\ \A q \in Proc \ {p} : run'[q] = run[q]
  /\ run'[p].dir \in {h, Gone}
  /\ \A n \in Name : item'[n] = item[n] \/ n \in Names(p) \/ n > made
  /\ \A e \in Dir \ {h} : file'[e] = file[e] /\ loaded'[e] = loaded[e] /\ settled'[e] = settled[e]
  /\ file'[h] \in {None, file[h], loaded[h]} \cup Names(p)
  /\ loaded'[h] \in {None, file[h], loaded[h]} \cup Names(p)
  /\ \A n \in NamesNext(p) :
       \/ n \in {None, file[h], loaded[h]} \cup Names(p) \/ n > made
       \/ p \in Dir /\ n \in Name /\ item[n] = h

\* Types of the names.
LEMMA NameTypes ==
  ASSUME TypeOK
  PROVE  /\ made \in Nat /\ MaxItems \in Nat /\ made <= MaxItems
         /\ \A p \in Proc : /\ run[p] \in RunType /\ Names(p) \subseteq 0..made
                            /\ run[p].mine \in 0..made /\ run[p].last \in 0..made
                            /\ run[p].others \subseteq 1..made
         /\ \A d \in Dir : file[d] \in 0..made /\ loaded[d] \in 0..made
         /\ \A n \in 0..made : n # None => n \in Name
<1>1. made \in Nat /\ MaxItems \in Nat /\ made <= MaxItems
  BY DEF TypeOK
<1>2. ASSUME NEW p \in Proc
      PROVE  /\ run[p] \in RunType /\ Names(p) \subseteq 0..made
             /\ run[p].mine \in 0..made /\ run[p].last \in 0..made /\ run[p].others \subseteq 1..made
  <2>1. run[p] \in RunType
    BY DEF TypeOK
  <2>2. run[p].mine \in 0..made /\ run[p].last \in 0..made /\ run[p].others \subseteq 1..made
    BY <2>1 DEF RunType
  <2> QED
    BY <1>1, <2>1, <2>2 DEF Names
<1>3. \A d \in Dir : file[d] \in 0..made /\ loaded[d] \in 0..made
  BY DEF TypeOK
<1>4. \A n \in 0..made : n # None => n \in Name
  BY <1>1 DEF Name, None
<1> QED
  BY <1>1, <1>2, <1>3, <1>4

\* A process with no directory is idle.
LEMMA NoDirNoNames ==
  ASSUME TypeOK, Placed, NEW p \in Proc, run[p].dir = Gone
  PROVE  run[p] = Idle /\ Names(p) = {None}
<1>1. run[p] = Idle
  BY DEF Placed, PlacedAt, Looking, Proc
<1> QED
  BY <1>1, IdleFacts, NameTypes DEF Names

\* A fresh item stays its process's own, whatever the others do.
LEMMA FreshKept ==
  ASSUME TypeOK, Placed, FreshIsOwn, NEW p \in Proc, NEW h, StepOf(p, h),
         p \in Dir /\ Fresh(p)' => IsOwn(p, run[p].mine)'
  PROVE  FreshIsOwn'
<1> SUFFICES ASSUME NEW d \in Dir, Fresh(d)' PROVE IsOwn(d, run[d].mine)'
  BY DEF FreshIsOwn
<1>1. CASE d = p
  BY <1>1
<1>2. CASE d # p
  <2> DEFINE m == run[d].mine
  <2>1. d \in Proc /\ run'[d] = run[d] /\ h \in Dir
    BY <1>2 DEF StepOf, Proc
  <2>2. Fresh(d) /\ m # None
    BY <2>1 DEF Fresh
  <2>3. IsOwn(d, m)
    BY <2>2 DEF FreshIsOwn
  <2>4. m \in 0..made /\ m \in Name /\ ~(m > made)
    BY <2>1, <2>2, NameTypes
  <2>5. m \notin Names(p) /\ m # file[h] /\ m # loaded[h]
    BY <1>2, <2>1, <2>3 DEF IsOwn
  <2>6. item'[m] = item[m]
    BY <2>4, <2>5 DEF StepOf
  <2>7. \A e \in Dir : file'[e] # m /\ loaded'[e] # m
    BY <2>2, <2>3, <2>5 DEF StepOf, IsOwn
  <2>8. p \in Dir => item[m] # h
    <3>1. item[m] \in {Gone, d, m}
      BY <2>3 DEF IsOwn, Service, ProbeService, Placed, PlacedAt
    <3>2. p \in Dir => h # d
      BY <1>2 DEF StepOf
    <3>3. m \in Nat
      BY <2>4, NameTypes
    <3> QED
      BY <2>1, <3>1, <3>2, <3>3
  <2>9. m \notin NamesNext(p)
    BY <2>2, <2>4, <2>5, <2>8 DEF StepOf
  <2>10. ASSUME NEW q \in Proc \ {d} PROVE m \notin Names(q)'
    <3>1. CASE q = p
      BY <2>9, <3>1 DEF Names, NamesNext
    <3>2. CASE q # p
      BY <2>3, <3>2 DEF StepOf, IsOwn, Names
    <3> QED
      BY <3>1, <3>2
  <2>11. Names(d)' \subseteq {m, None}
    BY <2>1, <2>3 DEF IsOwn, Names
  <2>12. Service(d, m)' = Service(d, m)
    BY <2>1 DEF Service, ProbeService
  <2> QED
    BY <2>1, <2>3, <2>6, <2>7, <2>10, <2>11, <2>12 DEF IsOwn
<1> QED
  BY <1>1, <1>2

\* A file at home stays so, whatever happens in other directories.
LEMMA HomeKept ==
  ASSUME TypeOK, Placed, AtHome, NEW p \in Proc, NEW h, StepOf(p, h),
         settled'[h] => Home(h, file[h])'
  PROVE  AtHome'
<1> SUFFICES ASSUME NEW d \in Dir, settled'[d] PROVE Home(d, file[d])'
  BY DEF AtHome
<1>1. CASE d = h
  BY <1>1
<1>2. CASE d # h
  <2> DEFINE n == file[d]
  <2>1. settled[d] /\ file'[d] = n /\ h \in Dir
    BY <1>2 DEF StepOf
  <2>2. Home(d, n)
    BY <2>1 DEF AtHome
  <2>3. n # None /\ n \in Name /\ ~(n > made)
    BY <2>2, NameTypes DEF Home
  <2>4. run[p].dir # d
    BY <1>2 DEF StepOf
  <2>5. n \notin Names(p) /\ n # file[h] /\ n # loaded[h] /\ item[n] = d
    BY <1>2, <2>1, <2>2, <2>4 DEF Home
  <2>6. item'[n] = d
    BY <2>3, <2>5 DEF StepOf
  <2>7. \A e \in Dir \ {d} : file'[e] # n /\ loaded'[e] # n
    BY <2>2, <2>3, <2>5 DEF StepOf, Home
  <2>8. n \notin NamesNext(p)
    BY <1>2, <2>3, <2>5 DEF StepOf
  <2>9. ASSUME NEW q \in Proc, run'[q].dir # d PROVE n \notin Names(q)'
    <3>1. CASE q = p
      BY <2>8, <3>1 DEF Names, NamesNext
    <3>2. CASE q # p
      BY <2>2, <2>9, <3>2 DEF StepOf, Home, Names
    <3> QED
      BY <3>1, <3>2
  <2>10. d \in Proc /\ d # p
    BY <1>2 DEF StepOf, Proc
  <2>11. run'[d] = run[d]
    BY <2>10 DEF StepOf
  <2>12. Destroys(d)' => run'[d].at \in {"list", "failed"}
    BY <2>2, <2>11 DEF Home, Destroys
  <2> QED
    BY <2>1, <2>3, <2>6, <2>7, <2>9, <2>12 DEF Home
<1> QED
  BY <1>1, <1>2

\* Nor when the step's own directory keeps its file and the item its tag.
LEMMA HomeSame ==
  ASSUME TypeOK, Placed, AtHome, NEW p \in Proc, NEW h, StepOf(p, h),
         settled[h], file'[h] = file[h], item'[file[h]] = h,
         run'[p].dir = h \/ NamesNext(p) = {None},
         p \in Dir /\ Destroys(p)' => run'[p].at \in {"list", "failed"}
  PROVE  Home(h, file[h])'
<1> DEFINE n == file[h]
<1>1. h \in Dir /\ h \in Proc
  BY DEF StepOf, Proc
<1>2. Home(h, n)
  BY <1>1 DEF AtHome
<1>3. \A e \in Dir \ {h} : file'[e] # n /\ loaded'[e] # n
  BY <1>2 DEF Home, StepOf
<1>4. ASSUME NEW q \in Proc, run'[q].dir # h PROVE n \notin Names(q)'
  <2>1. CASE q = p
    BY <1>2, <1>4, <2>1 DEF Home, Names, NamesNext
  <2>2. CASE q # p
    BY <1>2, <1>4, <2>2 DEF StepOf, Home, Names
  <2> QED
    BY <2>1, <2>2
<1>5. Destroys(h)' => run'[h].at \in {"list", "failed"}
  <2>1. CASE p = h
    BY <1>1, <2>1
  <2>2. CASE p # h
    BY <1>1, <1>2, <2>2 DEF StepOf, Home, Destroys
  <2> QED
    BY <2>1, <2>2
<1> QED
  BY <1>2, <1>3, <1>4, <1>5 DEF Home

\* A step keeps the invariant if the process that takes it is placed, and what it calls its own is so.
LEMMA StepKeeps ==
  ASSUME IInv, TypeOK', NEW p \in Proc, NEW h, StepOf(p, h),
         p \in Dir => PlacedAt(p)', p = Status => Looking',
         p \in Dir /\ Fresh(p)' => IsOwn(p, run[p].mine)',
         settled'[h] => Home(h, file[h])'
  PROVE  IInv'
<1>1. Placed'
  <2>1. ASSUME NEW d \in Dir PROVE PlacedAt(d)'
    <3>1. CASE d = p
      BY <3>1
    <3>2. CASE d # p
      <4>1. run'[d] = run[d]
        BY <3>2 DEF StepOf, Proc
      <4> QED
        BY <4>1 DEF IInv, Placed, PlacedAt, Names, Destroys
    <3> QED
      BY <3>1, <3>2
  <2>2. Looking'
    <3>1. CASE p # Status
      <4>1. run'[Status] = run[Status]
        BY <3>1 DEF StepOf, Proc
      <4> QED
        BY <4>1 DEF IInv, Placed, Looking
    <3> QED
      BY <3>1
  <2> QED
    BY <2>1, <2>2 DEF Placed
<1>2. FreshIsOwn'
  BY FreshKept DEF IInv
<1>3. AtHome'
  BY HomeKept DEF IInv
<1> QED
  BY <1>1, <1>2, <1>3 DEF IInv

ItemType == DOMAIN item = Name /\ \A n \in Name : item[n] \in Dir \cup {Gone, n} /\ (n > made => item[n] = Gone)

\* The types, but for the items made.
LEMMA TypeKept ==
  ASSUME TypeOK, made' = made, moves' \in Nat, faults' \in Nat, ItemType',
         file' \in [Dir -> 0..made], loaded' \in [Dir -> 0..made], run' \in [Proc -> RunType'],
         settled' \in [Dir -> BOOLEAN]
  PROVE  TypeOK'
BY DEF TypeOK, ItemType

\* A call begins, with an item that the directory has.
LEMMA StartKeeps ==
  ASSUME IInv, NEW d \in Dir, NEW at \in {"get", "list", "add"}, NEW job \in Jobs,
         NEW m \in {None, file[d], loaded[d]}, Starts(d, at, job, m),
         UNCHANGED <<item, made, file, moves>>, faults' \in Nat,
         loaded' = loaded \/ loaded' = [loaded EXCEPT ![d] = None],
         settled' \in [Dir -> BOOLEAN], \A e \in Dir \ {d} : settled'[e] = settled[e],
         settled'[d] => settled[d],
         at = "get" => job = "load" /\ m # None,
         at = "list" => job \in {"old", "wipe", "all"},
         at = "add" => job \in {"new", "probe"} /\ m = None
  PROVE  IInv'
<1>1. TypeOK /\ Placed /\ FreshIsOwn /\ AtHome /\ made \in Nat /\ d \in Proc /\ m \in 0..made
  BY NameTypes DEF IInv, Proc, None
<1>2. Becomes(d, at, job, d, m, {}, None)
  <2>1. at \in Ats
    BY DEF Ats
  <2>2. Call(d, at, job, m) \in RunType
    BY <1>1, <2>1, CallFacts
  <2>3. run \in [Proc -> RunType] /\ RunType' = RunType
    BY <1>1 DEF TypeOK, RunType
  <2>4. run' \in [Proc -> RunType] /\ run'[d] = Call(d, at, job, m) /\ \A q \in Proc \ {d} : run'[q] = run[q]
    BY <1>1, <2>2, <2>3, RunsFacts DEF Starts
  <2> QED
    BY <1>1, <2>1, <2>3, <2>4, CallFacts DEF Becomes
<1>3. TypeOK'
  <2>1. loaded' \in [Dir -> 0..made] /\ file' \in [Dir -> 0..made] /\ moves' \in Nat
    BY <1>1 DEF TypeOK, None
  <2>2. ItemType'
    BY <1>1 DEF ItemType, TypeOK
  <2> QED
    BY <1>1, <1>2, <2>1, <2>2, TypeKept DEF Becomes
<1>4. loaded'[d] \in {None, loaded[d]} /\ \A e \in Dir \ {d} : loaded'[e] = loaded[e]
  BY <1>1 DEF TypeOK
<1>5. NamesNext(d) = {m, None}
  BY <1>2 DEF NamesNext, Becomes
<1>6. run[d].dir \in {d, Gone}
  BY <1>1 DEF Placed, PlacedAt
<1>7. StepOf(d, d)
  <2>1. \A n \in NamesNext(d) : n \in {None, file[d], loaded[d]} \cup Names(d)
    BY <1>5
  <2>2. file'[d] \in {None, file[d], loaded[d]} \cup Names(d) /\ loaded'[d] \in {None, file[d], loaded[d]} \cup Names(d)
    BY <1>4
  <2>3. run'[d].dir = d /\ \A q \in Proc \ {d} : run'[q] = run[q]
    BY <1>2 DEF Becomes
  <2>4. item' = item /\ \A e \in Dir \ {d} : file'[e] = file[e] /\ loaded'[e] = loaded[e] /\ settled'[e] = settled[e]
    BY <1>4
  <2> HIDE DEF NamesNext
  <2> QED
    BY <2>1, <2>2, <2>3, <2>4, <1>6 DEF StepOf
<1>8. PlacedAt(d)'
  BY <1>2 DEF PlacedAt, Becomes, Destroys, Names
<1>9. ~Fresh(d)'
  BY <1>2 DEF Fresh, Becomes
<1>10. ASSUME settled'[d] PROVE Home(d, file[d])'
  <2>1. settled[d] /\ item'[file[d]] = d /\ file'[d] = file[d]
    BY <1>1, <1>10 DEF AtHome, Home
  <2>2. Destroys(d)' => run'[d].at \in {"list", "failed"}
    BY <1>2 DEF Destroys, Becomes
  <2> QED
    BY <1>1, <1>2, <1>7, <2>1, <2>2, HomeSame DEF Becomes
<1>11. d # Status
  OBVIOUS
<1> QED
  BY <1>1, <1>3, <1>6, <1>7, <1>8, <1>9, <1>10, <1>11, StepKeeps

\* A call ends.
LEMMA RestKeeps ==
  ASSUME IInv, NEW p \in Proc, NEW h \in Dir, p \in {h, Status}, p = Status => run[p].dir = h,
         run' = [run EXCEPT ![p] = Idle],
         UNCHANGED <<made, moves>>, faults' \in Nat, ItemType',
         \A n \in Name : item'[n] = item[n] \/ n \in Names(p),
         settled[h] => item'[file[h]] = h,
         file' \in [Dir -> 0..made], loaded' \in [Dir -> 0..made], settled' \in [Dir -> BOOLEAN],
         \A e \in Dir \ {h} : file'[e] = file[e] /\ loaded'[e] = loaded[e] /\ settled'[e] = settled[e],
         file'[h] \in {None, file[h]} \cup Names(p), loaded'[h] \in {None, loaded[h]} \cup Names(p),
         settled'[h] => (settled[h] /\ file'[h] = file[h]) \/ Home(h, file[h])'
  PROVE  IInv'
<1>1. TypeOK /\ Placed /\ FreshIsOwn /\ AtHome /\ made \in Nat
  BY NameTypes DEF IInv
<1>2. Becomes(p, "idle", "none", Gone, None, {}, None) /\ run'[p] = Idle
  <2>1. run \in [Proc -> RunType] /\ RunType' = RunType
    BY <1>1 DEF TypeOK, RunType
  <2> QED
    BY <1>1, <2>1, IdleFacts, RunsFacts DEF Runs, Becomes
<1>3. TypeOK'
  BY <1>1, <1>2, TypeKept DEF Becomes, TypeOK
<1>4. NamesNext(p) = {None}
  BY <1>2 DEF NamesNext, Becomes
<1>5. run[p].dir \in {h, Gone} /\ (p \in Dir => p = h)
  BY <1>1 DEF Placed, PlacedAt
<1>6. StepOf(p, h)
  BY <1>2, <1>4, <1>5 DEF StepOf, Becomes, Proc
<1>7. p \in Dir => PlacedAt(p)'
  BY <1>2 DEF PlacedAt, Becomes, Destroys
<1>8. p = Status => Looking'
  BY <1>2 DEF Looking
<1>9. ~Fresh(p)' /\ ~Destroys(p)'
  BY <1>2 DEF Fresh, Becomes, Destroys
<1>10. ASSUME settled'[h] PROVE Home(h, file[h])'
  <2>1. CASE settled[h] /\ file'[h] = file[h]
    BY <1>1, <1>4, <1>6, <1>9, <2>1, HomeSame
  <2> QED
    BY <1>10, <2>1
<1> QED
  BY <1>3, <1>5, <1>6, <1>7, <1>8, <1>9, <1>10, StepKeeps

\* A call goes on with the items it has.
LEMMA MoveKeeps ==
  ASSUME IInv, NEW p \in Proc, NEW h \in Dir, p \in {h, Status}, run[p].dir = h,
         NEW at \in Ats, NEW job \in Jobs,
         Becomes(p, at, job, h, run[p].mine, run[p].others, run[p].last),
         UNCHANGED <<made, moves, file, loaded>>, faults' \in Nat, ItemType',
         \A n \in Name : item'[n] = item[n] \/ n \in Names(p),
         settled[h] => item'[file[h]] = h,
         settled' \in [Dir -> BOOLEAN], \A e \in Dir \ {h} : settled'[e] = settled[e],
         settled'[h] => settled[h] /\ (p = h /\ Destroys(p)' => at \in {"list", "failed"}),
         p \in Dir => PlacedAt(p)', p = Status => Looking',
         p \in Dir /\ Fresh(p)' =>
           /\ Fresh(p) /\ item'[run[p].mine] \in {Gone, Service(p, run[p].mine)}
           /\ at = "write" => item'[run[p].mine] = p
           /\ job \in {"probe", "unprobe"} <=> run[p].job \in {"probe", "unprobe"}
  PROVE  IInv'
<1>1. TypeOK /\ Placed /\ FreshIsOwn /\ AtHome
  BY DEF IInv
<1>2. TypeOK'
  BY <1>1, TypeKept DEF Becomes, TypeOK
<1>3. NamesNext(p) = Names(p)
  BY DEF NamesNext, Becomes, Names
<1>4. StepOf(p, h)
  BY <1>3 DEF StepOf, Becomes, Proc
<1>5. ASSUME p \in Dir, Fresh(p)' PROVE IsOwn(p, run[p].mine)'
  <2>1. IsOwn(p, run[p].mine)
    BY <1>1, <1>5 DEF FreshIsOwn
  <2>2. run'[p].mine = run[p].mine /\ Service(p, run[p].mine)' = Service(p, run[p].mine)
    BY <1>5 DEF Service, ProbeService, Becomes
  <2>3. Names(p)' = Names(p) /\ \A q \in Proc \ {p} : Names(q)' = Names(q)
    BY <1>3 DEF Names, NamesNext, Becomes
  <2>4. run'[p].at = at
    BY DEF Becomes
  <2> QED
    BY <1>5, <2>1, <2>2, <2>3, <2>4 DEF IsOwn
<1>6. ASSUME settled'[h] PROVE Home(h, file[h])'
  BY <1>1, <1>4, <1>6, HomeSame DEF Becomes
<1> QED
  BY <1>2, <1>4, <1>5, <1>6, StepKeeps

-----------------------------------------------------------------------------
(***************************************************************************)
(* The actions.                                                            *)
(***************************************************************************)

\* Facts of every state that the actions' lemmas start from.
LEMMA Start ==
  ASSUME IInv
  PROVE  /\ TypeOK /\ Placed /\ FreshIsOwn /\ AtHome /\ ItemType
         /\ made \in Nat /\ moves \in Nat /\ faults \in Nat /\ settled \in [Dir -> BOOLEAN]
         /\ file \in [Dir -> 0..made] /\ loaded \in [Dir -> 0..made] /\ run \in [Proc -> RunType]
         /\ RunType = [at: Ats, job: Jobs, dir: Dir \cup {Gone}, mine: 0..made, others: SUBSET (1..made),
                       last: 0..made, removed: SUBSET (1..made), hurt: BOOLEAN, was: SUBSET (1..made)]
BY DEF IInv, TypeOK, ItemType, RunType

\* The lock holder's calls begin.
LEMMA LoadKeeps == ASSUME IInv, NEW d \in Dir, Load(d) \/ Pair(d) \/ Wipe(d) \/ WipeAll(d) PROVE IInv'
<1> USE DEF disks
<1>1. "load" \in Jobs /\ "probe" \in Jobs /\ "wipe" \in Jobs /\ "all" \in Jobs
  BY DEF Jobs
<1>2. CASE Load(d)
  BY <1>1, <1>2, Start, StartKeeps DEF Load
<1>3. CASE Pair(d)
  BY <1>1, <1>3, Start, StartKeeps DEF Pair
<1>4. CASE Wipe(d)
  BY <1>1, <1>4, Start, StartKeeps DEF Wipe
<1>5. CASE WipeAll(d)
  BY <1>1, <1>5, Start, StartKeeps DEF WipeAll
<1> QED
  BY <1>2, <1>3, <1>4, <1>5

\* The home tag of a file, where nothing changes it.
LEMMA HomeTag == ASSUME IInv, NEW d \in Dir, settled[d] PROVE item[file[d]] = d
BY DEF IInv, AtHome, Home

\* The process ends in a call.
LEMMA CrashKeeps == ASSUME IInv, NEW d \in Dir, Crash(d) PROVE IInv'
<1>1. d \in Proc /\ faults' \in Nat /\ run' = [run EXCEPT ![d] = Idle]
      /\ UNCHANGED <<item, made, file, moves, settled>>
  BY Start DEF Crash, Fault, Proc, Rests, Runs
<1>2. loaded' \in [Dir -> 0..made] /\ loaded'[d] = None /\ \A e \in Dir \ {d} : loaded'[e] = loaded[e]
  BY Start DEF Crash, None
<1>3. settled[d] => item'[file[d]] = d
  BY <1>1, HomeTag
<1>4. ItemType'
  BY <1>1, Start DEF ItemType
<1>5. file' \in [Dir -> 0..made] /\ settled' \in [Dir -> BOOLEAN]
  BY <1>1, Start
<1> QED
  BY <1>1, <1>2, <1>3, <1>4, <1>5, RestKeeps

\* The process ends between calls, or another build discards the file.
LEMMA EndsKeeps == ASSUME IInv, NEW d \in Dir, Ends(d) \/ OtherBuild(d) PROVE IInv'
<1>1. run[d] = Idle /\ d \in Proc
  BY Start DEF Ends, OtherBuild, Placed, PlacedAt, Proc
<1>2. run' = [run EXCEPT ![d] = Idle] /\ UNCHANGED <<item, made, moves, faults>>
  BY <1>1, Start DEF Ends, OtherBuild
<1>3. settled[d] => item'[file[d]] = d
  BY <1>2, HomeTag
<1>4. ItemType' /\ faults' \in Nat
  BY <1>2, Start DEF ItemType
<1>5. CASE Ends(d)
  <2>1. loaded' \in [Dir -> 0..made] /\ loaded'[d] = None /\ \A e \in Dir \ {d} : loaded'[e] = loaded[e]
    BY <1>5, Start DEF Ends, None
  <2>2. file' = file /\ settled' = settled
    BY <1>5 DEF Ends
  <2>3. file' \in [Dir -> 0..made] /\ settled' \in [Dir -> BOOLEAN]
    BY <2>2, Start
  <2> QED
    BY <1>1, <1>2, <1>3, <1>4, <2>1, <2>2, <2>3, RestKeeps
<1>6. CASE OtherBuild(d)
  <2>1. file' \in [Dir -> 0..made] /\ file'[d] = None /\ \A e \in Dir \ {d} : file'[e] = file[e]
    BY <1>6, Start DEF OtherBuild, None
  <2>2. settled' \in [Dir -> BOOLEAN] /\ ~settled'[d] /\ \A e \in Dir \ {d} : settled'[e] = settled[e]
    BY <1>6, Start DEF OtherBuild
  <2>3. loaded' = loaded /\ loaded' \in [Dir -> 0..made]
    BY <1>6, Start DEF OtherBuild
  <2> QED
    BY <1>1, <1>2, <1>3, <1>4, <2>1, <2>2, <2>3, RestKeeps
<1> QED
  BY <1>5, <1>6

\* `status` begins to open a file.
LEMMA LooksKeeps == ASSUME IInv, NEW d \in Dir, Looks(d) PROVE IInv'
<1> DEFINE p == Status
<1>1. TypeOK /\ Placed /\ FreshIsOwn /\ AtHome /\ made \in Nat /\ p \in Proc /\ p \notin Dir
  BY NameTypes DEF IInv, Proc
<1>2. run[p] = Idle
  BY <1>1 DEF Looks, Placed, Looking
<1>3. UNCHANGED <<item, made, file, loaded, moves, faults, settled>>
  BY DEF Looks, disks
<1>4. Becomes(p, "get", "look", d, file[d], {}, None)
  <2>1. "get" \in Ats /\ "look" \in Jobs /\ file[d] \in 0..made
    BY <1>1, NameTypes DEF Ats, Jobs
  <2>2. Call(d, "get", "look", file[d]) \in RunType
    BY <1>1, <2>1, CallFacts
  <2>3. run \in [Proc -> RunType] /\ RunType' = RunType
    BY <1>1, <1>3 DEF TypeOK, RunType
  <2>4. run' = [run EXCEPT ![p] = Call(d, "get", "look", file[d])]
    BY DEF Looks, Runs
  <2> QED
    BY <1>1, <2>1, <2>2, <2>3, <2>4, CallFacts DEF Becomes
<1>5. TypeOK'
  BY <1>1, <1>3, <1>4, TypeKept DEF Becomes, TypeOK, ItemType
<1>6. NamesNext(p) = {file[d], None}
  BY <1>4 DEF NamesNext, Becomes
<1>7. StepOf(p, d)
  BY <1>2, <1>3, <1>4, <1>6, IdleFacts, <1>1 DEF StepOf, Becomes
<1>8. Looking'
  BY <1>4, <1>3 DEF Looking, Becomes, Looks
<1>9. ASSUME settled'[d] PROVE Home(d, file[d])'
  <2>1. settled[d] /\ file'[d] = file[d] /\ item'[file[d]] = d
    BY <1>3, <1>9, HomeTag
  <2> QED
    BY <1>1, <1>4, <1>7, <2>1, HomeSame DEF Becomes
<1> QED
  BY <1>1, <1>5, <1>7, <1>8, <1>9, StepKeeps

\* Where a process that opens an item is.
LEMMA Opening ==
  ASSUME IInv, NEW p \in Proc, run[p].at \in {"get", "retag"}
  PROVE  /\ run[p].dir \in Dir /\ p \in {run[p].dir, Status}
         /\ run[p].mine \in Name /\ run[p].mine # None /\ run[p].mine \in Names(p)
         /\ p \in Dir => run[p].job \in {"load", "probe"}
         /\ p = Status => run[p].job = "look"
         /\ run[p].job = "probe" => p \in Dir /\ Fresh(p) /\ IsOwn(p, run[p].mine)
<1>1. TypeOK /\ Placed /\ FreshIsOwn
  BY DEF IInv
<1>2. p \in Dir \/ p = Status
  BY DEF Proc
<1>3. /\ run[p].dir \in Dir /\ p \in {run[p].dir, Status} /\ run[p].mine # None
      /\ p \in Dir => run[p].job \in {"load", "probe"}
      /\ p = Status => run[p].job = "look"
  <2>1. CASE p \in Dir
    <3>1. PlacedAt(p)
      BY <1>1, <2>1 DEF Placed
    <3> QED
      BY <2>1, <3>1 DEF PlacedAt
  <2>2. CASE p = Status
    BY <1>1, <2>2, IdleFacts, NameTypes DEF Placed, Looking
  <2> QED
    BY <1>2, <2>1, <2>2
<1>4. run[p].mine \in Name /\ run[p].mine \in Names(p)
  BY <1>1, <1>3, NameTypes DEF Names
<1>5. run[p].job = "probe" => p \in Dir /\ Fresh(p) /\ IsOwn(p, run[p].mine)
  BY <1>1, <1>2, <1>3 DEF Fresh, FreshIsOwn
<1> QED
  BY <1>3, <1>4, <1>5

\* What a file that is settled now has is at home, as far as the process knows.
LEMMA Settling ==
  ASSUME TypeOK, NEW p \in Proc, NEW h \in Dir, p \in {h, Status}, NEW n \in Name,
         OnlyHere(h, n), item'[n] = h, file' = file, \A e \in Dir \ {h} : loaded'[e] = loaded[e],
         run' = [run EXCEPT ![p] = Idle]
  PROVE  Home(h, file[h])'
<1>1. file'[h] = n /\ n # None /\ h \in Proc
  BY DEF OnlyHere, Name, None, Proc
<1>2. run'[p] = Idle /\ \A q \in Proc \ {p} : run'[q] = run[q]
  BY DEF TypeOK
<1>3. \A e \in Dir \ {h} : file'[e] # n /\ loaded'[e] # n
  BY DEF OnlyHere
<1>4. ASSUME NEW q \in Proc, run'[q].dir # h PROVE n \notin Names(q)'
  <2>1. CASE q = p
    BY <1>1, <1>2, <2>1, IdleFacts, NameTypes DEF Names
  <2>2. CASE q # p
    BY <1>2, <1>4, <2>2 DEF Names, OnlyHere
  <2> QED
    BY <2>1, <2>2
<1>5. ~Destroys(h)'
  <2>1. CASE p = h
    BY <1>2, <2>1, IdleFacts, NameTypes DEF Destroys
  <2>2. CASE p # h
    BY <1>1, <1>2, <2>2 DEF Destroys, OnlyHere
  <2> QED
    BY <2>1, <2>2
<1> QED
  BY <1>1, <1>3, <1>4, <1>5 DEF Home

\* A call that goes on with the items it has.
LEMMA GoesOnFacts ==
  ASSUME TypeOK, made' = made, NEW p \in Proc, NEW at \in Ats, Goes(p, at) \/ GoesHurt(p, at)
  PROVE  Becomes(p, at, run[p].job, run[p].dir, run[p].mine, run[p].others, run[p].last)
<1>1. run \in [Proc -> RunType] /\ run[p] \in RunType /\ RunType' = RunType
  BY DEF TypeOK, RunType
<1>2. CASE Goes(p, at)
  BY <1>1, <1>2, AtFacts DEF Goes, Runs, Becomes
<1>3. CASE GoesHurt(p, at)
  BY <1>1, <1>3, HurtFacts DEF GoesHurt, Runs, Becomes
<1> QED
  BY <1>2, <1>3

\* A call whose item is not opened goes on (NotOpened).
LEMMA NotOpenedGoesOn ==
  ASSUME TypeOK, made' = made, NEW p \in Proc, NEW f \in BOOLEAN, NotOpened(p, f)
  PROVE  Becomes(p, IF run[p].job = "probe" THEN "list" ELSE "error",
                 IF run[p].job = "probe" THEN "unprobe" ELSE run[p].job,
                 run[p].dir, run[p].mine, run[p].others, run[p].last)
<1>1. run \in [Proc -> RunType] /\ run[p] \in RunType /\ RunType' = RunType
  BY DEF TypeOK, RunType
<1>2. run' = [run EXCEPT ![p] = Unopened(run[p], f)]
  BY DEF NotOpened, Runs, Unopened
<1> QED
  BY <1>1, <1>2, NotOpenedFacts DEF Becomes

\* What an opened item does to the Keychain: nothing, or its tag is the directory's.
TagsOnly(p, n) ==
  /\ \A m \in Name \ {n} : item'[m] = item[m]
  /\ item'[n] \in {item[n], Service(p, n)}
  /\ ItemType'

\* An item at home stays so when its file is opened again (Unwrap's re-tag).
LEMMA TagsOnlyHome ==
  ASSUME IInv, NEW p \in Proc, run[p].at \in {"get", "retag"}, TagsOnly(p, run[p].mine), settled[run[p].dir]
  PROVE  item'[file[run[p].dir]] = run[p].dir
<1> DEFINE n == run[p].mine
           h == run[p].dir
<1>1. h \in Dir /\ n \in Name
  BY Opening
<1>2. Home(h, file[h]) /\ file[h] \in Name /\ item[file[h]] = h
  BY <1>1, Start, NameTypes DEF AtHome, Home
<1>3. CASE file[h] # n
  BY <1>2, <1>3 DEF TagsOnly
<1>4. CASE file[h] = n
  <2>1. run[p].job # "probe"
    BY <1>1, <1>4, Opening DEF IsOwn
  <2>2. run[p].job # "unprobe"
    BY Opening, <1>1 DEF Proc
  <2>3. Service(p, n) = h
    BY <2>1, <2>2 DEF Service
  <2> QED
    BY <1>2, <1>4, <2>3 DEF TagsOnly
<1> QED
  BY <1>3, <1>4

\* It is asked for again, or it is not opened, or it was a probe's.
LEMMA OpeningMove ==
  ASSUME IInv, NEW p \in Proc, run[p].at \in {"get", "retag"},
         UNCHANGED <<made, moves, file, loaded, settled>>, faults' \in Nat,
         TagsOnly(p, run[p].mine), NEW at, NEW job,
         Becomes(p, at, job, run[p].dir, run[p].mine, run[p].others, run[p].last),
         \/ at = "retag" /\ job = run[p].job
         \/ run[p].job = "probe" /\ at = "list" /\ job \in {"probe", "unprobe"}
         \/ run[p].job # "probe" /\ at = "error" /\ job = run[p].job
  PROVE  IInv'
<1> DEFINE n == run[p].mine
           h == run[p].dir
<1>1. h \in Dir /\ p \in {h, Status} /\ n \in Name /\ n # None /\ n \in Names(p)
  BY Opening
<1>2. settled' = settled /\ settled \in [Dir -> BOOLEAN] /\ run[p] \in RunType
  BY Start
<1>3. /\ p \in Dir => run[p].job \in {"load", "probe"}
      /\ p = Status => run[p].job = "look"
  BY Opening
<1>4. at \in Ats /\ job \in Jobs /\ at \in {"retag", "list", "error"}
  BY <1>1, <1>3 DEF Ats, Jobs, Proc
<1>5. settled[h] => item'[file[h]] = h
  BY TagsOnlyHome
<1>6. p \in Dir => job \in {"load", "probe", "unprobe"}
  BY <1>3
<1>7. ASSUME p \in Dir PROVE PlacedAt(p)'
  <2>1. p = h /\ h # Gone
    BY <1>1, <1>7
  <2> QED
    BY <1>1, <1>3, <1>4, <1>6, <1>7, <2>1 DEF PlacedAt, Becomes
<1>8. ASSUME p = Status PROVE Looking'
  BY <1>1, <1>3, <1>4, <1>8 DEF Looking, Becomes
<1>9. p = h => ~Destroys(p)'
  BY <1>1, <1>6 DEF Destroys, Becomes
<1>10. ASSUME p \in Dir, Fresh(p)'
       PROVE  /\ Fresh(p) /\ item'[n] \in {Gone, Service(p, n)}
              /\ at # "write"
              /\ job \in {"probe", "unprobe"} <=> run[p].job \in {"probe", "unprobe"}
  <2>1. run[p].job = "probe"
    BY <1>3, <1>4, <1>10 DEF Fresh, Becomes
  <2>2. Fresh(p) /\ IsOwn(p, n)
    BY <2>1, Opening
  <2> QED
    BY <1>4, <2>1, <2>2 DEF IsOwn, TagsOnly
<1>11. \A m \in Name : item'[m] = item[m] \/ m \in Names(p)
  BY <1>1 DEF TagsOnly
<1>12. ItemType'
  BY DEF TagsOnly
<1>13. \A e \in Dir \ {h} : settled'[e] = settled[e]
  BY <1>2
<1>14. settled'[h] => settled[h] /\ (p = h /\ Destroys(p)' => at \in {"list", "failed"})
  BY <1>2, <1>9
<1> QED
  BY <1>1, <1>2, <1>4, <1>5, <1>7, <1>8, <1>10, <1>11, <1>12, <1>13, <1>14, MoveKeeps

\* It is opened.
LEMMA OpeningRest ==
  ASSUME IInv, NEW p \in Proc, run[p].at \in {"get", "retag"}, run[p].job # "probe",
         UNCHANGED <<made, moves, file>>, faults' \in Nat, run' = [run EXCEPT ![p] = Idle],
         TagsOnly(p, run[p].mine),
         loaded' = loaded \/ (p \in Dir /\ loaded' = [loaded EXCEPT ![p] = run[p].mine]),
         \/ settled' = settled
         \/ Settles(p, run[p].mine) /\ item'[run[p].mine] = Service(p, run[p].mine)
  PROVE  IInv'
<1>n. PICK n \in Name : n = run[p].mine
  BY Opening
<1>h. PICK h \in Dir : h = run[p].dir
  BY Opening
<1> USE <1>n, <1>h
<1>1. h \in Dir /\ p \in {h, Status} /\ n \in Name /\ n \in Names(p) /\ n \in 0..made
      /\ run[p].job # "unprobe" /\ (p \in Dir => p = h)
  BY Opening, Start, NameTypes DEF Proc
<1>2. Service(p, n) = h
  BY <1>1 DEF Service
<1>3. settled[h] => item'[file[h]] = h
  BY TagsOnlyHome
<1>4. /\ loaded' \in [Dir -> 0..made] /\ loaded'[h] \in {loaded[h], n}
      /\ \A e \in Dir \ {h} : loaded'[e] = loaded[e]
  BY <1>1, Start
<1>5. settled' \in [Dir -> BOOLEAN] /\ \A e \in Dir \ {h} : settled'[e] = settled[e]
  BY <1>1, Start DEF Settles, OnlyHere, Destroys
<1>6. ASSUME settled'[h] PROVE (settled[h] /\ file'[h] = file[h]) \/ Home(h, file[h])'
  <2>1. CASE settled[h]
    BY <2>1
  <2>2. CASE ~settled[h]
    <3>1. Settles(p, n) /\ item'[n] = h
      BY <1>2, <1>6, <2>2
    <3>2. OnlyHere(h, n)
      BY <1>1, <1>6, <2>2, <3>1, Start DEF Settles
    <3>3. TypeOK /\ file' = file /\ h \in Dir /\ p \in {h, Status} /\ n \in Name
      BY <1>1, Start
    <3>4. \A e \in Dir \ {h} : loaded'[e] = loaded[e]
      BY <1>4
    <3> QED
      BY <3>1, <3>2, <3>3, <3>4, Settling
  <2> QED
    BY <2>1, <2>2
<1>7. \A m \in Name : item'[m] = item[m] \/ m \in Names(p)
  BY <1>1 DEF TagsOnly
<1>8. ItemType' /\ file' \in [Dir -> 0..made] /\ file'[h] = file[h] /\ \A e \in Dir \ {h} : file'[e] = file[e]
  BY Start DEF TagsOnly
<1>9. settled'[h] => (settled[h] /\ file'[h] = file[h]) \/ Home(h, file[h])'
  BY <1>6
<1>10. UNCHANGED <<made, moves>> /\ (p = Status => run[p].dir = h)
  OBVIOUS
<1>11. file'[h] \in {None, file[h]} \cup Names(p) /\ loaded'[h] \in {None, loaded[h]} \cup Names(p)
  BY <1>1, <1>4, <1>8
<1>12. \A e \in Dir \ {h} : file'[e] = file[e] /\ loaded'[e] = loaded[e] /\ settled'[e] = settled[e]
  BY <1>4, <1>5, <1>8
<1>13. p \in {h, Status} /\ ItemType' /\ file' \in [Dir -> 0..made] /\ loaded' \in [Dir -> 0..made]
       /\ settled' \in [Dir -> BOOLEAN]
  BY <1>1, <1>4, <1>5, <1>8
<1> QED
  BY <1>3, <1>7, <1>9, <1>10, <1>11, <1>12, <1>13, RestKeeps

\* Unwrap gets the item.
LEMMA GetKeeps == ASSUME IInv, NEW p \in Proc, Get(p) PROVE IInv'
<1> DEFINE n == run[p].mine
<1>1. run[p].at = "get" /\ run[p].at \in {"get", "retag"} /\ UNCHANGED <<item, made, file, moves>>
  BY DEF Get
<1>2. TypeOK /\ TagsOnly(p, n) /\ faults' \in Nat
  <2>1. faults' = faults \/ faults' = faults + 1
    BY DEF Get, Fault
  <2> QED
    BY <1>1, <2>1, Start DEF TagsOnly, ItemType
<1>3. \/ Goes(p, "retag") /\ UNCHANGED <<loaded, settled>>
      \/ ~NeedsRetag(p, n) /\ Opened(p) /\ (IF run[p].job = "probe" THEN UNCHANGED settled ELSE Settles(p, n))
      \/ \E f \in BOOLEAN : NotOpened(p, f) /\ UNCHANGED <<loaded, settled>>
  <2>1. CASE NotOpened(p, FALSE) /\ UNCHANGED <<loaded, settled>>
    BY <2>1
  <2>2. CASE NotOpened(p, TRUE) /\ UNCHANGED <<loaded, settled>>
    BY <2>2
  <2> QED
    BY <2>1, <2>2 DEF Get
<1>4. CASE Goes(p, "retag") /\ UNCHANGED <<loaded, settled>>
  <2>1. Becomes(p, "retag", run[p].job, run[p].dir, run[p].mine, run[p].others, run[p].last)
    BY <1>1, <1>2, <1>4, GoesOnFacts DEF Ats
  <2> QED
    BY <1>1, <1>2, <1>4, <2>1, OpeningMove
<1>5. CASE ~NeedsRetag(p, n) /\ Opened(p)
           /\ (IF run[p].job = "probe" THEN UNCHANGED settled ELSE Settles(p, n))
  <2>1. CASE run[p].job = "probe"
    <3>1. Goes(p, "list") /\ UNCHANGED <<loaded, settled>>
      BY <1>5, <2>1 DEF Opened
    <3>2. Becomes(p, "list", run[p].job, run[p].dir, run[p].mine, run[p].others, run[p].last)
      BY <1>1, <1>2, <3>1, GoesOnFacts DEF Ats
    <3> QED
      BY <1>1, <1>2, <2>1, <3>1, <3>2, OpeningMove
  <2>2. CASE run[p].job # "probe"
    <3>1. run' = [run EXCEPT ![p] = Idle]
      BY <1>5, <2>2 DEF Opened, Rests, Runs
    <3>2. loaded' = loaded \/ (p \in Dir /\ loaded' = [loaded EXCEPT ![p] = run[p].mine])
      BY <1>1, <1>5, <2>2, Opening DEF Opened, Proc
    <3>3. Settles(p, n) /\ item'[n] = Service(p, n)
      BY <1>1, <1>5, <2>2 DEF NeedsRetag
    <3> QED
      BY <1>1, <1>2, <2>2, <3>1, <3>2, <3>3, OpeningRest
  <2> QED
    BY <2>1, <2>2
<1>6. CASE \E f \in BOOLEAN : NotOpened(p, f) /\ UNCHANGED <<loaded, settled>>
  <2>1. UNCHANGED <<loaded, settled>>
    BY <1>6
  <2>2. Becomes(p, IF run[p].job = "probe" THEN "list" ELSE "error",
                 IF run[p].job = "probe" THEN "unprobe" ELSE run[p].job,
                 run[p].dir, run[p].mine, run[p].others, run[p].last)
    BY <1>1, <1>2, <1>6, NotOpenedGoesOn
  <2>3. CASE run[p].job = "probe"
    <3>1. Becomes(p, "list", "unprobe", run[p].dir, run[p].mine, run[p].others, run[p].last)
      BY <2>2, <2>3
    <3> QED
      BY <1>1, <1>2, <2>1, <2>3, <3>1, OpeningMove
  <2>4. CASE run[p].job # "probe"
    <3>1. Becomes(p, "error", run[p].job, run[p].dir, run[p].mine, run[p].others, run[p].last)
      BY <2>2, <2>4
    <3> QED
      BY <1>1, <1>2, <2>1, <2>4, <3>1, OpeningMove
  <2> QED
    BY <2>3, <2>4
<1> QED
  BY <1>3, <1>4, <1>5, <1>6

\* Unwrap re-tags it.
LEMMA RetagKeeps == ASSUME IInv, NEW p \in Proc, Retag(p) PROVE IInv'
<1> DEFINE n == run[p].mine
<1>1. /\ run[p].at = "retag" /\ run[p].at \in {"get", "retag"} /\ UNCHANGED <<made, file, moves>> /\ Opened(p)
      /\ faults' \in Nat
  BY Start DEF Retag, Fault
<1>2. run[p].dir \in Dir /\ n \in Name /\ (run[p].job = "probe" => p = run[p].dir /\ IsOwn(p, n))
  BY <1>1, Opening DEF Proc
<1>3. Service(p, n) \in Dir \cup {n} /\ n <= made
  <2>1. n \in 0..made
    BY Start, NameTypes
  <2> QED
    BY <1>2, <2>1 DEF Service, ProbeService
<1>4. TagsOnly(p, n)
  <2>1. item' = item \/ item' = [item EXCEPT ![n] = Service(p, n)]
    BY DEF Retag, Retags, Adds
  <2>2. CASE item' = item
    BY <1>1, <2>2, Start DEF TagsOnly, ItemType
  <2>3. CASE item' = [item EXCEPT ![n] = Service(p, n)]
    <3>1. n \in DOMAIN item
      BY <1>2, Start DEF ItemType
    <3>2. ~(n > made)
      BY <1>2, <1>3, Start DEF Name
    <3>3. item'[n] = Service(p, n) /\ \A m \in Name \ {n} : item'[m] = item[m]
      BY <2>3, <3>1, Start DEF ItemType
    <3>4. ItemType'
      BY <1>1, <1>3, <2>3, <3>2, <3>3, Start DEF ItemType
    <3> QED
      BY <3>3, <3>4 DEF TagsOnly
  <2> QED
    BY <2>1, <2>2, <2>3
<1>5. settled' = settled \/ (Settles(p, n) /\ item'[n] = Service(p, n))
  <2>1. CASE Found(n) /\ Retags(p, n) /\ Settles(p, n)
    <3>1. item' = [item EXCEPT ![n] = Service(p, n)]
      BY <2>1 DEF Retags, Adds
    <3> QED
      BY <1>2, <2>1, <3>1, Start DEF ItemType
  <2> QED
    BY <2>1 DEF Retag
<1>6. CASE run[p].job = "probe"
  <2>1. Goes(p, "list") /\ UNCHANGED loaded
    BY <1>1, <1>6 DEF Opened
  <2>2. Becomes(p, "list", run[p].job, run[p].dir, run[p].mine, run[p].others, run[p].last)
    BY <1>1, <2>1, Start, GoesOnFacts DEF Ats
  <2>3. settled' = settled
    <3>1. ~OnlyHere(run[p].dir, n)
      BY <1>2, <1>6 DEF OnlyHere, IsOwn
    <3> QED
      BY <1>2, <1>5, <3>1, Start DEF Settles
  <2> QED
    BY <1>1, <1>4, <1>6, <2>1, <2>2, <2>3, OpeningMove
<1>7. CASE run[p].job # "probe"
  <2>1. run' = [run EXCEPT ![p] = Idle]
    BY <1>1, <1>7 DEF Opened, Rests, Runs
  <2>2. loaded' = loaded \/ (p \in Dir /\ loaded' = [loaded EXCEPT ![p] = run[p].mine])
    BY <1>1, <1>7, Opening DEF Opened, Proc
  <2> QED
    BY <1>1, <1>4, <1>5, <1>7, <2>1, <2>2, OpeningRest
<1> QED
  BY <1>6, <1>7

\* An error is returned.
LEMMA GivesUpKeeps == ASSUME IInv, NEW p \in Proc, GivesUp(p) PROVE IInv'
<1>1. /\ run[p].at \in {"error", "nokeychain"} /\ run' = [run EXCEPT ![p] = Idle]
      /\ UNCHANGED <<item, made, file, loaded, moves, faults, settled>>
  BY DEF GivesUp, disks, Rests, Runs
<1>2. PICK h \in Dir : h = run[p].dir /\ p \in {h, Status}
  <2>1. CASE p \in Dir
    BY <1>1, <2>1, Start DEF Placed, PlacedAt
  <2>2. CASE p = Status
    BY <1>1, <2>2, Start, IdleFacts DEF Placed, Looking
  <2> QED
    BY <2>1, <2>2 DEF Proc
<1>3. settled[h] => item'[file[h]] = h
  BY <1>1, HomeTag
<1>4. /\ ItemType' /\ faults' \in Nat /\ file' \in [Dir -> 0..made] /\ loaded' \in [Dir -> 0..made]
      /\ settled' \in [Dir -> BOOLEAN]
  BY <1>1, Start DEF ItemType
<1> QED
  BY <1>1, <1>2, <1>3, <1>4, RestKeeps

\* Where a process that makes an item is.
LEMMA Making ==
  ASSUME IInv, NEW d \in Dir, run[d].at \in {"add", "back", "write"}
  PROVE  /\ d \in Proc /\ d # Gone /\ run[d].dir = d /\ run[d].job \in {"new", "probe"}
         /\ run[d].at = "write" => run[d].job = "new"
         /\ run[d].at = "add" => run[d].mine = None /\ run[d].last = None /\ run[d].others = {}
         /\ run[d].at # "add" =>
              /\ run[d].mine \in Name /\ run[d].mine # None /\ Fresh(d) /\ IsOwn(d, run[d].mine)
<1>1. PlacedAt(d) /\ FreshIsOwn /\ TypeOK /\ d \in Proc
  BY DEF IInv, Placed, Proc
<1>2. run[d].dir = d /\ run[d].job \in {"new", "probe"} /\ (run[d].at = "write" => run[d].job = "new")
  BY <1>1 DEF PlacedAt
<1>3. ASSUME run[d].at = "add"
      PROVE  run[d].mine = None /\ run[d].last = None /\ run[d].others = {}
  <2>1. Names(d) = {None}
    BY <1>1, <1>3 DEF PlacedAt
  <2>2. None \notin run[d].others
    <3>1. run[d].others \subseteq 1..made
      BY <1>1, NameTypes
    <3> QED
      BY <3>1 DEF None
  <2> QED
    BY <2>1, <2>2 DEF Names
<1>4. ASSUME run[d].at # "add"
      PROVE  run[d].mine \in Name /\ run[d].mine # None /\ Fresh(d) /\ IsOwn(d, run[d].mine)
  <2>1. run[d].mine # None /\ run[d].at \in {"back", "write"}
    BY <1>1, <1>4 DEF PlacedAt
  <2> QED
    BY <1>1, <2>1, NameTypes DEF Fresh, FreshIsOwn
<1> QED
  BY <1>1, <1>2, <1>3, <1>4

\* An error of a call that makes an item.
LEMMA MakingFails ==
  ASSUME IInv, NEW d \in Dir, run[d].at \in {"add", "back"}, GoesHurt(d, Fails(d)), faults' \in Nat,
         UNCHANGED <<made, file, loaded, moves, settled>>, ItemType',
         \A n \in Name : item'[n] = item[n] \/ (n = run[d].mine /\ item'[n] = Gone)
  PROVE  IInv'
<1>1. /\ d \in Proc /\ d # Gone /\ run[d].dir = d /\ run[d].job \in {"new", "probe"}
      /\ run[d].at # "add" => run[d].mine \in Name /\ run[d].mine # None /\ Fresh(d) /\ IsOwn(d, run[d].mine)
      /\ run[d].at = "add" => run[d].mine = None
  BY Making
<1>2. PICK at \in {"error", "nokeychain"} : at = Fails(d) /\ (at = "nokeychain" <=> run[d].job = "probe")
  BY DEF Fails
<1>3. Becomes(d, at, run[d].job, d, run[d].mine, run[d].others, run[d].last)
  BY <1>1, <1>2, Start, GoesOnFacts DEF Ats
<1>4. at \in Ats /\ run[d].job \in Jobs
  BY <1>1, <1>2 DEF Ats, Jobs
<1>5. \A n \in Name : item'[n] = item[n] \/ n \in Names(d)
  BY DEF Names
<1>6. ASSUME settled[d] PROVE item'[file[d]] = d
  <2>1. item[file[d]] = d /\ file[d] # None /\ file[d] \in Name
    BY <1>6, Start, NameTypes DEF AtHome, Home
  <2>2. file[d] # run[d].mine
    BY <1>1, <2>1 DEF IsOwn
  <2> QED
    BY <2>1, <2>2
<1>7. settled' \in [Dir -> BOOLEAN] /\ \A e \in Dir \ {d} : settled'[e] = settled[e]
  BY Start
<1>8. ~Destroys(d)'
  BY <1>1, <1>3 DEF Destroys, Becomes
<1>9. PlacedAt(d)'
  BY <1>1, <1>2, <1>3 DEF PlacedAt, Becomes
<1>10. ASSUME Fresh(d)'
       PROVE  /\ Fresh(d) /\ item'[run[d].mine] \in {Gone, Service(d, run[d].mine)}
              /\ at # "write"
  <2>1. run[d].mine # None
    BY <1>3, <1>10 DEF Fresh, Becomes
  <2>2. Fresh(d) /\ IsOwn(d, run[d].mine) /\ run[d].mine \in Name
    BY <1>1, <2>1
  <2> QED
    BY <1>2, <2>2 DEF IsOwn
<1>11. d # Status /\ settled'[d] = settled[d]
  OBVIOUS
<1> QED
  BY <1>1, <1>3, <1>4, <1>5, <1>6, <1>7, <1>8, <1>9, <1>10, <1>11, MoveKeeps

\* Wrap makes an item.
LEMMA AddKeeps == ASSUME IInv, NEW d \in Dir, Add(d) PROVE IInv'
<1>1. /\ run[d].at = "add" /\ run[d].at \in {"add", "back", "write"} /\ run[d].at \in {"add", "back"}
      /\ UNCHANGED <<file, loaded, moves, settled>>
  BY DEF Add, disks
<1>2. CASE Fault /\ GoesHurt(d, Fails(d)) /\ UNCHANGED <<item, made>>
  <2>1. faults' \in Nat
    BY <1>2, Start DEF Fault
  <2>2. ItemType' /\ \A n \in Name : item'[n] = item[n]
    BY <1>2, Start DEF ItemType
  <2> QED
    BY <1>1, <1>2, <2>1, <2>2, MakingFails
<1>3. CASE /\ made < MaxItems /\ made' = made + 1
           /\ Adds(made + 1, Service(d, made + 1))
           /\ Runs(d, [run[d] EXCEPT !.at = "back", !.mine = made + 1])
           /\ UNCHANGED faults
  <2>n. PICK n \in Nat : n = made + 1
    BY Start
  <2> USE <2>n
  <2>1. /\ d \in Proc /\ d # Gone /\ run[d].dir = d /\ run[d].job \in {"new", "probe"}
        /\ run[d].mine = None /\ run[d].last = None /\ run[d].others = {}
    BY <1>1, Making
  <2>2. n \in Name /\ n # None /\ n \in Nat /\ made \in Nat /\ MaxItems \in Nat /\ made < n
    BY <1>3, Start DEF Name, None
  <2>3. Service(d, n) \in {d, n}
    BY <2>1 DEF Service, ProbeService
  <2>4. item'[n] = Service(d, n) /\ \A m \in Name \ {n} : item'[m] = item[m]
    BY <1>3, <2>2, Start DEF Adds, ItemType
  <2>5. Becomes(d, "back", run[d].job, d, n, {}, None)
    <3> DEFINE s == [run[d] EXCEPT !.at = "back", !.mine = made + 1]
    <3>1. run \in [Proc -> RunType] /\ run[d] \in RunType /\ RunType \subseteq RunType'
      <4>1. 0..made \subseteq 0..made' /\ SUBSET (1..made) \subseteq SUBSET (1..made')
        BY <1>3, <2>2
      <4>2. RunType \subseteq RunType'
        BY <4>1 DEF RunType
      <4> QED
        BY <2>1, <4>2, Start
    <3>2. /\ s \in RunType' /\ s.at = "back" /\ s.job = run[d].job /\ s.dir = d
          /\ s.mine = n /\ s.others = {} /\ s.last = None
      BY <1>3, <2>1, <2>2, <3>1, AddFacts
    <3>3. run' = [run EXCEPT ![d] = s]
      BY <1>3 DEF Runs
    <3> HIDE DEF s
    <3> QED
      BY <2>1, <3>1, <3>2, <3>3 DEF Becomes
  <2>6. TypeOK'
    <3>1. made' \in 0..MaxItems /\ moves' \in Nat /\ faults' \in Nat /\ settled' \in [Dir -> BOOLEAN]
      BY <1>1, <1>3, <2>2, Start
    <3>2. file' \in [Dir -> 0..made'] /\ loaded' \in [Dir -> 0..made']
      BY <1>1, <1>3, <2>2, Start
    <3>3. DOMAIN item' = Name
      BY <1>3, Start DEF Adds, ItemType
    <3>4. ASSUME NEW m \in Name PROVE item'[m] \in Dir \cup {Gone, m} /\ (m > made' => item'[m] = Gone)
      <4>1. CASE m = n
        BY <1>3, <2>2, <2>3, <2>4, <4>1
      <4>2. CASE m # n
        BY <1>3, <2>2, <2>4, <4>2, Start DEF ItemType, Name
      <4> QED
        BY <4>1, <4>2
    <3> QED
      BY <2>5, <3>1, <3>2, <3>3, <3>4 DEF TypeOK, Becomes
  <2>7. NamesNext(d) = {n, None}
    BY <2>5 DEF NamesNext, Becomes
  <2>8. StepOf(d, d)
    <3>1. \A m \in Name : item'[m] = item[m] \/ m \in Names(d) \/ m > made
      BY <2>2, <2>4
    <3>2. \A m \in NamesNext(d) : m = None \/ m > made
      BY <2>2, <2>7
    <3> QED
      BY <1>1, <2>1, <2>5, <3>1, <3>2 DEF StepOf, Becomes
  <2>9. PlacedAt(d)'
    BY <2>1, <2>2, <2>5 DEF PlacedAt, Becomes
  <2>10. IsOwn(d, run[d].mine)'
    <3>1. \A e \in Dir : file'[e] # n /\ loaded'[e] # n
      BY <1>1, <2>2, Start
    <3>2. ASSUME NEW q \in Proc \ {d} PROVE n \notin Names(q)'
      <4>1. Names(q) \subseteq 0..made /\ run'[q] = run[q]
        BY <2>5, Start, NameTypes DEF Becomes
      <4> QED
        BY <2>2, <4>1 DEF Names
    <3>3. Names(d)' \subseteq {n, None}
      BY <2>7 DEF Names, NamesNext
    <3>4. Service(d, n)' = Service(d, n)
      BY <2>1, <2>5 DEF Service, ProbeService, Becomes
    <3> QED
      BY <2>4, <2>5, <3>1, <3>2, <3>3, <3>4 DEF IsOwn, Becomes
  <2>11. ASSUME settled'[d] PROVE Home(d, file[d])'
    <3>1. settled[d] /\ file'[d] = file[d] /\ item[file[d]] = d /\ file[d] # None
      BY <1>1, <2>11, Start DEF AtHome, Home
    <3>2. file[d] \in Name /\ file[d] # n
      BY <2>2, <3>1, Start, NameTypes
    <3>3. item'[file[d]] = d
      BY <2>4, <3>1, <3>2
    <3>4. ~Destroys(d)' /\ run'[d].dir = d
      BY <2>1, <2>5 DEF Destroys, Becomes
    <3> QED
      BY <2>1, <2>8, <3>1, <3>3, <3>4, Start, HomeSame
  <2> QED
    BY <2>1, <2>6, <2>8, <2>9, <2>10, <2>11, StepKeeps
<1> QED
  BY <1>2, <1>3 DEF Add

\* Wrap reads it back.
LEMMA ReadBackKeeps == ASSUME IInv, NEW d \in Dir, ReadBack(d) PROVE IInv'
<1>n. PICK n \in Name : n = run[d].mine
  BY Making DEF ReadBack
<1>1. /\ run[d].at = "back" /\ run[d].at \in {"add", "back", "write"} /\ run[d].at \in {"add", "back"}
      /\ UNCHANGED <<made, file, loaded, moves, settled>>
  BY DEF ReadBack, disks
<1>2. CASE Fault /\ GoesHurt(d, Fails(d)) /\ (Removes(n) \/ UNCHANGED item)
  <2>1. faults' \in Nat
    BY <1>2, Start DEF Fault
  <2>2. item' = item \/ item' = [item EXCEPT ![n] = Gone]
    BY <1>2 DEF Removes
  <2>3. ItemType'
    BY <1>1, <2>2, Start DEF ItemType
  <2>4. \A m \in Name : item'[m] = item[m] \/ (m = run[d].mine /\ item'[m] = Gone)
    BY <1>n, <2>2, Start DEF ItemType
  <2> QED
    BY <1>1, <1>2, <2>1, <2>3, <2>4, MakingFails
<1>3. CASE /\ Found(n) /\ UNCHANGED <<item, faults>>
           /\ Goes(d, IF run[d].job = "probe" THEN "get" ELSE "write")
  <2>1. /\ d \in Proc /\ d # Gone /\ run[d].dir = d /\ run[d].job \in {"new", "probe"}
        /\ n # None /\ Fresh(d) /\ IsOwn(d, n)
    BY <1>n, <1>1, Making
  <2>2. PICK at \in {"get", "write"} : /\ at = IF run[d].job = "probe" THEN "get" ELSE "write"
                                       /\ at = "get" => run[d].job = "probe"
                                       /\ at = "write" => run[d].job = "new"
    BY <2>1
  <2>3. Becomes(d, at, run[d].job, d, run[d].mine, run[d].others, run[d].last)
    BY <1>1, <1>3, <2>1, <2>2, Start, GoesOnFacts DEF Ats
  <2>4. at \in Ats /\ run[d].job \in Jobs /\ d # Status
    BY <2>1 DEF Ats, Jobs
  <2>5. settled[d] => item'[file[d]] = d
    BY <1>3, HomeTag
  <2>6. ItemType' /\ faults' \in Nat /\ \A m \in Name : item'[m] = item[m]
    BY <1>1, <1>3, Start DEF ItemType
  <2>7. settled' \in [Dir -> BOOLEAN] /\ \A e \in Dir : settled'[e] = settled[e]
    BY <1>1, Start
  <2>8. ~Destroys(d)'
    BY <2>1, <2>3 DEF Destroys, Becomes
  <2>9. PlacedAt(d)'
    BY <1>n, <2>1, <2>2, <2>3 DEF PlacedAt, Becomes
  <2>10. item'[n] \in {Gone, Service(d, n)} /\ (at = "write" => item'[n] = d)
    BY <1>3, <2>1, <2>2 DEF IsOwn, Found, Service
  <2> QED
    BY <1>1, <1>n, <2>1, <2>3, <2>4, <2>5, <2>6, <2>7, <2>8, <2>9, <2>10, MoveKeeps
<1> QED
  BY <1>n, <1>2, <1>3 DEF ReadBack

\* The Store writes the file.
LEMMA WriteKeeps == ASSUME IInv, NEW d \in Dir, Write(d) PROVE IInv'
<1>n. PICK n \in Name : n = run[d].mine
  BY Making DEF Write
<1>1. /\ run[d].at = "write" /\ run[d].at \in {"add", "back", "write"}
      /\ run' = [run EXCEPT ![d] = Idle] /\ UNCHANGED <<item, made, moves>>
  BY DEF Write, Rests, Runs
<1>2. /\ d \in Proc /\ n # None /\ n \in Names(d) /\ IsOwn(d, n) /\ item[n] = d /\ n \in 0..made
  BY <1>n, <1>1, Making, Start, NameTypes DEF IsOwn, Names
<1>3. faults' \in Nat
  BY Start DEF Write, Fault
<1>4. settled[d] => item'[file[d]] = d
  BY <1>1, HomeTag
<1>5. ItemType' /\ \A m \in Name : item'[m] = item[m]
  BY <1>1, Start DEF ItemType
<1>6. CASE /\ file' = [file EXCEPT ![d] = run[d].mine] /\ loaded' = [loaded EXCEPT ![d] = run[d].mine]
           /\ settled' = [settled EXCEPT ![d] = TRUE]
  <2>1. /\ file' \in [Dir -> 0..made] /\ loaded' \in [Dir -> 0..made] /\ settled' \in [Dir -> BOOLEAN]
        /\ file'[d] = n /\ loaded'[d] = n
    BY <1>n, <1>2, <1>6, Start
  <2>2. \A e \in Dir \ {d} : file'[e] = file[e] /\ loaded'[e] = loaded[e] /\ settled'[e] = settled[e]
    BY <1>6, Start
  <2>3. Home(d, file[d])'
    <3>1. run'[d] = Idle /\ \A q \in Proc \ {d} : run'[q] = run[q]
      BY <1>1, <1>2, Start
    <3>2. \A q \in Proc : n \notin Names(q)'
      BY <1>2, <3>1, Start, IdleFacts DEF Names, IsOwn
    <3>3. ~Destroys(d)'
      BY <3>1, Start, IdleFacts DEF Destroys
    <3>4. \A e \in Dir \ {d} : file'[e] # n /\ loaded'[e] # n
      BY <1>2, <2>2 DEF IsOwn
    <3> QED
      BY <1>1, <1>2, <2>1, <3>2, <3>3, <3>4 DEF Home
  <2>4. file'[d] \in {None, file[d]} \cup Names(d) /\ loaded'[d] \in {None, loaded[d]} \cup Names(d)
    BY <1>2, <2>1
  <2>5. d \in Proc /\ d # Status
    BY <1>2
  <2>6. settled'[d] => (settled[d] /\ file'[d] = file[d]) \/ Home(d, file[d])'
    BY <2>3
  <2>7. /\ file' \in [Dir -> 0..made] /\ loaded' \in [Dir -> 0..made] /\ settled' \in [Dir -> BOOLEAN]
    BY <2>1
  <2> QED
    BY <1>1, <1>3, <1>4, <1>5, <2>2, <2>4, <2>5, <2>6, <2>7, RestKeeps
<1>7. CASE UNCHANGED <<file, loaded, settled>>
  BY <1>1, <1>2, <1>3, <1>4, <1>5, <1>7, Start, RestKeeps
<1> QED
  BY <1>6, <1>7 DEF Write

\* The Store goes on after a wipe.
LEMMA StoreGoesOnKeeps == ASSUME IInv, NEW d \in Dir, StoreGoesOn(d) PROVE IInv'
<1>1. /\ run[d].at \in {"wiped", "failed"} /\ AfterWipe(d) /\ UNCHANGED <<item, made, moves>>
      /\ settled' = [settled EXCEPT ![d] = @ /\ file'[d] # None]
  BY DEF StoreGoesOn
<1>2. /\ d \in Proc /\ d # Status /\ d # Gone /\ run[d].dir = d
      /\ run[d].job \in {"probe", "unprobe"} => Fresh(d) /\ IsOwn(d, run[d].mine) /\ run[d].mine # None
  <2>1. PlacedAt(d)
    BY <1>1, Start DEF Placed
  <2> QED
    BY <1>1, <2>1, Start DEF PlacedAt, Proc, Fresh, FreshIsOwn, Destroys
<1>3. /\ settled' \in [Dir -> BOOLEAN] /\ \A e \in Dir \ {d} : settled'[e] = settled[e]
      /\ settled'[d] => settled[d] /\ file'[d] # None
  BY <1>1, Start
<1>4. settled[d] => item'[file[d]] = d
  BY <1>1, HomeTag
<1>5. ItemType' /\ \A m \in Name : item'[m] = item[m]
  BY <1>1, Start DEF ItemType
<1>6. "new" \in Jobs /\ "old" \in Jobs
  BY DEF Jobs
<1>7. CASE /\ UNCHANGED <<file, loaded, faults>>
           /\ IF file[d] = None THEN Starts(d, "add", "new", None) ELSE Starts(d, "list", "old", loaded[d])
  <2>1. faults' \in Nat
    BY <1>7, Start
  <2>2. CASE Starts(d, "add", "new", None)
    BY <1>1, <1>3, <1>6, <1>7, <2>1, <2>2, StartKeeps
  <2>3. CASE Starts(d, "list", "old", loaded[d])
    BY <1>1, <1>3, <1>6, <1>7, <2>1, <2>3, StartKeeps
  <2> QED
    BY <1>7, <2>2, <2>3
<1>8. CASE run[d].job \in {"probe", "unprobe"} /\ Goes(d, "nokeychain") /\ UNCHANGED <<file, loaded, faults>>
  <2>1. Becomes(d, "nokeychain", run[d].job, d, run[d].mine, run[d].others, run[d].last)
    BY <1>1, <1>2, <1>8, Start, GoesOnFacts DEF Ats
  <2>2. "nokeychain" \in Ats /\ run[d].job \in Jobs
    BY <1>8 DEF Ats, Jobs
  <2>3. ~Destroys(d)'
    BY <1>8, <2>1 DEF Destroys, Becomes
  <2>4. PlacedAt(d)'
    BY <1>2, <1>8, <2>1 DEF PlacedAt, Becomes
  <2>5. Fresh(d) /\ item'[run[d].mine] \in {Gone, Service(d, run[d].mine)}
    BY <1>1, <1>2, <1>8 DEF IsOwn
  <2>6. faults' \in Nat
    BY <1>8, Start
  <2> QED
    BY <1>1, <1>2, <1>3, <1>4, <1>5, <1>8, <2>1, <2>2, <2>3, <2>4, <2>5, <2>6, MoveKeeps
<1>9. CASE UNCHANGED <<file, faults>> /\ Starts(d, "add", "new", None) /\ loaded' = [loaded EXCEPT ![d] = None]
  <2>1. faults' \in Nat
    BY <1>9, Start
  <2> QED
    BY <1>1, <1>3, <1>6, <1>9, <2>1, StartKeeps
<1>10. CASE /\ Rests(d) /\ (faults' = faults \/ faults' = faults + 1)
            /\ file' = file \/ file' = [file EXCEPT ![d] = None]
            /\ loaded' = loaded \/ loaded' = [loaded EXCEPT ![d] = None]
  <2>1. faults' \in Nat /\ run' = [run EXCEPT ![d] = Idle]
    BY <1>10, Start DEF Rests, Runs
  <2>2. /\ file' \in [Dir -> 0..made] /\ loaded' \in [Dir -> 0..made]
        /\ file'[d] \in {None, file[d]} /\ loaded'[d] \in {None, loaded[d]}
        /\ \A e \in Dir \ {d} : file'[e] = file[e] /\ loaded'[e] = loaded[e]
    BY <1>10, Start DEF None
  <2>3. settled'[d] => settled[d] /\ file'[d] = file[d]
    BY <1>3, <2>2
  <2>4. file'[d] \in {None, file[d]} \cup Names(d) /\ loaded'[d] \in {None, loaded[d]} \cup Names(d)
    BY <2>2
  <2>5. \A e \in Dir \ {d} : file'[e] = file[e] /\ loaded'[e] = loaded[e] /\ settled'[e] = settled[e]
    BY <1>3, <2>2
  <2>6. d \in Proc /\ d # Status /\ UNCHANGED <<made, moves>>
    BY <1>1, <1>2
  <2>7. settled'[d] => (settled[d] /\ file'[d] = file[d]) \/ Home(d, file[d])'
    BY <2>3
  <2>8. file' \in [Dir -> 0..made] /\ loaded' \in [Dir -> 0..made] /\ settled' \in [Dir -> BOOLEAN]
    BY <1>3, <2>2
  <2>9. \A n \in Name : item'[n] = item[n] \/ n \in Names(d)
    BY <1>5
  <2>10. ItemType' /\ d \in {d, Status} /\ (d = Status => run[d].dir = d)
    BY <1>5, <2>6
  <2> QED
    BY <1>4, <2>1, <2>4, <2>5, <2>6, <2>7, <2>8, <2>9, <2>10, RestKeeps
<1> QED
  BY <1>1, <1>7, <1>8, <1>9, <1>10 DEF AfterWipe, ForgetsFile, Fault

\* A directory is moved or copied.
LEMMA TransfersKeeps == ASSUME IInv, NEW a \in Dir, NEW b \in Dir, Transfers(a, b) PROVE IInv'
<1>1. /\ UNCHANGED <<item, made, loaded, run, faults>> /\ moves' = moves + 1
      /\ settled' = [settled EXCEPT ![a] = FALSE, ![b] = FALSE]
  BY DEF Transfers
<1>2. PICK left \in {None, file[a]} : file' = [file EXCEPT ![a] = left, ![b] = file[a]]
  BY DEF Transfers
<1>3. /\ \A e \in Dir : file'[e] \in {None, file[e], file[a]}
      /\ \A e \in Dir \ {a, b} : file'[e] = file[e]
      /\ file' \in [Dir -> 0..made]
  BY <1>2, Start DEF None
<1>4. /\ settled' \in [Dir -> BOOLEAN] /\ ~settled'[a] /\ ~settled'[b]
      /\ \A e \in Dir \ {a, b} : settled'[e] = settled[e]
  BY <1>1, Start
<1>5. TypeOK'
  <2>1. ItemType' /\ moves' \in Nat /\ faults' \in Nat
    BY <1>1, Start DEF ItemType
  <2>2. loaded' \in [Dir -> 0..made] /\ run' \in [Proc -> RunType'] /\ made' = made
    BY <1>1, Start DEF RunType
  <2> QED
    BY <1>3, <1>4, <2>1, <2>2, Start, TypeKept
<1>6. Placed'
  BY <1>1, Start DEF Placed, PlacedAt, Looking, Names, Destroys
<1>7. FreshIsOwn'
  <2> SUFFICES ASSUME NEW d \in Dir, Fresh(d)' PROVE IsOwn(d, run[d].mine)'
    BY DEF FreshIsOwn
  <2>1. Fresh(d) /\ run[d].mine # None /\ IsOwn(d, run[d].mine) /\ run' = run
    BY <1>1, Start DEF FreshIsOwn, Fresh
  <2>2. \A e \in Dir : file'[e] # run[d].mine
    BY <1>3, <2>1 DEF IsOwn
  <2> QED
    BY <1>1, <2>1, <2>2 DEF IsOwn, Names, Service, ProbeService
<1>8. AtHome'
  <2> SUFFICES ASSUME NEW d \in Dir, settled'[d] PROVE Home(d, file[d])'
    BY DEF AtHome
  <2>1. d \notin {a, b} /\ settled[d] /\ file'[d] = file[d]
    BY <1>3, <1>4
  <2>2. Home(d, file[d])
    BY <2>1, Start DEF AtHome
  <2>3. \A e \in Dir \ {d} : file'[e] # file[d]
    BY <1>3, <2>1, <2>2 DEF Home
  <2> QED
    BY <1>1, <2>1, <2>2, <2>3 DEF Home, Names, Destroys
<1> QED
  BY <1>5, <1>6, <1>7, <1>8 DEF IInv

\* A set of numbers with a bound has a greatest.
LEMMA MaximumExists ==
  ASSUME NEW m \in Nat, NEW S \in SUBSET (1..m), S # {}
  PROVE  \E x \in S : \A y \in S : x >= y
<1> DEFINE T == {k \in 0..m : m - k \in S}
<1>1. T \subseteq Nat /\ T # {}
  <2>1. PICK x \in S : TRUE
    OBVIOUS
  <2>2. x \in 1..m /\ m - x \in 0..m /\ m - (m - x) = x
    OBVIOUS
  <2>3. m - x \in T
    BY <2>1, <2>2
  <2> QED
    BY <2>3
<1>2. PICK t \in T : \A u \in T : ~(<<u, t>> \in OpToRel(<, Nat))
  BY <1>1, WFMin, NatLessThanWellFounded
<1>3. \A u \in T : ~(u < t)
  BY <1>1, <1>2 DEF OpToRel
<1>4. PICK x \in S : t = m - x
  <2>1. t \in 0..m /\ m - t \in S /\ t = m - (m - t)
    BY <1>1
  <2> QED
    BY <2>1
<1>5. \A y \in S : x >= y
  <2> SUFFICES ASSUME NEW y \in S PROVE x >= y
    OBVIOUS
  <2>1. m - y \in T
    <3>1. y \in 1..m /\ m - y \in 0..m /\ m - (m - y) = y
      OBVIOUS
    <3> QED
      BY <3>1
  <2>2. ~(m - y < m - x)
    BY <1>3, <1>4, <2>1
  <2>3. x \in 1..m /\ y \in 1..m
    OBVIOUS
  <2> QED
    BY <2>2, <2>3
<1> QED
  BY <1>5

\* And that is what Newest finds.
LEMMA GreatestExists ==
  ASSUME NEW m \in Nat, NEW S \in SUBSET (1..m), S # {}
  PROVE  Newest(S) \in S
BY MaximumExists DEF Newest, Max

\* And nothing exceeds it.
LEMMA GreatestBounds ==
  ASSUME NEW m \in Nat, NEW S \in SUBSET (1..m), S # {}, NEW y \in S, y # Newest(S)
  PROVE  y < Newest(S)
<1>1. Newest(S) \in S /\ Newest(S) >= y
  BY MaximumExists DEF Newest, Max
<1>2. Newest(S) \in 1..m /\ y \in 1..m
  BY <1>1
<1> QED
  BY <1>1, <1>2

\* Where a wipe is.
LEMMA Wiping ==
  ASSUME IInv, NEW d \in Dir, run[d].at \in {"list", "remove"}
  PROVE  /\ d \in Proc /\ d # Gone /\ d # Status /\ run[d].dir = d /\ run[d] \in RunType
         /\ Destroys(d) \/ run[d].job \in {"probe", "unprobe"}
         /\ run[d].job \in {"probe", "unprobe"} => Fresh(d) /\ run[d].mine # None /\ IsOwn(d, run[d].mine)
         /\ settled[d] => item[file[d]] = d /\ file[d] # None /\ file[d] \in Name
         /\ settled[d] /\ run[d].at = "remove" => file[d] \notin Names(d)
<1>1. PlacedAt(d) /\ d \in Proc /\ TypeOK /\ FreshIsOwn /\ run[d] \in RunType
  BY Start, NameTypes DEF Placed, Proc
<1>2. Destroys(d) \/ (run[d].job \in {"probe", "unprobe"} /\ run[d].mine # None)
  BY <1>1 DEF PlacedAt
<1>3. run[d].job \in {"probe", "unprobe"} => Fresh(d) /\ run[d].mine # None /\ IsOwn(d, run[d].mine)
  BY <1>1, <1>2 DEF Fresh, FreshIsOwn, Destroys
<1>4. settled[d] => item[file[d]] = d /\ file[d] # None /\ file[d] \in Name
  BY <1>1, Start, NameTypes DEF AtHome, Home
<1>5. ASSUME settled[d], run[d].at = "remove" PROVE file[d] \notin Names(d)
  <2>1. ~Destroys(d)
    BY <1>5, Start DEF AtHome, Home
  <2>2. IsOwn(d, run[d].mine) /\ Names(d) \subseteq {run[d].mine, None}
    BY <1>2, <1>3, <2>1 DEF IsOwn
  <2> QED
    BY <1>4, <1>5, <2>2 DEF IsOwn
<1> QED
  BY <1>1, <1>2, <1>3, <1>4, <1>5 DEF PlacedAt

\* A wipe goes on to its next state, or fails; nothing else changes.
LEMMA WipeMoves ==
  ASSUME IInv, NEW d \in Dir, run[d].at \in {"list", "remove"}, NEW at \in {"failed", "wiped"},
         at = "wiped" => run[d].at = "remove",
         Becomes(d, at, run[d].job, d, run[d].mine, run[d].others, run[d].last),
         UNCHANGED <<item, made, file, loaded, moves, settled>>, faults' \in Nat
  PROVE  IInv'
<1>1. /\ d \in Proc /\ d # Gone /\ d # Status /\ run[d].dir = d
      /\ Destroys(d) \/ run[d].job \in {"probe", "unprobe"}
      /\ run[d].job \in {"probe", "unprobe"} => Fresh(d) /\ run[d].mine # None /\ IsOwn(d, run[d].mine)
  BY Wiping
<1>2. at \in Ats /\ run[d].job \in Jobs
  BY <1>1 DEF Ats, Jobs, Destroys
<1>3. settled[d] => item'[file[d]] = d
  BY HomeTag
<1>4. ItemType' /\ \A m \in Name : item'[m] = item[m]
  BY Start DEF ItemType
<1>5. settled' \in [Dir -> BOOLEAN] /\ \A e \in Dir : settled'[e] = settled[e]
  BY Start
<1>6. PlacedAt(d)'
  BY <1>1 DEF PlacedAt, Becomes, Destroys
<1>7. ASSUME settled'[d] PROVE settled[d] /\ (Destroys(d)' => at \in {"list", "failed"})
  <2>1. settled[d] /\ (Destroys(d)' => Destroys(d))
    BY <1>5, <1>7 DEF Destroys, Becomes
  <2>2. run[d].at = "remove" => ~Destroys(d)
    BY <2>1, Start DEF AtHome, Home
  <2> QED
    BY <2>1, <2>2
<1>8. ASSUME Fresh(d)'
      PROVE  Fresh(d) /\ item'[run[d].mine] \in {Gone, Service(d, run[d].mine)}
  <2>1. run[d].job \in {"probe", "unprobe"}
    BY <1>8 DEF Fresh, Becomes
  <2> QED
    BY <1>1, <2>1 DEF IsOwn
<1>9. at # "write"
  OBVIOUS
<1> QED
  BY <1>1, <1>2, <1>3, <1>4, <1>5, <1>6, <1>7, <1>8, <1>9, MoveKeeps

\* Wipe lists the directory's items.
LEMMA ListKeeps == ASSUME IInv, NEW d \in Dir, List(d) PROVE IInv'
<1>1. /\ run[d].at = "list" /\ run[d].at \in {"list", "remove"}
      /\ UNCHANGED <<item, made, file, loaded, moves>>
  BY DEF List, disks
<1>2. /\ d \in Proc /\ d # Gone /\ d # Status /\ run[d].dir = d /\ run[d] \in RunType
      /\ Destroys(d) \/ run[d].job \in {"probe", "unprobe"}
      /\ run[d].job \in {"probe", "unprobe"} => Fresh(d) /\ run[d].mine # None /\ IsOwn(d, run[d].mine)
      /\ settled[d] => item[file[d]] = d /\ file[d] # None /\ file[d] \in Name
  BY <1>1, Wiping
<1>3. ItemType' /\ \A m \in Name : item'[m] = item[m]
  BY <1>1, Start DEF ItemType
<1>m. PICK m \in 0..made : m = run[d].mine
  BY <1>2, Start, NameTypes
<1>l. PICK listed : listed = Listed(Service(d, m))
  OBVIOUS
<1>4. listed \in SUBSET (1..made) /\ \A n \in listed : n \in Name /\ (item[n] = d \/ n = m)
  <2> SUFFICES ASSUME NEW n \in listed
               PROVE  n \in 1..made /\ n \in Name /\ (item[n] = d \/ n = m)
    OBVIOUS
  <2>1. n \in Name /\ item[n] = Service(d, m) /\ n \in Nat
    BY <1>l DEF Listed, Name
  <2>2. Service(d, m) \in {d, m} /\ Service(d, m) # Gone
    BY <1>2 DEF Service, ProbeService
  <2>3. n <= made
    BY <2>1, <2>2, Start DEF ItemType
  <2>4. item[n] = d \/ n = m
    <3>1. CASE item[n] = m
      <4>1. m \in Nat /\ m \notin Dir /\ m # Gone
        OBVIOUS
      <4> QED
        BY <2>1, <3>1, <4>1, Start DEF ItemType
    <3> QED
      BY <2>1, <2>2, <3>1
  <2> QED
    BY <2>1, <2>3, <2>4, Start DEF Name
<1>u. PICK inUse : inUse = IF m # None THEN m ELSE IF listed # {} THEN Newest(listed) ELSE None
  OBVIOUS
<1>5. inUse \in 0..made /\ inUse \in {m, None} \cup listed
  <2>1. listed # {} => Newest(listed) \in listed
    BY <1>4, Start, GreatestExists
  <2> QED
    BY <1>4, <1>u, <2>1, Start DEF None
<1>6. CASE GoesHurt(d, "failed") /\ Fault /\ UNCHANGED settled
  <2>1. Becomes(d, "failed", run[d].job, d, run[d].mine, run[d].others, run[d].last)
    BY <1>1, <1>2, <1>6, Start, GoesOnFacts DEF Ats
  <2>2. faults' \in Nat
    BY <1>6, Start DEF Fault
  <2> QED
    BY <1>1, <1>6, <2>1, <2>2, WipeMoves
<1>7. CASE /\ Runs(d, [run[d] EXCEPT !.at = "remove", !.others = listed \ {inUse}, !.last = inUse,
                                 !.was = {n \in Name : n \in listed \/ n = m \/ (settled[d] /\ n = file[d])}])
           /\ settled' = [settled EXCEPT ![d] = @ /\ ~Destroys(d)]
           /\ UNCHANGED faults
  <2>w. PICK w : w = {n \in Name : n \in listed \/ n = m \/ (settled[d] /\ n = file[d])}
    OBVIOUS
  <2>1. w \in SUBSET (1..made)
    <3> SUFFICES ASSUME NEW n \in w PROVE n \in 1..made
      OBVIOUS
    <3>1. n \in Name /\ (n \in listed \/ n = m \/ n = file[d]) /\ file[d] \in 0..made
      BY <2>w, Start
    <3> QED
      BY <1>4, <3>1, Start DEF Name
  <2>2. Becomes(d, "remove", run[d].job, d, m, listed \ {inUse}, inUse)
    <3>1. listed \ {inUse} \in SUBSET (1..made)
      BY <1>4
    <3>2. RunType' = RunType /\ run \in [Proc -> RunType]
      BY <1>1, Start DEF RunType
    <3>3. run' = [run EXCEPT ![d] = ListedRun(run[d], listed \ {inUse}, inUse, w)]
      BY <1>7, <2>w DEF Runs, ListedRun
    <3> QED
      BY <1>2, <1>5, <1>m, <2>1, <3>1, <3>2, <3>3, ListFacts DEF Becomes
  <2>3. NamesNext(d) \subseteq {m, None} \cup listed
    BY <1>5, <2>2 DEF NamesNext, Becomes
  <2>4. /\ settled' \in [Dir -> BOOLEAN] /\ \A e \in Dir \ {d} : settled'[e] = settled[e]
        /\ settled'[d] => settled[d] /\ ~Destroys(d)
    BY <1>7, Start DEF Destroys
  <2>5. TypeOK'
    BY <1>1, <1>3, <1>7, <2>2, <2>4, Start, TypeKept DEF Becomes
  <2>6. StepOf(d, d)
    <3>1. \A n \in NamesNext(d) : n \in {None} \cup Names(d) \/ (n \in Name /\ item[n] = d)
      BY <1>4, <1>m, <2>3 DEF Names
    <3>2. /\ run[d].dir \in {d, Gone} /\ run'[d].dir \in {d, Gone} /\ d \in Dir
          /\ \A q \in Proc \ {d} : run'[q] = run[q]
      BY <1>2, <2>2 DEF Becomes
    <3>3. /\ \A n \in Name : item'[n] = item[n]
          /\ \A e \in Dir \ {d} : file'[e] = file[e] /\ loaded'[e] = loaded[e] /\ settled'[e] = settled[e]
          /\ file'[d] = file[d] /\ loaded'[d] = loaded[d]
      BY <1>1, <2>4
    <3> HIDE DEF NamesNext
    <3> QED
      BY <3>1, <3>2, <3>3 DEF StepOf
  <2>7. PlacedAt(d)'
    BY <1>2, <1>m, <2>2 DEF PlacedAt, Becomes, Destroys
  <2>8. ASSUME Fresh(d)' PROVE IsOwn(d, run[d].mine)'
    <3>1. run[d].job \in {"probe", "unprobe"}
      BY <2>2, <2>8 DEF Fresh, Becomes
    <3>2. IsOwn(d, m) /\ m # None /\ run'[d].mine = m
      BY <1>2, <1>m, <2>2, <3>1 DEF Becomes
    <3>3. listed \subseteq {m}
      <4> SUFFICES ASSUME NEW n \in listed PROVE n = m
        OBVIOUS
      <4>1. n \in Name /\ n \in Nat /\ item[n] = m /\ m \in Nat
        BY <1>l, <3>1 DEF Listed, Service, ProbeService, Name
      <4> QED
        BY <4>1, Start DEF ItemType
    <3>4. Names(d)' \subseteq {m, None}
      BY <2>3, <3>3 DEF Names, NamesNext
    <3>5. Service(d, m)' = Service(d, m)
      BY <1>2, <2>2 DEF Service, ProbeService, Becomes
    <3>6. \A q \in Proc \ {d} : Names(q)' = Names(q)
      BY <2>2 DEF Names, Becomes
    <3>7. run'[d].at # "write"
      BY <2>2 DEF Becomes
    <3> QED
      BY <1>1, <3>2, <3>4, <3>5, <3>6, <3>7 DEF IsOwn
  <2>9. ASSUME settled'[d] PROVE Home(d, file[d])'
    <3>1. settled[d] /\ item'[file[d]] = d /\ file'[d] = file[d]
      BY <1>1, <1>2, <2>4, <2>9
    <3>2. ~Destroys(d)' /\ run'[d].dir = d
      BY <2>2, <2>4, <2>9 DEF Destroys, Becomes
    <3> QED
      BY <1>2, <2>6, <3>1, <3>2, Start, HomeSame
  <2> QED
    BY <1>2, <2>5, <2>6, <2>7, <2>8, <2>9, StepKeeps
<1>8. \/ GoesHurt(d, "failed") /\ Fault /\ UNCHANGED settled
      \/ /\ Runs(d, [run[d] EXCEPT !.at = "remove", !.others = listed \ {inUse}, !.last = inUse,
                                 !.was = {n \in Name : n \in listed \/ n = m \/ (settled[d] /\ n = file[d])}])
         /\ settled' = [settled EXCEPT ![d] = @ /\ ~Destroys(d)]
         /\ UNCHANGED faults
  BY <1>l, <1>m, <1>u DEF List
<1> QED
  BY <1>6, <1>7, <1>8

\* Wipe deletes one.
LEMMA RemoveKeeps == ASSUME IInv, NEW d \in Dir, Remove(d) PROVE IInv'
<1>1. /\ run[d].at = "remove" /\ run[d].at \in {"list", "remove"}
      /\ UNCHANGED <<made, file, loaded, moves, settled>>
  BY DEF Remove, disks
<1>2. /\ d \in Proc /\ d # Gone /\ d # Status /\ run[d].dir = d /\ run[d] \in RunType
      /\ Destroys(d) \/ run[d].job \in {"probe", "unprobe"}
      /\ run[d].job \in {"probe", "unprobe"} => Fresh(d) /\ run[d].mine # None /\ IsOwn(d, run[d].mine)
      /\ settled[d] => item[file[d]] = d /\ file[d] # None /\ file[d] \in Name /\ file[d] \notin Names(d)
  BY <1>1, Wiping
<1>3. ASSUME NEW at \in {"failed", "wiped"}, Goes(d, at) \/ GoesHurt(d, at), UNCHANGED item, faults' \in Nat
      PROVE  IInv'
  <2>1. Becomes(d, at, run[d].job, d, run[d].mine, run[d].others, run[d].last)
    BY <1>1, <1>2, <1>3, Start, GoesOnFacts DEF Ats
  <2> QED
    BY <1>1, <1>3, <2>1, WipeMoves
<1>4. ASSUME NEW n \in NextToGo(run[d]), Removes(n), UNCHANGED faults,
             Runs(d, [run[d] EXCEPT !.others = @ \ {n}, !.last = IF @ = n THEN None ELSE @,
                                       !.removed = @ \cup {n}])
      PROVE  IInv'
  <2>1. n \in Names(d) /\ n \in 1..made /\ n \in Name /\ n # None
    <3>1. run[d].others \subseteq 1..made /\ run[d].last \in 0..made
      BY <1>2, Start, NameTypes
    <3>2. n \in Names(d) /\ n \in 1..made
      BY <3>1 DEF NextToGo, Names, None
    <3>3. n # None /\ n \in 0..made
      BY <3>2, Start DEF None
    <3> QED
      BY <3>2, <3>3, Start, NameTypes
  <2>2. Becomes(d, "remove", run[d].job, d, run[d].mine, run[d].others \ {n},
                IF run[d].last = n THEN None ELSE run[d].last)
    <3>1. RunType' = RunType /\ run \in [Proc -> RunType]
      BY <1>1, Start DEF RunType
    <3>2. run' = [run EXCEPT ![d] = Without(run[d], n)]
      BY <1>4 DEF Runs, Without
    <3> QED
      BY <1>1, <1>2, <2>1, <3>1, <3>2, Start, RemoveFacts DEF Becomes
  <2>3. item'[n] = Gone /\ \A m \in Name \ {n} : item'[m] = item[m]
    BY <1>4, <2>1, Start DEF Removes, ItemType
  <2>4. ItemType'
    BY <1>1, <1>4, <2>3, Start DEF Removes, ItemType
  <2>5. TypeOK'
    BY <1>1, <1>4, <2>2, <2>4, Start, TypeKept DEF Becomes
  <2>6. NamesNext(d) \subseteq Names(d) \cup {None}
    BY <2>2 DEF NamesNext, Names, Becomes
  <2>7. StepOf(d, d)
    <3>1. \A m \in NamesNext(d) : m \in {None} \cup Names(d)
      BY <2>6
    <3>2. /\ run[d].dir \in {d, Gone} /\ run'[d].dir \in {d, Gone} /\ d \in Dir
          /\ \A q \in Proc \ {d} : run'[q] = run[q]
      BY <1>2, <2>2 DEF Becomes
    <3>3. \A m \in Name : item'[m] = item[m] \/ m \in Names(d)
      BY <2>1, <2>3
    <3> QED
      BY <1>1, <3>1, <3>2, <3>3 DEF StepOf
  <2>8. PlacedAt(d)'
    BY <1>2, <2>2 DEF PlacedAt, Becomes, Destroys
  <2>9. ASSUME Fresh(d)' PROVE IsOwn(d, run[d].mine)'
    <3>1. run[d].job \in {"probe", "unprobe"}
      BY <2>2, <2>9 DEF Fresh, Becomes
    <3>2. IsOwn(d, run[d].mine) /\ run'[d].mine = run[d].mine
      BY <1>2, <2>2, <3>1 DEF Becomes
    <3>3. Names(d)' \subseteq {run[d].mine, None}
      BY <2>6, <3>2 DEF Names, NamesNext, IsOwn
    <3>4. Service(d, run[d].mine)' = Service(d, run[d].mine)
      BY <1>2, <2>2 DEF Service, ProbeService, Becomes
    <3>5. \A q \in Proc \ {d} : Names(q)' = Names(q)
      BY <2>2 DEF Names, Becomes
    <3>6. run'[d].at # "write" /\ item'[run[d].mine] \in {item[run[d].mine], Gone}
      <4>1. run[d].mine \in Name
        BY <1>2, <3>1, Start, NameTypes
      <4> QED
        BY <2>2, <2>3, <4>1 DEF Becomes
    <3> QED
      BY <1>1, <3>2, <3>3, <3>4, <3>5, <3>6 DEF IsOwn
  <2>10. ASSUME settled'[d] PROVE Home(d, file[d])'
    <3>1. settled[d] /\ file'[d] = file[d] /\ file[d] # n /\ file[d] \in Name /\ item[file[d]] = d
      BY <1>1, <1>2, <2>1, <2>10
    <3>2. item'[file[d]] = d
      BY <2>3, <3>1
    <3>3. ~Destroys(d)
      BY <1>1, <3>1, Start DEF AtHome, Home
    <3>4. ~Destroys(d)' /\ run'[d].dir = d
      BY <2>2, <3>3 DEF Destroys, Becomes
    <3> QED
      BY <1>2, <2>7, <3>1, <3>2, <3>4, Start, HomeSame
  <2> QED
    BY <1>2, <2>5, <2>7, <2>8, <2>9, <2>10, StepKeeps
<1>5. CASE Goes(d, "wiped") /\ UNCHANGED <<item, faults>>
  BY <1>3, <1>5, Start
<1>6. CASE GoesHurt(d, "failed") /\ Fault /\ UNCHANGED item
  <2>1. faults' \in Nat
    BY <1>6, Start DEF Fault
  <2> QED
    BY <1>3, <1>6, <2>1
<1> QED
  BY <1>4, <1>5, <1>6 DEF Remove

-----------------------------------------------------------------------------
(***************************************************************************)
(* The theorems.                                                           *)
(***************************************************************************)

\* It holds at first.
LEMMA InitIInv == ASSUME Init PROVE IInv
<1>1. /\ made = 0 /\ item = [n \in Name |-> Gone] /\ run = [p \in Proc |-> Idle]
      /\ file = [d \in Dir |-> None] /\ loaded = [d \in Dir |-> None] /\ settled = [d \in Dir |-> FALSE]
      /\ moves = 0 /\ faults = 0
  BY DEF Init
<1>2. /\ Idle \in RunType /\ Idle.at = "idle" /\ Idle.job = "none" /\ Idle.dir = Gone
      /\ Idle.mine = None /\ Idle.others = {} /\ Idle.last = None
  BY <1>1, IdleFacts
<1>3. \A p \in Proc : run[p] = Idle
  BY <1>1
<1>4. TypeOK
  <2>1. made \in 0..MaxItems /\ moves \in Nat /\ faults \in Nat /\ None \in 0..made
    BY <1>1 DEF None
  <2>2. \A n \in Name : item[n] \in Dir \cup {Gone, n} /\ (n > made => item[n] = Gone)
    BY <1>1
  <2> QED
    BY <1>1, <1>2, <2>1, <2>2 DEF TypeOK
<1>5. Placed
  BY <1>2, <1>3 DEF Placed, PlacedAt, Looking, Proc
<1>6. FreshIsOwn
  BY <1>2, <1>3 DEF FreshIsOwn, Fresh, Proc
<1>7. AtHome
  BY <1>1 DEF AtHome
<1> QED
  BY <1>4, <1>5, <1>6, <1>7 DEF IInv

\* And when nothing happens.
LEMMA Stutters == ASSUME IInv, UNCHANGED vars PROVE IInv'
BY DEF vars, IInv, TypeOK, RunType, Placed, PlacedAt, Looking, FreshIsOwn, Fresh, IsOwn, AtHome, Home,
       Destroys, Names, Service, ProbeService

\* The inductive invariant holds of every state (Unwrap, Wrap, Wipe, tryKeychain, Store).
THEOREM Invariance == Spec => []IInv
<1>1. ASSUME IInv, [Next]_vars PROVE IInv'
  <2>1. ASSUME NEW d \in Dir, Load(d) \/ Pair(d) \/ Wipe(d) \/ WipeAll(d) \/ Ends(d) \/ Crash(d) \/ Looks(d)
        PROVE  IInv'
    BY <1>1, <2>1, LoadKeeps, EndsKeeps, CrashKeeps, LooksKeeps
  <2>2. ASSUME NEW d \in Dir,
               Add(d) \/ ReadBack(d) \/ Write(d) \/ List(d) \/ Remove(d) \/ StoreGoesOn(d) \/ OtherBuild(d)
        PROVE  IInv'
    BY <1>1, <2>2, AddKeeps, ReadBackKeeps, WriteKeeps, ListKeeps, RemoveKeeps, StoreGoesOnKeeps, EndsKeeps
  <2>3. ASSUME NEW p \in Proc, Get(p) \/ Retag(p) \/ GivesUp(p)
        PROVE  IInv'
    BY <1>1, <2>3, GetKeeps, RetagKeeps, GivesUpKeeps
  <2>4. ASSUME NEW a \in Dir, NEW b \in Dir, Transfers(a, b)
        PROVE  IInv'
    BY <1>1, <2>4, TransfersKeeps
  <2>5. CASE UNCHANGED vars
    BY <1>1, <2>5, Stutters
  <2> QED
    BY <1>1, <2>1, <2>2, <2>3, <2>4, <2>5 DEF Next
<1> QED
  BY <1>1, InitIInv, PTL DEF Spec

\* A state file written or opened where it is keeps its key until a wipe there (Unwrap's re-tag, the
\* items' services).
THEOREM KeyOfAFileStays == Spec => []KeysStay
<1>1. ASSUME IInv PROVE KeysStay
  <2> SUFFICES ASSUME NEW d \in Dir, settled[d] PROVE file[d] # None /\ item[file[d]] # Gone
    BY DEF KeysStay
  <2>1. Home(d, file[d])
    BY <1>1 DEF IInv, AtHome
  <2> QED
    BY <2>1 DEF Home
<1> QED
  BY <1>1, Invariance, PTL

-----------------------------------------------------------------------------
(***************************************************************************)
(* What calls have done so far: ToldInv.                                   *)
(***************************************************************************)

\* A step of p leaves the others' calls, files and items, and makes no old item anew.
Local(p) ==
  /\ \A q \in Proc \ {p} : run'[q] = run[q]
  /\ \A e \in Dir \ {p} : file'[e] = file[e] /\ loaded'[e] = loaded[e]
  /\ \A n \in Name : item'[n] = item[n] \/ n \in Names(p) \/ n > made
  /\ \A n \in 1..made : item[n] = Gone => item'[n] = Gone

\* So what they have done so far is as it was.
LEMMA ToldKept ==
  ASSUME IInv, ToldInv, NEW p \in Proc, Local(p), p \in Dir => ToldAt(p)'
  PROVE  ToldInv'
<1> SUFFICES ASSUME NEW d \in Dir, d # p PROVE ToldAt(d)'
  BY DEF ToldInv
<1>1. ToldAt(d) /\ run'[d] = run[d] /\ file'[d] = file[d] /\ loaded'[d] = loaded[d]
  BY DEF ToldInv, Local, Proc
<1>2. Unharmed(d)'
  <2>1. ASSUME run[d].job = "probe", run[d].at \in {"get", "back"} PROVE Found(run[d].mine)'
    <3>1. PlacedAt(d) /\ Fresh(d) /\ IsOwn(d, run[d].mine)
      BY <2>1, Start DEF Placed, PlacedAt, Fresh, FreshIsOwn
    <3>2. run[d].mine \in Name /\ run[d].mine \in 0..made
      BY <2>1, <3>1, Start, NameTypes DEF Proc, PlacedAt
    <3>3. run[d].mine \notin Names(p) /\ ~(run[d].mine > made)
      BY <3>1, <3>2, Start DEF IsOwn
    <3>4. item'[run[d].mine] = item[run[d].mine]
      BY <3>2, <3>3 DEF Local
    <3> QED
      BY <1>1, <2>1, <3>4 DEF ToldAt, Unharmed, Found
  <2> QED
    BY <1>1, <2>1 DEF ToldAt, Unharmed
<1>3. KnownFile(d)'
  BY <1>1 DEF ToldAt, KnownFile, Destroys
<1>4. Destroys(d)' => SoFar(d)'
  <2>1. run[d].was \subseteq 1..made
    <3>1. run[d] \in RunType
      BY Start, NameTypes DEF Proc
    <3> QED
      BY <3>1 DEF RunType
  <2>2. \A n \in run[d].was : item[n] = Gone => item'[n] = Gone
    BY <2>1 DEF Local
  <2> QED
    BY <1>1, <2>2 DEF ToldAt, SoFar, Destroys, LastOfAll
<1> QED
  BY <1>2, <1>3, <1>4 DEF ToldAt

\* A step that touches no item.
LEMMA LocalQuiet ==
  ASSUME IInv, NEW p \in Proc, NEW r, run' = [run EXCEPT ![p] = r], item' = item,
         \A e \in Dir \ {p} : file'[e] = file[e] /\ loaded'[e] = loaded[e]
  PROVE  Local(p)
BY Start DEF Local

\* A call ends.
LEMMA RestTold ==
  ASSUME IInv, NEW p \in Proc, run' = [run EXCEPT ![p] = Idle],
         p \in Dir => loaded'[p] \in {None, file'[p]}
  PROVE  p \in Dir => ToldAt(p)'
<1>1. run'[p] = Idle /\ Idle.at = "idle" /\ Idle.job = "none"
  BY Start, IdleFacts
<1> QED
  BY <1>1 DEF ToldAt, Unharmed, KnownFile, Destroys

\* A call begins.
LEMMA StartTold ==
  ASSUME IInv, NEW d \in Dir, NEW at \in {"get", "list", "add"}, NEW job \in Jobs, NEW m \in 0..made,
         Starts(d, at, job, m), loaded'[d] \in {None, file'[d]}, job # "unprobe",
         at = "get" => job = "load" /\ m = file'[d],
         job \in {"old", "wipe", "all"} => at = "list" /\ m \in {None, file'[d]}
  PROVE  ToldAt(d)'
<1>1. at \in Ats /\ d \in Proc
  BY DEF Ats, Proc
<1>2. /\ run'[d].at = at /\ run'[d].job = job /\ run'[d].mine = m
      /\ run'[d].others = {} /\ run'[d].last = None /\ run'[d].removed = {}
  <2>1. run'[d] = Call(d, at, job, m)
    BY <1>1, Start DEF Starts, Runs
  <2> QED
    BY <1>1, <2>1, Start, CallFacts
<1>3. Unharmed(d)'
  BY <1>2 DEF Unharmed
<1>4. KnownFile(d)'
  BY <1>2 DEF KnownFile, Destroys
<1>5. Destroys(d)' => SoFar(d)'
  BY <1>2 DEF SoFar, Destroys
<1> QED
  BY <1>3, <1>4, <1>5 DEF ToldAt

\* What the lock holder begins or ends, and `status`.
LEMMA CallsTold ==
  ASSUME IInv, ToldInv, NEW d \in Dir,
         \/ Load(d) \/ Pair(d) \/ Wipe(d) \/ WipeAll(d) \/ Ends(d) \/ Crash(d) \/ Looks(d) \/ OtherBuild(d)
  PROVE  ToldInv'
<1>1. d \in Proc /\ file[d] \in 0..made /\ loaded[d] \in {None, file[d]} /\ None \in 0..made
      /\ file \in [Dir -> 0..made] /\ loaded \in [Dir -> 0..made]
  BY Start DEF Proc, ToldInv, ToldAt, KnownFile, None
<1>2. "load" \in Jobs /\ "probe" \in Jobs /\ "wipe" \in Jobs /\ "all" \in Jobs
  BY DEF Jobs
<1> USE DEF disks
<1>3. CASE Load(d)
  <2>1. ToldAt(d)'
    BY <1>1, <1>2, <1>3, StartTold DEF Load
  <2>2. Local(d)
    BY <1>1, <1>3, LocalQuiet DEF Load, Starts, Runs
  <2> QED
    BY <1>1, <2>1, <2>2, ToldKept
<1>4. CASE Pair(d)
  <2>1. ToldAt(d)'
    BY <1>1, <1>2, <1>4, StartTold DEF Pair
  <2>2. Local(d)
    BY <1>1, <1>4, LocalQuiet DEF Pair, Starts, Runs
  <2> QED
    BY <1>1, <2>1, <2>2, ToldKept
<1>5. CASE Wipe(d)
  <2>1. ToldAt(d)'
    BY <1>1, <1>2, <1>5, StartTold DEF Wipe
  <2>2. Local(d)
    BY <1>1, <1>5, LocalQuiet DEF Wipe, Starts, Runs
  <2> QED
    BY <1>1, <2>1, <2>2, ToldKept
<1>6. CASE WipeAll(d)
  <2>1. ToldAt(d)'
    BY <1>1, <1>2, <1>6, StartTold DEF WipeAll
  <2>2. Local(d)
    BY <1>1, <1>6, LocalQuiet DEF WipeAll, Starts, Runs
  <2> QED
    BY <1>1, <2>1, <2>2, ToldKept
<1>7. CASE Ends(d) \/ OtherBuild(d)
  <2>1. run' = run /\ item' = item /\ run[d] = Idle /\ run' = [run EXCEPT ![d] = Idle]
    BY <1>1, <1>7, Start DEF Ends, OtherBuild, Placed, PlacedAt
  <2>2. /\ loaded'[d] = None
        /\ \A e \in Dir \ {d} : file'[e] = file[e] /\ loaded'[e] = loaded[e]
    BY <1>1, <1>7 DEF Ends, OtherBuild
  <2>3. Local(d)
    BY <1>1, <2>1, <2>2, LocalQuiet
  <2> QED
    BY <1>1, <2>1, <2>2, <2>3, RestTold, ToldKept
<1>8. CASE Crash(d)
  <2>1. run' = [run EXCEPT ![d] = Idle] /\ item' = item /\ loaded'[d] = None
    BY <1>1, <1>8 DEF Crash, Rests, Runs
  <2>2. \A e \in Dir \ {d} : file'[e] = file[e] /\ loaded'[e] = loaded[e]
    BY <1>1, <1>8 DEF Crash
  <2>3. Local(d)
    BY <1>1, <2>1, <2>2, LocalQuiet
  <2> QED
    BY <1>1, <2>1, <2>3, RestTold, ToldKept
<1>9. CASE Looks(d)
  <2>1. Status \in Proc /\ Status \notin Dir
    BY DEF Proc
  <2>2. Local(Status)
    BY <1>9, <2>1, LocalQuiet DEF Looks, Runs
  <2> QED
    BY <2>1, <2>2, ToldKept
<1> QED
  BY <1>3, <1>4, <1>5, <1>6, <1>7, <1>8, <1>9

\* The items made have names.
LEMMA OldNames == ASSUME IInv PROVE 1..made \subseteq Name
BY Start, NameTypes DEF Name

\* A call of no wipe goes on.
LEMMA GoesTold ==
  ASSUME IInv, ToldInv, NEW d \in Dir, NEW at \in Ats,
         run'[d].at = at, run'[d].job = run[d].job, run'[d].mine = run[d].mine,
         run[d].job \in {"load", "probe", "new"}, file'[d] = file[d], loaded'[d] = loaded[d],
         at \in {"nokeychain", "failed"} => run'[d].hurt,
         at \in {"get", "retag"} => run[d].at \in {"get", "retag"} \/ run[d].job = "probe",
         at \in {"get", "back"} => Found(run[d].mine)'
  PROVE  ToldAt(d)'
<1>1. ToldAt(d)
  BY DEF ToldInv
<1>2. Unharmed(d)'
  BY DEF Unharmed, Found
<1>3. KnownFile(d)'
  BY <1>1 DEF ToldAt, KnownFile, Destroys
<1>4. ~Destroys(d)'
  BY DEF Destroys
<1> QED
  BY <1>2, <1>3, <1>4 DEF ToldAt

\* An item is opened.
LEMMA OpenedTold ==
  ASSUME IInv, ToldInv, NEW p \in Proc, run[p].at \in {"get", "retag"}, Opened(p), file' = file, made' = made
  PROVE  /\ p \in Dir => ToldAt(p)'
         /\ \A q \in Proc \ {p} : run'[q] = run[q]
         /\ \A e \in Dir \ {p} : loaded'[e] = loaded[e]
<1>1. /\ p \in Dir => run[p].job \in {"load", "probe"}
      /\ p = Status => run[p].job = "look"
      /\ run[p] \in RunType /\ "list" \in Ats
  BY Opening, Start DEF Ats
<1>2. PICK r : run' = [run EXCEPT ![p] = r]
  BY DEF Opened, Rests, Goes, Runs
<1>3. \A e \in Dir \ {p} : loaded'[e] = loaded[e]
  BY Start DEF Opened
<1>4. ASSUME p \in Dir, run[p].job = "load" PROVE ToldAt(p)'
  <2>1. ToldAt(p)
    BY <1>4 DEF ToldInv
  <2>2. loaded' = [loaded EXCEPT ![p] = run[p].mine] /\ run' = [run EXCEPT ![p] = Idle]
    BY <1>4 DEF Opened, Rests, Runs
  <2>3. loaded'[p] = file'[p]
    BY <1>4, <2>1, <2>2, Start DEF ToldAt, KnownFile
  <2> QED
    BY <1>4, <2>2, <2>3, RestTold
<1>5. ASSUME p \in Dir, run[p].job = "probe" PROVE ToldAt(p)'
  <2>1. loaded' = loaded /\ Goes(p, "list")
    BY <1>5 DEF Opened
  <2>2. Becomes(p, "list", run[p].job, run[p].dir, run[p].mine, run[p].others, run[p].last)
    BY <1>1, <2>1, Start, GoesOnFacts
  <2> QED
    BY <1>1, <1>5, <2>1, <2>2, GoesTold DEF Becomes
<1> QED
  BY <1>1, <1>2, <1>3, <1>4, <1>5, Start

\* Unwrap.
LEMMA OpenTold == ASSUME IInv, ToldInv, NEW p \in Proc, Get(p) \/ Retag(p) \/ GivesUp(p) PROVE ToldInv'
<1> DEFINE n == run[p].mine
<1>1. CASE Get(p)
  <2>1. run[p].at = "get" /\ UNCHANGED <<item, made, file>> /\ "retag" \in Ats /\ run[p] \in RunType
    BY <1>1, Start DEF Get, Ats
  <2>2. /\ p \in Dir => run[p].job \in {"load", "probe"}
        /\ run[p].job = "probe" => p \in Dir
        /\ n \in Name /\ p \in {run[p].dir, Status}
    BY <2>1, Opening
  <2>3. CASE Goes(p, "retag") /\ UNCHANGED loaded
    <3>1. Becomes(p, "retag", run[p].job, run[p].dir, run[p].mine, run[p].others, run[p].last)
      BY <2>1, <2>3, Start, GoesOnFacts
    <3>2. p \in Dir => ToldAt(p)'
      BY <2>1, <2>2, <2>3, <3>1, GoesTold DEF Becomes
    <3>3. Local(p)
      BY <2>1, <2>3, <3>1 DEF Local, Becomes
    <3> QED
      BY <3>2, <3>3, ToldKept
  <2>4. CASE Opened(p)
    <3>1. Local(p)
      BY <2>1, <2>4, OpenedTold DEF Local
    <3> QED
      BY <2>1, <2>4, <3>1, OpenedTold, ToldKept
  <2>5. ASSUME NEW f \in BOOLEAN, NotOpened(p, f), UNCHANGED loaded, f \/ ~Found(n)
        PROVE  ToldInv'
    <3>1. run' = [run EXCEPT ![p] = Unopened(run[p], f)]
      BY <2>5 DEF NotOpened, Runs, Unopened
    <3>2. /\ run'[p].at = IF run[p].job = "probe" THEN "list" ELSE "error"
          /\ run'[p].job = IF run[p].job = "probe" THEN "unprobe" ELSE run[p].job
          /\ f => run'[p].hurt
      BY <2>1, <3>1, Start, NotOpenedFacts
    <3>3. ASSUME p \in Dir PROVE ToldAt(p)'
      <4>1. ToldAt(p)
        BY <3>3 DEF ToldInv
      <4>2. Unharmed(p)'
        <5>1. run[p].job = "probe" => f
          BY <2>1, <2>5, <4>1 DEF ToldAt, Unharmed
        <5> QED
          BY <2>2, <3>2, <3>3, <5>1 DEF Unharmed
      <4>3. KnownFile(p)'
        BY <2>1, <2>2, <2>5, <3>2, <3>3, <4>1 DEF ToldAt, KnownFile, Destroys
      <4>4. ~Destroys(p)'
        BY <2>2, <3>2, <3>3 DEF Destroys
      <4> QED
        BY <4>2, <4>3, <4>4 DEF ToldAt
    <3>4. Local(p)
      BY <2>1, <2>5, <3>1, LocalQuiet
    <3> QED
      BY <3>3, <3>4, ToldKept
  <2>6. \/ Goes(p, "retag") /\ UNCHANGED loaded
        \/ Opened(p)
        \/ ~Found(n) /\ NotOpened(p, FALSE) /\ UNCHANGED loaded
        \/ NotOpened(p, TRUE) /\ UNCHANGED loaded
    BY <1>1 DEF Get
  <2>7. CASE ~Found(n) /\ NotOpened(p, FALSE) /\ UNCHANGED loaded
    BY <2>5, <2>7
  <2>8. CASE NotOpened(p, TRUE) /\ UNCHANGED loaded
    BY <2>5, <2>8
  <2> QED
    BY <2>3, <2>4, <2>6, <2>7, <2>8
<1>2. CASE Retag(p)
  <2>1. run[p].at \in {"get", "retag"} /\ Opened(p) /\ UNCHANGED <<made, file>>
    BY <1>2 DEF Retag
  <2>2. n \in Name /\ n \in Names(p)
    BY <2>1, Opening
  <2>3. item' = item \/ (Found(n) /\ item' = [item EXCEPT ![n] = Service(p, n)])
    BY <1>2 DEF Retag, Retags, Adds
  <2>4. /\ \A m \in Name : item'[m] = item[m] \/ m \in Names(p)
        /\ \A m \in 1..made : item[m] = Gone => item'[m] = Gone
    BY <2>2, <2>3, Start, OldNames DEF ItemType, Found
  <2>5. Local(p)
    BY <2>1, <2>4, OpenedTold DEF Local
  <2> QED
    BY <2>1, <2>5, OpenedTold, ToldKept
<1>3. CASE GivesUp(p)
  <2>1. run' = [run EXCEPT ![p] = Idle] /\ UNCHANGED <<item, file, loaded>>
    BY <1>3 DEF GivesUp, Rests, Runs, disks
  <2>2. p \in Dir => loaded'[p] \in {None, file'[p]}
    BY <2>1 DEF ToldInv, ToldAt, KnownFile
  <2>3. Local(p)
    BY <2>1, LocalQuiet
  <2> QED
    BY <2>1, <2>2, <2>3, RestTold, ToldKept
<1> QED
  BY <1>1, <1>2, <1>3

\* Wrap.
LEMMA MakeTold == ASSUME IInv, ToldInv, NEW d \in Dir, Add(d) \/ ReadBack(d) \/ Write(d) PROVE ToldInv'
<1>1. /\ d \in Proc /\ run[d].job \in {"new", "probe"} /\ run[d] \in RunType
      /\ run[d].at = "add" => run[d].mine = None
      /\ run[d].at # "add" => run[d].mine \in Name /\ IsOwn(d, run[d].mine)
      /\ ToldAt(d)
  BY Making, Start DEF Add, ReadBack, Write, ToldInv
<1>2. ASSUME GoesHurt(d, Fails(d)), UNCHANGED <<made, file, loaded>>
      PROVE  ToldAt(d)' /\ \A q \in Proc \ {d} : run'[q] = run[q]
  <2>1. PICK at \in {"error", "nokeychain"} : at = Fails(d)
    BY DEF Fails
  <2>2. at \in Ats /\ run' = [run EXCEPT ![d] = [run[d] EXCEPT !.at = at, !.hurt = TRUE]]
    BY <1>2, <2>1 DEF Ats, GoesHurt, Runs
  <2>3. run'[d].at = at /\ run'[d].job = run[d].job /\ run'[d].mine = run[d].mine /\ run'[d].hurt
    BY <1>1, <2>2, Start, HurtFacts
  <2> QED
    BY <1>1, <1>2, <2>2, <2>3, Start, GoesTold
<1>3. CASE Add(d)
  <2>1. UNCHANGED <<file, loaded>> /\ run[d].at = "add"
    BY <1>3 DEF Add, disks
  <2>2. CASE GoesHurt(d, Fails(d)) /\ UNCHANGED <<item, made>>
    <3>1. Local(d)
      BY <1>2, <2>1, <2>2 DEF Local
    <3> QED
      BY <1>1, <1>2, <2>1, <2>2, <3>1, ToldKept
  <2>3. CASE /\ made < MaxItems /\ made' = made + 1
             /\ Adds(made + 1, Service(d, made + 1))
             /\ Runs(d, [run[d] EXCEPT !.at = "back", !.mine = made + 1])
    <3>n. PICK n \in Nat : n = made + 1
      BY Start
    <3>1. run' = [run EXCEPT ![d] = [run[d] EXCEPT !.at = "back", !.mine = n]] /\ "back" \in Ats
      BY <2>3, <3>n DEF Runs, Ats
    <3>2. n \in Name /\ n # None /\ n > made
      BY <2>3, <3>n, Start DEF Name, None
    <3>3. item'[n] # Gone /\ \A m \in Name \ {n} : item'[m] = item[m]
      <4>1. Service(d, n) # Gone
        BY <1>1, <2>1, Making DEF Service, ProbeService
      <4> QED
        BY <2>3, <3>n, <3>2, <4>1, Start DEF Adds, ItemType
    <3>4. run'[d].at = "back" /\ run'[d].job = run[d].job /\ run'[d].mine = n
      BY <1>1, <3>1, Start DEF RunType
    <3>5. ToldAt(d)'
      <4>1. Unharmed(d)'
        BY <1>1, <3>3, <3>4 DEF Unharmed, Found
      <4>2. KnownFile(d)'
        BY <1>1, <2>1, <3>4 DEF ToldAt, KnownFile, Destroys
      <4>3. ~Destroys(d)'
        BY <1>1, <3>4 DEF Destroys
      <4> QED
        BY <4>1, <4>2, <4>3 DEF ToldAt
    <3>6. Local(d)
      <4>1. \A m \in 1..made : m \in Name \ {n}
        BY <3>n, Start, OldNames
      <4> QED
        BY <2>1, <3>1, <3>2, <3>3, <4>1, Start DEF Local
    <3> QED
      BY <1>1, <3>5, <3>6, ToldKept
  <2> QED
    BY <1>3, <2>2, <2>3 DEF Add
<1>4. CASE ReadBack(d)
  <2>1. UNCHANGED <<made, file, loaded>> /\ run[d].at = "back" /\ run[d].mine \in Names(d)
    BY <1>4 DEF ReadBack, disks, Names
  <2>2. CASE GoesHurt(d, Fails(d)) /\ (Removes(run[d].mine) \/ UNCHANGED item)
    <3>1. /\ \A m \in Name : item'[m] = item[m] \/ m \in Names(d)
          /\ \A m \in 1..made : item[m] = Gone => item'[m] = Gone
      BY <1>1, <2>1, <2>2, Start, OldNames DEF Removes, ItemType
    <3>2. Local(d)
      BY <1>2, <2>1, <2>2, <3>1 DEF Local
    <3> QED
      BY <1>1, <1>2, <2>1, <2>2, <3>2, ToldKept
  <2>3. CASE Found(run[d].mine) /\ UNCHANGED item /\ Goes(d, IF run[d].job = "probe" THEN "get" ELSE "write")
    <3>1. PICK at \in {"get", "write"} : at = IF run[d].job = "probe" THEN "get" ELSE "write"
      OBVIOUS
    <3>2. at \in Ats /\ Goes(d, at)
      BY <2>3, <3>1 DEF Ats
    <3>3. Becomes(d, at, run[d].job, run[d].dir, run[d].mine, run[d].others, run[d].last)
      BY <1>1, <2>1, <3>2, Start, GoesOnFacts
    <3>4. Found(run[d].mine)'
      BY <2>3, <3>3 DEF Found, Becomes
    <3>5. at = "get" => run[d].job = "probe"
      BY <3>1
    <3>6. ToldAt(d)'
      BY <1>1, <2>1, <3>2, <3>3, <3>4, <3>5, GoesTold DEF Becomes
    <3>7. Local(d)
      BY <2>1, <2>3, <3>3 DEF Local, Becomes
    <3> QED
      BY <1>1, <3>6, <3>7, ToldKept
  <2> QED
    BY <1>4, <2>2, <2>3 DEF ReadBack
<1>5. CASE Write(d)
  <2>1. run' = [run EXCEPT ![d] = Idle] /\ UNCHANGED item
    BY <1>5 DEF Write, Rests, Runs
  <2>2. loaded'[d] \in {None, file'[d]} /\ \A e \in Dir \ {d} : file'[e] = file[e] /\ loaded'[e] = loaded[e]
    BY <1>1, <1>5, Start DEF Write, ToldAt, KnownFile
  <2>3. Local(d)
    BY <1>1, <2>1, <2>2, LocalQuiet
  <2> QED
    BY <1>1, <2>1, <2>2, <2>3, RestTold, ToldKept
<1> QED
  BY <1>3, <1>4, <1>5

\* Wipe lists what it will delete.
LEMMA ListTold == ASSUME IInv, ToldInv, NEW d \in Dir, List(d) PROVE ToldInv'
<1>1. /\ run[d].at = "list" /\ UNCHANGED <<item, made, file, loaded>>
  BY DEF List, disks
<1>2. /\ d \in Proc /\ run[d].dir = d /\ run[d] \in RunType /\ ToldAt(d)
      /\ Destroys(d) \/ run[d].job \in {"probe", "unprobe"}
      /\ settled[d] => item[file[d]] = d /\ file[d] \in Name
  BY <1>1, Wiping DEF ToldInv
<1>3. CASE GoesHurt(d, "failed")
  <2>1. run' = [run EXCEPT ![d] = [run[d] EXCEPT !.at = "failed", !.hurt = TRUE]] /\ "failed" \in Ats
    BY <1>3 DEF GoesHurt, Runs, Ats
  <2>2. /\ run'[d].at = "failed" /\ run'[d].job = run[d].job /\ run'[d].mine = run[d].mine /\ run'[d].hurt
        /\ run'[d].others = run[d].others /\ run'[d].last = run[d].last /\ run'[d].removed = run[d].removed
    BY <1>2, <2>1, Start, HurtFacts
  <2>3. Unharmed(d)' /\ KnownFile(d)'
    BY <1>1, <1>2, <2>2 DEF Unharmed, KnownFile, ToldAt, Destroys
  <2>4. Destroys(d)' => SoFar(d)'
    BY <1>1, <1>2, <2>2 DEF ToldAt, SoFar, Destroys, LastOfAll
  <2>5. Local(d)
    BY <1>1, <1>2, <2>1, LocalQuiet
  <2> QED
    BY <1>2, <2>3, <2>4, <2>5, ToldKept DEF ToldAt
<1>4. CASE ~GoesHurt(d, "failed")
  <2>m. PICK m \in 0..made : m = run[d].mine
    BY <1>2, Start, NameTypes
  <2>l. PICK listed : listed = Listed(Service(d, m))
    OBVIOUS
  <2>u. PICK inUse : inUse = IF m # None THEN m ELSE IF listed # {} THEN Newest(listed) ELSE None
    OBVIOUS
  <2>w. PICK w : w = {n \in Name : n \in listed \/ n = m \/ (settled[d] /\ n = file[d])}
    OBVIOUS
  <2>1. run' = [run EXCEPT ![d] = ListedRun(run[d], listed \ {inUse}, inUse, w)]
    BY <1>4, <2>m, <2>l, <2>u, <2>w DEF List, Runs, ListedRun
  <2>2. listed \subseteq 1..made /\ listed \subseteq Name
    <3>1. Service(d, m) # Gone
      <4>1. m \in Nat
        BY Start
      <4> QED
        BY <1>2, <4>1 DEF Service, ProbeService
    <3>2. \A n \in listed : n \in Name /\ item[n] # Gone
      BY <2>l, <3>1 DEF Listed
    <3> QED
      BY <3>2, Start DEF ItemType, Name
  <2>3. inUse \in 0..made /\ w \in SUBSET (1..made) /\ listed \ {inUse} \in SUBSET (1..made)
    <3>1. listed # {} => Newest(listed) \in listed
      BY <2>2, Start, GreatestExists
    <3>2. inUse \in 0..made
      BY <2>2, <2>u, <3>1, Start DEF None
    <3>3. \A n \in w : n \in 1..made
      <4> SUFFICES ASSUME NEW n \in w PROVE n \in 1..made
        OBVIOUS
      <4>1. n \in Name /\ (n \in listed \/ n = m \/ n = file[d]) /\ file[d] \in 0..made
        BY <2>w, Start
      <4> QED
        BY <2>2, <4>1, Start DEF Name
    <3> QED
      BY <2>2, <3>2, <3>3
  <2>4. /\ run'[d].at = "remove" /\ run'[d].job = run[d].job /\ run'[d].mine = m
        /\ run'[d].others = listed \ {inUse} /\ run'[d].last = inUse /\ run'[d].hurt = run[d].hurt
        /\ run'[d].removed = run[d].removed /\ run'[d].was = w
    BY <1>2, <2>1, <2>m, <2>3, Start, ListFacts
  <2>5. Unharmed(d)' /\ KnownFile(d)'
    BY <1>1, <1>2, <2>m, <2>4 DEF Unharmed, KnownFile, ToldAt, Destroys
  <2>6. ASSUME Destroys(d)' PROVE SoFar(d)'
    <3>1. Destroys(d) /\ run[d].removed = {} /\ Service(d, m) = d
      BY <1>1, <1>2, <2>4, <2>6 DEF ToldAt, SoFar, Destroys, Service
    <3>2. \A n \in w : item'[n] = Gone \/ n \in run'[d].others \cup {run'[d].last}
      <4> SUFFICES ASSUME NEW n \in w, n # inUse PROVE n \in listed
        BY <2>4
      <4>1. n \in Name /\ (n \in listed \/ n = m \/ (settled[d] /\ n = file[d]))
        BY <2>w
      <4>2. CASE settled[d] /\ n = file[d]
        BY <1>2, <2>l, <3>1, <4>1, <4>2 DEF Listed
      <4>3. CASE n = m
        <5>1. n # None
          BY <4>1 DEF Name, None
        <5> QED
          BY <2>u, <4>3, <5>1
      <4> QED
        BY <4>1, <4>2, <4>3
    <3>3. LastOfAll(run[d])'
      <4>1. run'[d].removed = {} /\ run'[d].last \notin run'[d].others
        BY <2>4, <3>1
      <4>2. run'[d].others # {} => run'[d].last # None
        <5>1. listed # {} => Newest(listed) \in listed
          BY <2>2, Start, GreatestExists
        <5>2. None \notin listed
          BY <2>2 DEF None
        <5> QED
          BY <2>4, <2>u, <5>1, <5>2
      <4>3. m # None => inUse = m
        BY <2>u
      <4>4. ASSUME m = None, inUse # None, NEW n \in listed \ {inUse} PROVE n < inUse
        <5>1. inUse = Newest(listed) /\ listed # {}
          BY <2>u, <4>4
        <5> QED
          BY <2>2, <4>4, <5>1, Start, GreatestBounds
      <4> QED
        BY <2>4, <4>1, <4>2, <4>3, <4>4 DEF LastOfAll
    <3> QED
      BY <2>4, <3>2, <3>3 DEF SoFar
  <2>7. Local(d)
    BY <1>1, <1>2, <2>1, LocalQuiet
  <2> QED
    BY <1>2, <2>5, <2>6, <2>7, ToldKept DEF ToldAt
<1> QED
  BY <1>3, <1>4

\* And deletes it, the key in use last.
LEMMA RemoveTold == ASSUME IInv, ToldInv, NEW d \in Dir, Remove(d) PROVE ToldInv'
<1>1. /\ run[d].at = "remove" /\ UNCHANGED <<made, file, loaded>>
  BY DEF Remove, disks
<1>2. /\ d \in Proc /\ run[d] \in RunType /\ ToldAt(d)
      /\ Destroys(d) \/ run[d].job \in {"probe", "unprobe"}
      /\ run[d].last \in 0..made /\ run[d].others \subseteq 1..made /\ run[d].was \subseteq 1..made
  BY <1>1, Wiping, Start, NameTypes DEF ToldInv, RunType
<1>3. Destroys(d) => SoFar(d) /\ LastOfAll(run[d])
  BY <1>1, <1>2 DEF ToldAt, SoFar
<1>4. CASE GoesHurt(d, "failed") /\ UNCHANGED item /\ NextToGo(run[d]) # {}
  <2>1. run' = [run EXCEPT ![d] = [run[d] EXCEPT !.at = "failed", !.hurt = TRUE]] /\ "failed" \in Ats
    BY <1>4 DEF GoesHurt, Runs, Ats
  <2>2. /\ run'[d].at = "failed" /\ run'[d].job = run[d].job /\ run'[d].mine = run[d].mine /\ run'[d].hurt
        /\ run'[d].others = run[d].others /\ run'[d].last = run[d].last /\ run'[d].removed = run[d].removed
    BY <1>2, <2>1, Start, HurtFacts
  <2>3. Unharmed(d)' /\ KnownFile(d)'
    BY <1>1, <1>2, <2>2 DEF Unharmed, KnownFile, ToldAt, Destroys
  <2>4. ASSUME Destroys(d)' PROVE SoFar(d)'
    <3>1. LastOfAll(run[d]) /\ run[d].last # None
      BY <1>3, <1>4, <2>2, <2>4 DEF Destroys, LastOfAll, NextToGo
    <3> QED
      BY <2>2, <3>1 DEF SoFar, LastOfAll
  <2>5. Local(d)
    BY <1>1, <1>2, <1>4, <2>1, LocalQuiet
  <2> QED
    BY <1>2, <2>3, <2>4, <2>5, ToldKept DEF ToldAt
<1>5. CASE NextToGo(run[d]) = {} /\ Goes(d, "wiped") /\ UNCHANGED item
  <2>1. run' = [run EXCEPT ![d] = [run[d] EXCEPT !.at = "wiped"]] /\ "wiped" \in Ats
    BY <1>5 DEF Goes, Runs, Ats
  <2>2. /\ run'[d].at = "wiped" /\ run'[d].job = run[d].job /\ run'[d].mine = run[d].mine
        /\ run'[d].hurt = run[d].hurt /\ run'[d].was = run[d].was
        /\ run'[d].others = run[d].others /\ run'[d].last = run[d].last /\ run'[d].removed = run[d].removed
    BY <1>2, <2>1, Start, AtFacts
  <2>3. Unharmed(d)' /\ KnownFile(d)'
    BY <1>1, <1>2, <2>2 DEF Unharmed, KnownFile, ToldAt, Destroys
  <2>4. ASSUME Destroys(d)' PROVE SoFar(d)'
    <3>1. run[d].others = {} /\ run[d].last = None
      BY <1>5 DEF NextToGo
    <3>2. SoFar(d)
      BY <1>3, <2>2, <2>4 DEF Destroys
    <3> QED
      BY <1>1, <1>5, <2>2, <3>1, <3>2 DEF SoFar
  <2>5. Local(d)
    BY <1>1, <1>2, <1>5, <2>1, LocalQuiet
  <2> QED
    BY <1>2, <2>3, <2>4, <2>5, ToldKept DEF ToldAt
<1>6. ASSUME NEW n \in NextToGo(run[d]), Removes(n),
             Runs(d, [run[d] EXCEPT !.others = @ \ {n}, !.last = IF @ = n THEN None ELSE @,
                                       !.removed = @ \cup {n}])
      PROVE  ToldInv'
  <2>1. n \in Names(d) /\ n \in 1..made /\ n \in Name /\ n # None
    <3>1. n \in Names(d) /\ n \in 1..made
      BY <1>2 DEF NextToGo, Names, None
    <3> QED
      BY <3>1, OldNames DEF None
  <2>2. run' = [run EXCEPT ![d] = Without(run[d], n)]
    BY <1>6 DEF Runs, Without
  <2>3. /\ run'[d].at = "remove" /\ run'[d].job = run[d].job /\ run'[d].mine = run[d].mine
        /\ run'[d].hurt = run[d].hurt /\ run'[d].was = run[d].was
        /\ run'[d].others = run[d].others \ {n} /\ run'[d].removed = run[d].removed \cup {n}
        /\ run'[d].last = IF run[d].last = n THEN None ELSE run[d].last
    BY <1>1, <1>2, <2>1, <2>2, Start, RemoveFacts
  <2>4. item'[n] = Gone /\ \A m \in Name \ {n} : item'[m] = item[m]
    BY <1>6, <2>1, Start DEF Removes, ItemType
  <2>5. Unharmed(d)' /\ KnownFile(d)'
    BY <1>1, <1>2, <2>3 DEF Unharmed, KnownFile, ToldAt, Destroys
  <2>6. ASSUME Destroys(d)' PROVE SoFar(d)'
    <3>1. SoFar(d) /\ LastOfAll(run[d])
      BY <1>3, <2>3, <2>6 DEF Destroys
    <3>2. \A m \in run'[d].was : item'[m] = Gone \/ m \in run'[d].others \cup {run'[d].last}
      BY <1>1, <1>2, <2>3, <2>4, <3>1, OldNames DEF SoFar
    <3>3. CASE run[d].last = n
      <4>1. run[d].others = {}
        BY <3>1, <3>3 DEF LastOfAll, NextToGo
      <4> QED
        BY <2>3, <3>2, <3>3, <4>1 DEF SoFar, LastOfAll
    <3>4. CASE run[d].last # n
      <4>1. n \in run[d].others
        BY <3>4 DEF NextToGo
      <4>2. LastOfAll(run[d])'
        BY <2>3, <3>1, <3>4, <4>1 DEF LastOfAll
      <4> QED
        BY <2>3, <3>2, <4>2 DEF SoFar
    <3> QED
      BY <3>3, <3>4
  <2>7. Local(d)
    BY <1>1, <1>2, <2>1, <2>2, <2>4, OldNames, Start DEF Local
  <2> QED
    BY <1>2, <2>5, <2>6, <2>7, ToldKept DEF ToldAt
<1> QED
  BY <1>4, <1>5, <1>6 DEF Remove

\* The Store goes on after a wipe.
LEMMA StoreTold == ASSUME IInv, ToldInv, NEW d \in Dir, StoreGoesOn(d) PROVE ToldInv'
<1>1. run[d].at \in {"wiped", "failed"} /\ AfterWipe(d) /\ UNCHANGED <<item, made>>
  BY DEF StoreGoesOn
<1>2. /\ d \in Proc /\ run[d] \in RunType /\ ToldAt(d) /\ "new" \in Jobs /\ "old" \in Jobs /\ None \in 0..made
      /\ loaded[d] \in 0..made /\ loaded[d] \in {None, file[d]}
  BY Start, NameTypes DEF ToldInv, ToldAt, KnownFile, Jobs, None, Proc
<1>3. CASE /\ run[d].job = "probe" /\ UNCHANGED <<file, loaded>>
           /\ IF file[d] = None THEN Starts(d, "add", "new", None) ELSE Starts(d, "list", "old", loaded[d])
  <2>1. ToldAt(d)'
    <3>1. CASE Starts(d, "add", "new", None)
      BY <1>2, <1>3, <3>1, StartTold
    <3>2. CASE Starts(d, "list", "old", loaded[d])
      BY <1>2, <1>3, <3>2, StartTold
    <3> QED
      BY <1>3, <3>1, <3>2
  <2>2. PICK r : run' = [run EXCEPT ![d] = r]
    BY <1>3 DEF Starts, Runs
  <2>3. Local(d)
    BY <1>1, <1>2, <1>3, <2>2, LocalQuiet
  <2> QED
    BY <1>2, <2>1, <2>3, ToldKept
<1>4. CASE /\ (run[d].job = "probe" /\ run[d].at = "failed") \/ run[d].job = "unprobe"
           /\ Goes(d, "nokeychain") /\ UNCHANGED <<file, loaded>>
  <2>1. run' = [run EXCEPT ![d] = [run[d] EXCEPT !.at = "nokeychain"]] /\ "nokeychain" \in Ats
    BY <1>4 DEF Goes, Runs, Ats
  <2>2. run'[d].at = "nokeychain" /\ run'[d].job = run[d].job /\ run'[d].mine = run[d].mine
        /\ run'[d].hurt = run[d].hurt
    BY <1>2, <2>1, Start, AtFacts
  <2>3. run[d].hurt
    BY <1>2, <1>4 DEF ToldAt, Unharmed
  <2>4. ToldAt(d)'
    BY <1>2, <1>4, <2>2, <2>3 DEF ToldAt, Unharmed, KnownFile, Destroys
  <2>5. Local(d)
    BY <1>1, <1>2, <1>4, <2>1, LocalQuiet
  <2> QED
    BY <1>2, <2>4, <2>5, ToldKept
<1>5. CASE /\ UNCHANGED file /\ loaded' = [loaded EXCEPT ![d] = None]
           /\ Starts(d, "add", "new", None)
  <2>1. loaded'[d] = None /\ \A e \in Dir \ {d} : loaded'[e] = loaded[e]
    BY <1>5, Start
  <2>2. ToldAt(d)'
    BY <1>2, <1>5, <2>1, StartTold
  <2>3. PICK r : run' = [run EXCEPT ![d] = r]
    BY <1>5 DEF Starts, Runs
  <2>4. Local(d)
    BY <1>1, <1>2, <1>5, <2>1, <2>3, LocalQuiet
  <2> QED
    BY <1>2, <2>2, <2>4, ToldKept
<1>6. CASE /\ Rests(d)
           /\ \/ UNCHANGED <<file, loaded>>
              \/ ForgetsFile(d)
              \/ UNCHANGED file /\ loaded' = [loaded EXCEPT ![d] = None]
  <2>1. run' = [run EXCEPT ![d] = Idle]
    BY <1>6 DEF Rests, Runs
  <2>2. loaded'[d] \in {None, file'[d]} /\ \A e \in Dir \ {d} : file'[e] = file[e] /\ loaded'[e] = loaded[e]
    BY <1>2, <1>6, Start DEF ForgetsFile
  <2>3. Local(d)
    BY <1>1, <1>2, <2>1, <2>2, LocalQuiet
  <2> QED
    BY <1>2, <2>1, <2>2, <2>3, RestTold, ToldKept
<1> QED
  BY <1>1, <1>3, <1>4, <1>5, <1>6 DEF AfterWipe

\* Directories are moved and copied while nothing runs in them.
LEMMA TransfersTold == ASSUME IInv, ToldInv, NEW a \in Dir, NEW b \in Dir, Transfers(a, b) PROVE ToldInv'
<1> SUFFICES ASSUME NEW d \in Dir PROVE ToldAt(d)'
  BY DEF ToldInv
<1>1. UNCHANGED <<item, loaded, run>> /\ Quiet(a) /\ Quiet(b) /\ ToldAt(d)
  BY DEF Transfers, ToldInv
<1>2. CASE d \in {a, b}
  <2>1. run[d] = Idle /\ loaded[d] = None
    BY <1>1, <1>2, Start DEF Quiet, Placed, PlacedAt
  <2> QED
    BY <1>1, <2>1, Start, IdleFacts DEF ToldAt, Unharmed, KnownFile, Destroys
<1>3. CASE d \notin {a, b}
  <2>1. file'[d] = file[d]
    BY <1>3, Start DEF Transfers
  <2> QED
    BY <1>1, <2>1 DEF ToldAt, Unharmed, Found, KnownFile, Destroys, SoFar, LastOfAll
<1> QED
  BY <1>2, <1>3

\* What calls have done so far is as their state says (Unwrap, Wrap, Wipe, tryKeychain).
THEOREM CallsInvariance == Spec => []ToldInv
<1>1. ASSUME Init PROVE ToldInv
  <2>1. ASSUME NEW d \in Dir PROVE run[d] = Idle /\ loaded[d] = None
    BY <1>1 DEF Init, Proc
  <2>2. made \in Nat
    BY <1>1 DEF Init
  <2> QED
    BY <2>1, <2>2, IdleFacts DEF ToldInv, ToldAt, Unharmed, KnownFile, Destroys
<1>2. ASSUME IInv, ToldInv, [Next]_vars PROVE ToldInv'
  <2>1. ASSUME NEW d \in Dir,
               \/ Load(d) \/ Pair(d) \/ Wipe(d) \/ WipeAll(d) \/ Ends(d) \/ Crash(d) \/ Looks(d) \/ OtherBuild(d)
               \/ Add(d) \/ ReadBack(d) \/ Write(d) \/ List(d) \/ Remove(d) \/ StoreGoesOn(d)
        PROVE  ToldInv'
    BY <1>2, <2>1, CallsTold, MakeTold, ListTold, RemoveTold, StoreTold
  <2>2. ASSUME NEW p \in Proc, Get(p) \/ Retag(p) \/ GivesUp(p)
        PROVE  ToldInv'
    BY <1>2, <2>2, OpenTold
  <2>3. ASSUME NEW a \in Dir, NEW b \in Dir, Transfers(a, b)
        PROVE  ToldInv'
    BY <1>2, <2>3, TransfersTold
  <2>4. CASE UNCHANGED vars
    BY <1>2, <2>4 DEF vars, ToldInv, ToldAt, Unharmed, Found, KnownFile, Destroys, SoFar, LastOfAll
  <2> QED
    BY <1>2, <2>1, <2>2, <2>3, <2>4 DEF Next
<1> QED
  BY <1>1, <1>2, Invariance, PTL DEF Spec

\* A Wipe's error leaves the key in use, or an older one than it deleted none of; its success leaves none
\* of the items that were the directory's (Wipe's order, the newest listed, the header's name).
THEOREM WipesSaySo == Spec => []WipeSays
<1>1. ASSUME IInv, ToldInv PROVE WipeSays
  <2> SUFFICES ASSUME NEW d \in Dir, Destroys(d)
               PROVE  /\ run[d].at = "failed" /\ file[d] \in run[d].removed =>
                           run[d].mine = None /\ run[d].last > file[d]
                      /\ run[d].at = "wiped" => \A n \in run[d].was : item[n] = Gone
    BY DEF WipeSays
  <2>1. /\ SoFar(d) /\ run[d].mine \in {None, file[d]} /\ run[d].was \subseteq 1..made
        /\ file[d] \in Nat /\ run[d].last \in Nat
    <3>1. run[d] \in RunType
      BY <1>1, Start, NameTypes DEF Proc
    <3>2. file[d] \in Nat
      BY <1>1, Start
    <3>3. run[d].was \subseteq 1..made /\ run[d].last \in Nat
      BY <1>1, <3>1, Start DEF RunType
    <3> QED
      BY <1>1, <3>2, <3>3 DEF ToldInv, ToldAt, KnownFile
  <2>2. ASSUME run[d].at = "failed", file[d] \in run[d].removed
        PROVE  run[d].mine = None /\ run[d].last > file[d]
    <3>1. LastOfAll(run[d]) /\ run[d].last # None
      BY <2>1, <2>2 DEF SoFar
    <3>2. run[d].mine = None
      BY <2>1, <2>2, <3>1 DEF LastOfAll
    <3>3. file[d] < run[d].last
      BY <2>2, <3>1, <3>2 DEF LastOfAll
    <3> QED
      BY <2>1, <3>2, <3>3
  <2>3. ASSUME run[d].at = "wiped", NEW n \in run[d].was PROVE item[n] = Gone
    <3>1. n # None
      BY <2>1 DEF None
    <3> QED
      BY <2>1, <2>3, <3>1 DEF SoFar
  <2> QED
    BY <2>2, <2>3
<1> QED
  BY <1>1, Invariance, CallsInvariance, PTL

\* The Keychain is not chosen only when one of the probe's own calls failed (tryKeychain's service).
THEOREM ProbesAreAlone == Spec => []ProbeIsAlone
<1>1. ToldInv => ProbeIsAlone
  BY DEF ToldInv, ToldAt, Unharmed, ProbeIsAlone
<1> QED
  BY <1>1, CallsInvariance, PTL

=============================================================================
