# vettid-agent: formal models

vettid-agent is a connector that runs beside an AI agent.  It is paired with
a member's vault, keeps an access session with it, and gives the agent, as MCP
tools, what the member granted.  This directory models its control in TLA+:
who may do what when, what is saved before what, and what happens when
messages cross, calls end early, saves fail or the process dies.

TLC checks small instances, TLAPS proves the most important invariants for
every instance.  Paths below are under `src/`.

## 1. The system

```
 MCP client -- stdio --> mcp.Server --> request.Client --> vaultconn.Conn --> relay --> vault
                              |             |    |             |     \
                              |             v    v             |      state.Store (one file)
                              |   access.Manager leash.Manager <-- events, inside persist
                     pair ----+----> pairing.Pair --> state.Store, protectors
```

| component | state it keeps | operations | hard because | module |
|---|---|---|---|---|
| leash grants, `internal/leash/leash.go` | the grant set, whether it was listed, the list in flight, a status statement per grant, what must be asked again | Apply (inside the save of a batch), List, Present, Run, OnStatus, Saved | messages and answers overtake each other; three kinds of goroutines release the lock while they wait | `LeashGrants` |
| access sessions, `internal/access/access.go` | a request outstanding, quiet periods, requests sent in the last hour, a probe, the hold | Ensure, the background requests, OnEvent, OnAnswer, OnStatus, CheckHold | answers cross events; callers leave while their request goes on; several bounds in time | `AccessPolicy` |
| vault connection, `internal/vaultconn/vaultconn.go` | the client's state, the state file, requests waiting, how the run is to end | New, Run (status, takeCalls, Poll, persist, dispatch, drain), Request | at-least-once delivery, failing saves and acknowledgements, crashes, unlinking | `VaultConn`, `DurableMailbox` |
| agent.request client, `internal/leash/request/request.go` | an entry per request: in flight, waited for, kept; approval windows | do, run, finish, OnEvent, Status, Close | retransmission, late answers, calls that stop waiting, Close in the middle | `RequestClient`, `AtMostOnce` |
| state store, `internal/state/state.go` | the state file and temporary files, the loaded data key, the protectors' keys | Open, Create, CreateReplace, Save, Load, Wipe, WipeAll, Close, ReadOnly | crashes and power losses between any two steps, a step that fails, two file systems' rules, a reader without the lock | `StateStore`, `StoreReader`, `DurableState` |
| pairing, `internal/pairing/pair.go` | the record's phase and deadline, whether the old state is gone | Pair: resume, replace, pair, wait, save, failWipe | a process that ends at any point, the window, an approval during a failing save | `Pairing`, over `StateStore` |
| MCP server, `internal/mcp/server.go`, and the life of the `mcp` command, `cmd/vettid-agent/mcp.go` | calls in flight by id, slots, the token bucket, the write lock | Serve, handle, call, notification, write; the start, signals, stopSession | output that blocks, a cancellation that races the answer, ids used again, the end in the middle | `McpServer` |
| the macOS Keychain protector, `internal/protect/keychain.go` | items shared by every process of the user, each tagged with a state directory | Wrap, Unwrap (which re-tags), Wipe, the probe of ChooseProtector | moved and copied directories, deletions one by one, processes beside each other | `Keychain` |
| other protectors, `internal/protect` | none outside the state file | Wrap, Unwrap, Wipe | platform calls | contract only, in `StateStore` |
| other commands, dev stack, scripts | | wiring, tests, packaging | | not modelled |

How they interact.  `vaultconn.Conn.Run` is the only goroutine that touches the
vault client.  Inside the save of a batch (`persist`) it applies session
events to the access state and hands the batch to `leash.Manager.Apply`; after
the acknowledgement it hands responses to the requests that wait and events to
`access.OnEvent`, `request.OnEvent`.  Requests meet Run on a channel, and take
their result from a buffer of one.  `request.Client.do` asks
`access.Manager.Ensure` for a session first and hands the vault's refusals
back to it (`OnAnswer`).  The state file is the Store's; pairing creates it, and
vaultconn saves and at the end wipes it.

What makes each correct:

- grants: what is presented is in force in the newest that the connector was told,
  unless a newer list is then wanted or awaited (one kind of answer is overlooked, see
  Findings); an older answer brings nothing back that a newer message took away; a statement
  is for the version held; the connector does come to hold what was granted.
- access: the bounds on asking the member hold whatever fails; a late answer
  ends no newer session; a hold ends.
- connection: no message is lost, applied without being saved, or handed to
  OnEvent twice; every request gets one result; a removed agent reads that it is.
- requests: one execution in the vault and one handing out per request; what is
  kept is bounded and goes; the wait covers every approval window.
- pairing: a code that was shown has a state to resume; an acknowledged approval is
  saved; what the operator is told of the state directory is so; nothing is kept of
  a failed attempt.
- store: what was saved survives; an error says what is on disk; a wipe leaves
  no file, and no key it could know of; `status` shows what is there and never gives up
  while the Store only saves.
- Keychain: the key of a file stays until a wipe of its own directory; a wipe that fails
  has not deleted the key in use; probes do not disturb each other.
- MCP server: every call is answered once, or was cancelled and never is; no more calls
  pass than the burst and the rate allow; ids and slots are held by calls in progress
  only; the process ends after a signal even if the client never reads.

The hazards behind these, each at its line, are in `PROJECT.json`.

## 2. The modules

Each component has one module with its state, one action for each critical
section or step, and its properties at the end.  The MC modules add only the
symmetry TLC uses or the values of a constant function, and the `*Proofs` modules the
theorems.  Constants named
`Max...` are bounds and guard the action they bound; nothing else is bounded.

**LeashGrants.**  `grants`, `suspended`, `listed`, `needList`, `stmts`, `dead`,
`held`, `lists` are the Manager's fields; `pc[p]` is where a tool call or the
Manager's loop waits.  `gen` is compared only with its value when a list was
sent, so it is kept as `fresh`, the lists sent since it last changed.  A grant is its version
and a statement its version and an age (usable, due); `TimePasses` ages
them.  The vault's policy has an epoch, every message carries the policy of
the epoch it was sent in, and messages arrive in any order.  There are two histories, by epoch
and never by what the Manager did with a message's set.  `told[g]` is the newest that any set
or refusal said of g.  `noted[g]` is the same without one kind of message: the answer to a list
given up (timed out) that takes nothing away from what is held, which leaves `gen` as it is.
A refused statement in a list is one it comes without.  Ids that no message carries are
alike, so a request takes one of them.  `ApplyAccess` and
`Apply` are the two halves of `persist`.  Not in it: a grant's own expiry, times of
statements, a missing delegation, and the length of pauses.

**AccessPolicy.**  `acc` and `saved` are `Conn.Access()` in memory and in the
file; `outstanding`, `outExp`, `quietUntil`, `allowedAfter`, `sent`, `held`,
`statusAt` the Manager's fields; `flight[k]` a request on its way: a tool call's own, the
probe, the request for access, CheckHold's vault.status, and the one vaultconn sends at
start, whose answer comes to OnStatus without CheckHold having asked.  Time is a
counter that stops at `MaxTime`.  The batch of an answer saves the session as it then is.  `acc.session` of a session found by
a probe is the model's own: the code has no id there, so `Same` compares two such as
alike.  Histories: `asked`, every time a request was
sent, and `refusal`, the last refusal this process was told of.  The bounds on asking
are per process, as in the code: they are not saved.

**VaultConn** is Run with a program counter (top, send, ack, dispatch, check,
ended), requests beside it, and the relay's mailbox.  The save and the
acknowledgement are two steps, and a failed save may have replaced the file
(`ErrNotDurable`).  **DurableMailbox** is what it promises: a message leaves
the mailbox only when the state file has its effect or was wiped, which only
device.unlinked may cause.

**RequestClient**: `entry[t]` is a tool call's request (in flight, done and
waited for, kept, gone), `run[t]` its goroutine, `left[t]` what is left of the
attempt, `hold[t]` of the approval window.  A copy whose send failed may have reached the vault
all the same, although the code's comment takes it that it did not (`request.go:666`).
A `Tick` takes one from every wait.  The vault
keeps one verdict for each inner id and may hold, answer, refuse or never answer.

**AtMostOnce** is what that promises a tool call: the vault decides once, a result is given once and is of a
request that was executed, and who was told an error is given none later.

**StateStore**: the steps of writeAtomic, CreateReplace, Wipe and WipeAll, one
action each.  `disk` is the set of directories a power loss may leave: every
directory since the last sync.  A file has its bytes (written, synced, zeroed,
lost), the protector its header names and the key it was wrapped with.
`Protectors` with a key of their own are `Keyed`.  A resolver may fail, so a
file's protector may be unknown (`Resolved`).  Assumed: a protector's key is made and
deleted durably, Protector.Wipe is all or nothing (as its comment requires),
and a sync that succeeds covers everything before it.

Two constants tell the file systems apart.  On POSIX `CanHold = {TRUE}` and
`FlushRetries = 0`; on Windows the probe (`probeReplaceOpen`) may find that an open file
cannot be replaced, and then CreateReplace overwrites the old file before it writes the
new one (`OverwriteFirst`), and a flush that failed is tried again (`RetryLater`, `Reflush`).
Next is the Store's own steps (`StoreNext`) or a power loss, so that Pairing and StoreReader
can put theirs beside them.

**DurableState** is what the Store promises.  The state is the newest version that can be read (`now`); `maybe` is
what a power loss may make of it.  A write puts a newer version in its place in one step, a flush makes it the only one,
and only an operation that means to (`destroying`) makes one unreadable, for good.  StateStore maps a directory to the
file it names, if that opens.

**StoreReader** adds `status` to it: ReadOnly opens the state file, reads what the open
file holds, checks that the name still leads to it, and else begins again, `Attempts`
times; then it opens the data key with the protector.  Between any two of its steps the lock holder
may do anything.  Histories: the file it began with, and whether that one could be read and was
only saved since.

**Keychain** has the items of one user (`item[n]`: the directory that item `n` is tagged
with), the state files' headers (`file[d]`: the item named there), what the lock holder's Store has
open, and for each process the call of its protector under way (`run[p]`).  Each call of the Keychain
is one step; a missing entitlement, a locked Keychain and a directory without a path are
calls that fail.  Creation dates are the order in which items were made.  Of the Store it has what
decides which call comes next (`AfterWipe`, `Write`); the user moves and copies directories in
which nothing runs (`Transfers`).  `settled[d]`, a history, says that the file of `d` was written
or opened there, its item has the directory's tag, and no other file or process has that item: a copy of
a directory shares its key with the original, by design, and a wipe of one ends both.

**Pairing** extends StateStore: each call of the Store is the Store's own
operation, step by step, and `at` is where the run of `pair` waits for it.
`content[f]` is the record in file `f` (phase and attempt), `run` the fields of
the code's `run` that decide something, `vault[t]` what the vault decided on
attempt `t`, `over` the attempts whose window ended.  Flags of the command are
choices of the action that reads them (a code or --restart: `Resume` or
`Replaces`).  `persist` runs inside the client, so a batch is saved
(`Handshake`, `OtherBatch`, `ApprovalArrives`) before the step that follows it.
The client is external: after a batch that could not be saved it may go on or
give up, except for device.paired, where TestPairFinalSaveFails says that
AwaitPaired returns without an error of its own.  An interrupt, the end of the window or an error
of the client may still end the wait after the batch was saved, acknowledged or not
(`DecidedTooLate`): the interrupt leaves the paired file, the others delete it.  The histories are `start`, what the run found, and `promised`,
the attempt whose code was shown or whose approval was acknowledged, until a
call of Wipe, WipeAll or CreateReplace discards it.  The vault and the window
move only between runs and while a run waits: no other step looks at them, so
nothing is lost by it.  When a run ends, the records of files that are no state file any more and
older than the last durable one are forgotten (`StillRead`): no later run reads them, and there are fewer states.
Preparing a record for the save is taken not to fail.

**McpServer**: `loop` is where the read loop of Serve is, `pc[c]` where the call
`c` is, `calls` the cancel functions kept by id, `slots` the semaphore, `wmu` who
holds the write lock.  The loop writes every answer but a tool's itself, so a
refused call (`Refuses`) keeps it until the client has read.  A write has two
steps, `LockOut` and `Written`, and the second is the client's: a client that does
not read leaves it pending.  A write may also fail, at any time (`WriteFails`); that is logged, the call
stays unanswered and the session goes on.  Tokens are counted in parts, one part for a tick, and
`PerToken` parts let a call through, which is the code's
float arithmetic without its rounding.  The goroutine that reads lines is
merged with the client: a line counts as sent when the loop takes it.  `Starts` stands for
everything that may fail before Serve; `main` follows runMCP and stopSession.
What a tool does is RequestClient's and LeashGrants' matter; here it returns.
Histories: `answers[c]`, the answers written, `failed[c]`, those whose write failed, `told` (the calls cancelled while their tool ran) and `passed[c]`,
when the rate limit let the call through.

### Mutants

Beside some definitions stands another, used nowhere, that does the same with
a mistake a change of the code might make: a list that stays valid when
something newer was learned (`LearnedButListStands`), an acknowledgement before
the save, a copy under an id of its own (`OwnId`), a file overwritten although
the new one is not durable (`OverwriteAnyway`), an item that keeps the tag of the
directory it was moved from (`KeepsTag`).  Put in the place of the right
one, each breaks the property `PROJECT.json` names: that the properties hold
says something about these lines.

## 3. The runs

| run | question | bounds | result |
|---|---|---|---|
| leash_present | is what a tool call presents in force, with its own statement, whatever lands while it waits? | 1 grant, 1 call, 2 list ids, 2 changes of policy, 1 session | StatementsMatchGrants, ShownInForce hold |
| leash_faults | does anything old come back, with a fault, and does the connector catch up? | as above without a tool call; 1 fault | PresentableInForce, NeverGoesBack, Converges hold |
| access | are the bounds on asking kept, do late answers harm a newer session, does a probe settle, does a hold end? | 1 caller, times 1..2, an hour of 1, 1 request in it, 1 session, 1 hold, 1 fault | RateBound, AsksPolitely, ProbeSettles, DropsOnlyEndedSessions, HoldEnds hold |
| access_overtaken | is `outstanding` an undecided request, as its comment says? | 1 caller, no fault | violated: a finding |
| vault_safety | is a message lost, handed out twice, a request forgotten or answered twice, a removal overlooked at start? | 2 requests under 1 id, 1 event, 1 status, 2 rounds of collecting, 1 fault | NothingLost, HandedOnce, KeepsMail, EveryWaiterIsHeard, OneResult, DrainReadsUnlinked hold |
| vault_live | does every request end, and is the vault's status read? | 2 requests, 1 status, 1 fault | StatusIsRead, RequestsEnd hold |
| requests | is a result kept for good, given twice, a request executed twice, the bound passed, the member's window cut short, a result given that is nobody's, and does every request end, even if the vault never answers? | 2 calls, MaxPending 1, 1 retransmission, 1 hold, 1 fault, waits of 1 tick | ClosedKeepsNothing, Bounded, GivenOnce, ExecutedOnce, WaitsForTheMember, EveryRequestEnds hold |
| requests_closed | is an outcome without error a result or pending? | 1 call, Close | violated: a finding |
| store | does a save survive, does an error say what is there, does a wipe wipe, does the state change in one step, does `status` show it? | a keyed and an unkeyed protector, both file systems, 3 files, 2 failures, crashes or power losses, 3 retries of a flush, 2 attempts to read | SavedSurvives, ReplaceSays, WipedIsGone, WipeFindsTheKey, StatusShowsTheState, KeepsState hold |
| pairing | is a shown code resumable, an approval kept, the operator told the truth, a failure wiped? | the same protectors, 5 files, 2 attempts, 2 failures, crashes or power losses; an empty directory or an earlier attempt's | ShownIsResumable, ApprovalIsKept, ToldIsSo, NothingIsKept hold |
| mcp | is each call answered once or cancelled, does the rate limit hold, do calls and process end? | 3 calls, two with one id, 2 slots, burst 2, 1 tick a token, 1 tick, 2 other lines, 1 call whose answer fails to be written | OneAnswer, RateBound, Ends hold |
| keychain | does a file's key stay, is what Wipe returns so, do probes disturb each other? | 2 directories and `status`, 4 items, 2 moves or copies, 2 calls that fail or crashes | KeysStay, WipeSays, ProbeIsAlone hold |

Why the bounds are enough to be interesting.  Two epochs are the least in which
an answer can be older than what is known; two list ids the least in which a
late answer meets a newer list.  One fault may be anywhere in a run, and the
system has its own nondeterminism besides (order of delivery, goroutines,
pauses).  Two calls for one place (MaxPending 1, one inner id, one probe) are
the least that compete.  Three calls over two ids, two slots and a burst of two
are the least in which an id is used again while a call that had it still holds its slot,
a call is refused by the rate, and two goroutines and the loop want to write.  The third call passes
exactly at the tick that fills its token; parts of a token are the theorem's (RateIsBounded).  The
run of the requests has one length of approval window; MemberIsWaitedFor
is the theorem for any.  Three files are the least for: saved, replaced without
being durable, and saved again; two faults let a failed sync and a power
loss meet.  Four items are a key, a probe and a new key in one directory and an item that a crash left
in the other; two moves bring a file away and another, or itself, back.  Five files are a whole attempt (started, the handshake's batch,
waiting, paired) over an earlier one, or one with a save done twice.  Grants and requests do not interact beyond these counts: the
Manager treats its grants one by one and the theorems hold for any number.

The inductive invariant of each proof was checked by TLC before it was proved; the runs
do not keep it among their properties, nor the refinement of AtMostOnce (ResultsAreReal), whose check is slow.  `store` also checks that there is no deadlock; the other
runs allow it, because their systems may stop: the bounds are reached,
Run ends, the Client is closed.

Two rounds of collecting at start (`DrainMaxCollect`, 5 in the code) are fewer than the messages of the run, so
that the bound is reached: DrainReadsUnlinked speaks of a start before which the vault sent no more messages than
the bound, and without that condition TLC shows a start that is refused although a device.unlinked is
left in the mailbox behind others.

### Findings

- **access_overtaken**: `access.go:97` says `outstanding` is a request waiting
  for a decision; when the decision's event is handled before the goroutine
  takes the answer to the request, the answer sets it afterwards.
- **requests_closed**: an answer recorded while Close drops the entries makes
  the tool call return an Outcome that is neither a result nor pending nor an
  error (`request.go:543`).

Four more that no run is kept for.  `leash.go:160` says that `gen` counts every narrowing,
so that no list sent before one is applied in full after it; `applySet` changes it only when the narrowing
takes something away (`leash.go:372`).  A list L0 times out and a list L1 is answered; the
grant is revoked, and L0 is answered after that; L0's answer comes first, to a connector that holds
nothing yet and so takes nothing from it, and L1's, the older, is then applied in full.  The grant that
the connector was just told is gone may be presented, until the next list, which L0's answer asked
for, or the leash.grant.updated of the revocation.  TLC finds this in 15 states with MCLeashFaults.cfg and
`INVARIANT PresentableAsTold`.  PresentableInForce is what the code does give: what may be presented is
what was noted, and where something else was told a newer list is wanted or awaited.  `leash.go:166` says nothing is presented
without a list sent in this access session; with two sessions, the answer to a
list sent in the one before is applied in full and sets `listed` (what is presented is still
in force: HeldInForce).  `state.go:521` says Wipe returns no nil while a
protector key may remain; a key that a failed Create or CreateReplace made under
another protector may.  And when failWipe cannot delete a `waiting` file
(`pair.go:585`), it says the file "is discarded at the next pairing"; the next
`pair` without a code resumes it until its deadline, for an attempt that was rejected
or failed.

And four about the state directory.  `state.go:863` says that a write in
progress is a rename, so that a read sees the old or the new file, whole; CreateReplace and
Wipe overwrite in place, and StoreReader sees their zeros (as a file that does not open, never as another state).
ReadOnly reads "without changing anything", but a Keychain's Unwrap called by it may
re-tag the item; a `status` in a copied directory therefore can make a later wipe of
the copy delete the original's key.  `keychain.go:82` says that for a
Wipe from the header alone the newest item can be the wrong one only when a never-opened
moved item is newer; an item that a crash left between Wrap and the write is listed too
and can be newer than the key of a file that was moved in and opened (WipeSays allows any newer
item).  A clock set back between two pairings does the same.

### Fairness

Fairness is on what the code keeps doing: each goroutine goes on (its pauses are
bounded and its waits have timeouts), and time passes.  For Converges and
HoldEnds the vault answers the requests it got, mailboxes deliver and the member does the
daily check; the vault's leash.grant.updated gets strong fairness, since batches
of other messages come between.  HoldEnds also needs tool calls to go on, because only
they ask again (CheckHold).  EveryRequestEnds assumes nothing of the vault: the
timeouts alone end a request; MaxHolds is a real assumption there, as a vault
that sent approval.waiting for ever would extend the wait for ever.

In RequestClient and McpServer fairness is one weak fairness of all that goes on by
itself (`GoesOn`, `Inside`): something happens as long as anything can, which is less
than each goroutine's own progress and all that Go and the bounded waits promise.  The
client of McpServer owes nothing, so SignalEnds holds even if it never reads.  InputEnds
and CallsEnd have the premise ClientReads, that no write stays pending for ever.
It is needed: when the client closes standard input and leaves standard output
unread, a writer keeps Serve, and stopSession with its write deadline runs only after
Conn.Run has returned, which a closed input alone does not cause (`mcp.go:264`).

## 4. The theorems

All by induction on steps, for any sets of grants, callers, calls, ids and
any value of the bounds.  Each inductive invariant was first checked by TLC.

- **LeashGrantsProofs.**  `Invariance`: types; at most one list may be applied
  in full and it is the one in flight (OneList); its answer is no older than anything
  noted (FreshIsNewest); what is confirmed is in force in the newest noted
  (HeldInForce).  The first two are needed because only they say that an
  answer applied in full cannot undo what was noted.  Of all that was told: while no other list is
  wanted, the answer to the list awaited is no older (AnswerIsNews), so where `told` and
  `noted` differ a newer list is wanted or awaited (Asked).  From it `PresentingIsSafe`,
  `ListsNeverGoBack`, and, with a lemma for each step of a refresh,
  `StatementsAreCurrent`, `PresentReturnsWhatIsInForce`.
- **AccessPolicyProofs.**  `Invariance`: the times kept are the end of all times asked
  (SentIsTheEnd), in order; what was pruned is an hour old.  So a full window
  means MaxPerHour requests within the hour: `AsksWithinTheHour`.  A refusal's
  period ends no later than the quiet period kept, or than the one that begins when what
  is outstanding goes unanswered (RefusalIsQuiet): needed because Ensure overwrites
  `quietUntil`.  So `AsksOnlyPolitely`.  Every session the connector has or compares with was granted
  by the vault, which counts them, and an answer that there is none is about one that was
  over (SessionsKnown, AnswersKnown).  Sessions found by probes look alike to
  CompareAndSetAccess, but a process finds one at most, because a probe begins only while nothing is
  known (FoundOnce).  So `LateAnswersEndNothing`.  While the session is unknown,
  the probe that is out compares with just that (ProbeComparesWithUnknown), so its answer
  is taken: `ProbesSettle`.
- **VaultConnProofs.**  `Invariance`: what is applied and not saved is still in the mailbox
  (AppliedIsKept), a batch that is acknowledged is saved (AckedIsSaved), after a
  wipe there is no save (WipedEnds).  So `NoMessageIsLost`, and
  `MailboxIsDurable`: every step is a step of DurableMailbox or a stutter.
  `RequestsInvariance`: who is in c.pending was taken under that id and has no result
  (WaitersWait), and who has a result was taken (AnsweredWhenTaken).  So `WaitersAreHeard` and
  `OneResultEach`.  `EventsHandedOnce`, because what is handed over was applied
  (HandedIsApplied) and what was applied is not drained again.  DrainInv is for the start: a round without a
  fault takes a message out of the mailbox or finds it empty (EachRoundCounts), a start is refused only
  when the agent was removed (RefusedWhenRemoved), and a drain that ended with its bound not reached leaves nothing
  (EmptyWhenDrained).  So `RefusedHasReadUnlinked`, by counting messages.
- **RequestClientProofs.**  `Invariance`: an entry has its goroutine, its tool call, its timer
  or Close to end it (NothingKeptForGood, Accounted), a result taken is gone
  (TakenIsGone), one inner id (OneId), the windows promised are waited for
  (WaitsAsLong), and the count of what is held is finite and bounded.  So
  `PendingIsBounded`, `CloseIsFinal`, `RequestExecutedOnce`,
  `MemberIsWaitedFor`.  `ResultsAreOfRequests`: every step is a step of AtMostOnce or a stutter.  It needs
  Real: what an entry or the connection has as a result is that of a request the vault executed, and an
  entry that Status may take is one whose call returned its id.  `ResultGivenOnce` is proved of AtMostOnce and carried over.
- **McpServerProofs.**  `Invariance`: an id is kept with its own call from start to leaving
  (KnownById), the slots are the calls in progress (HeldByCalls), the writer has something to
  write, Serve leaves nothing behind (QuietAfterServe), and what each call was answered so
  far, or failed to be (AnswersSoFar).  KnownById is why a cancellation reaches the call the client
  means: `AnsweredOnce`.  BucketBound strengthens the rate limit: what passed since
  any time and what the bucket would hold now, together, are within the burst and what
  was filled since.  A tick raises both sides by one and a call that passes moves tokens from one
  term to the other, so it is inductive where the bound alone is not: `RateIsBounded`.
- **KeychainProofs.**  `Invariance`: where each process is in its call (Placed); an item just
  made, or a probe's, is in no file and named by no other process (FreshIsOwn); a settled file's item
  has its directory's tag, and nothing else has that item but a process that looks or loads
  there (AtHome).  Tags are why it is inductive: a wipe lists by tag, and a process deletes only what it
  made, what it opened or what has its own directory's tag.  `StepKeeps` says so once, for a step of one process
  that touches only the items it names, and each action is shown to be such a step.  So
  `KeyOfAFileStays`.  `CallsInvariance`, on top of it: a probe's item is there until the probe
  deletes it (Unharmed), the item that the protector opens or opened is the file's (KnownFile), and
  what a wipe listed is gone or still to go, the last of all being the protector's own or newer than every
  other (SoFar).  So `WipesSaySo` and `ProbesAreAlone`.
- **StateStoreProofs.**  `Invariance`: a directory that a power loss may leave names a file as the
  state only once it was synced, and never one that is temporary too (Named); who has a key, and
  under which key the loaded file and the one being written are (Keys, Loaded, Written); that the old
  file is in place until the rename, then overwritten or held (Held); whose keys are left while
  a file is replaced or wiped (LeftKeysKnown, WipedSoFar); and the four properties themselves.  They
  are needed of each other: a save that is confirmed survives the next one's power loss because
  that one's temporary file is never the state, and the old file's overwriting touches
  nothing confirmed because the new name was flushed before (Held, Written).  So `SavesSurvive`,
  `AnswersAreSo`, `WipesAreFinal`, `KeysAreFound`, with both file systems' order in CreateReplace.
  `StateFileIsDurable`: every step is a step of DurableState or a stutter.  The rename is the write, the sync of
  the directory the flush; deleting a key, overwriting and unlinking are what destroys.  Beyond the invariant
  it needs that a key that is made is one no file was written under (KeysAreNew), or a Wrap could bring back
  what was destroyed.  `ReaderDisturbsNothing`: a run with `status` beside the Store is a run of the Store, for
  which all of this holds.  `ReaderInvariance`: the file that the reader has open is no older than the one it began
  with (NeverOlder) and, while the Store only saves, still readable (StaysReadable).  So `StatusIsSo`.
- **PairingProofs**, over StateStoreProofs: every step of a run is a step of the Store or leaves it
  as it is (RunUsesTheStore), so the Store's invariant holds.  `PairingInvariance` adds where a run is in
  its call (Calls), what it knows of its own file (Known, NotInPlace) and of the one it
  found (Replacing), that the file being written has the run's record (Recorded), and
  that every file from the last durable one on is of the attempt that was promised (Promised).
  Promised is why a resumable state is behind a code: which of these files a power loss leaves, the Store's
  invariant does not say.  NotInPlace and Replacing are why write() may go by the Store's errors
  alone.  So `ShownStaysResumable`, `ApprovalStaysKept`, `TellsTheTruth`, `FailedLeavesNothing`.
  `PairingKeepsTheState` composes the two refinements: all that runs of `pair` do to the state file is what
  DurableState allows.

Only model-checked: liveness (Converges, HoldEnds, RequestsEnd, StatusIsRead, EveryRequestEnds, Ends), for
which the prover has no rules here.  Every safety property that a passing run checks is a theorem.  Assumptions of the proofs are the
named ASSUMEs of the modules; TLC evaluates them in every run.

## 5. Not modelled

- Parsing, encoding, argument checks, texts and redaction (`leash/request/parse.go`, `redact.go`,
  `mcp/encode.go`, `mcp/tools.go`, `state/format.go`, `pairing/record.go`, `code.go`): functions of one
  input without state; the models have their outcome.
- Cryptography and the platform code of the passphrase, TPM and DPAPI protectors (`internal/protect`):
  they keep nothing outside the state file; StateStore has the contract of Protector.
- In Keychain: attributes that macOS did not store as asked are a call that fails; a
  clock set back, and iCloud's or a backup's copies of items.
- The vault, the relay and the client library, other than as the code uses them:
  marked external in `PROJECT.json`.
- The two locks that persist takes one after the other (`vaultconn.go:337`): LeashGrants has
  both steps, and a property of what a reader sees between them is left.  A copy of a request's body that
  the connection encrypts after its call ended (`request.go:724`).
- Permissions, links and the lock of the store, and Windows' access control lists.
  A file system that cannot sync directories (EINVAL, ENOTSUP) is reported as durable by
  the code; the models take its word.
- An outcome that comes between the last copy's timeout and its record: the
  code reports the request unreachable; WaitsForTheMember is about the decision to stop waiting.

## 6. Plan

Done, in this order: the grants (what the agent may present is the point of the
program), the access sessions, the connection under both, the requests, the
store, the pairing over it, the MCP session in front of all, the Windows order of
CreateReplace and `status` beside the Store, the Keychain.

1. What `saved.go` keeps of the grants across a restart as definitions of LeashGrants.
