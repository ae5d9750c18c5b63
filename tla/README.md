# TLA+ models of the synchronisation primitives

This directory holds TLA+ models of the Go packages in `src/` that share
state between goroutines. The centre of the repository (spec.md §4) is a
set of channel-based primitives: ReadWriteGate (`rwmutex`),
CompletionCounter (`waitgroup`), ConditionChannel (`cond`), RunOnceGate
(`once`), MultiKeyLock (`keylock`), CallDeduplicator (`dupcall`) and
WindowedLimiter (`ratelimit`). Several other packages also hold shared
state: `pubsub`, `tparallel`, `genericsum.MergeChans`, `retryupdate`,
`consistenthash` and `lrucache`. The rest of `src/` is sequential parsing,
formatting and I/O.

## Inventory

| Component | State in the code | Operations | Hard behaviour | What must hold |
|---|---|---|---|---|
| ReadWriteGate `rwmutex.go` | `reader chan int` (capacity 1, holds the reader count), `writer chan struct{}` (capacity 1, the write token) | RLock, RUnlock, Lock, Unlock | RLock holds the count token while it blocks on the writer token; the last reader gives the writer token back | no writer beside anyone else; count = number of readers; readers progress |
| CompletionCounter `waitgroup.go` | `counter chan int`, `runner chan chan struct{}`, one generation channel per busy period | Add, Done, Wait | Wait reads `runner` twice, unsynchronised, while Add replaces it and Done closes it; negative counts panic | Wait returns only after the count reached 0; every Wait returns; a busy period's generation is closed when it ends |
| ConditionChannel `cond.go` | `chin chan chan string` (capacity 1000), one buffered channel per waiter, the external Locker | Wait, Signal, Broadcast | a signal between Unlock and the receive; Broadcast looping while waiters join | no lost wakeup; Signal wakes at most one waiter |
| RunOnceGate `once.go` | `runner chan struct{}` (capacity 1, one token), `done chan struct{}` | Do | f panics; other callers must wait until f has finished | f runs at most once; no Do returns before f finished |
| MultiKeyLock `keylock.go` | `mutex`, `channels map[string]chan struct{}` (one token per key) | LockKeys(keys, cancel) → unlock | sorted order of acquisition; cancellation midway; unlock called twice | key-wise mutual exclusion; LockKeys returns; a canceled call returns |
| CallDeduplicator `dupcall.go` | `mu`, `ch`, `resources`, `err` | Do | a waiter reading `o.ch` after the round ended; the round's result written outside the lock; first caller's context | each waiter of a round gets that round's result; every caller returns |
| WindowedLimiter `ratelimit.go` | one timer per slot, `stop` channel | Acquire, Stop | busy polling; Stop twice | at most maxCount grants per interval |
| PubSub `pubsub/` | subscriber map under RWMutex, `isClosed`, buffered channel per subscriber | Subscribe, Publish, Unsubscribe, Close | check of `isClosed` outside the lock; sends under RLock | no send on a closed channel; messages in order per subscriber |
| tparallel | parent/child tree, `end` and barrier channels | Run, Parallel | a parallel subtest's finish sends on its parent's `end`, the channel the grandparent's Run waits on | a parallel subtest runs only after its parent's body; Run returns after every test |
| MergeChans `genericsum.go` | the open-channel count | MergeChans | a closed input counted more than once | every value of every input reaches the output |
| retryupdate `update.go` | the package-level oldVal, oldVersion, updateFnc; the key on the server | UpdateValue | lost Set responses, conflicts, a second client, the recursive restart | no update lost; applied once unless another client writes meanwhile |
| shopfront `shopfront.go` | the Redis keys `item_<id>_count` (a counter) and `item_<id>` (a set of users) | RecordView, GetItems | RecordView is a MULTI/EXEC transaction, GetItems a plain pipeline that other clients' commands interleave with; redis.Nil and WRONGTYPE replies | each returned count and viewed flag is read during the call, for the right item |
| consistenthash | ring, hash→node map | AddNode, RemoveNode, GetNode | colliding virtual-node hashes | GetNode returns a live node on a non-empty ring |
| lrucache | list and map, capacity | Get, Set, Range, Clear | eviction at capacity, capacity 0 | size ≤ capacity; the evicted entry is the least recently used |
| forth `eval.go` | `stack`, `words` (user word → flattened body) | Process | redefinition of a word after another word named it; every token runs even after an error | a word keeps the meaning its names had when it was defined |
| externalsort | the input files (rewritten in place), Sort's line ending, one reader per file, the heap | Sort, Merge | the line ending detected from the first file that has one, a tie decided by map order; files rewritten without truncation and read again | the output is sorted and holds every input line once |
| hotelbusiness `hotels.go` | a map of day → net arrivals | ComputeLoad | a stay that ends the day another begins; an empty stay | the result is the occupancy, one entry per change |
| varfmt `fmt.go` | the output builder, the argument iterator | Sprintf | `{}` counts every group before it, `{n}` included; unclosed or bad groups | each group replaced by the argument it names; panics exactly on malformed groups |
| ledger | the accounts table (row locks, CHECK balance ≥ 0), transfer_money | CreateAccount, Deposit, Withdraw, GetBalance, Transfer | opposite Transfers locking rows; rollback on every error path | no deadlock between Transfers; money conserved; every call returns |

The interactions that matter are all between goroutines that share one
primitive. The primitives do not call each other. Several components of
`src/` use `sync` types themselves and are clients of the same ideas.

## Plan

The most important behaviour comes first: the primitives that the spec
describes, then the other packages with shared state.

1. **RWMutex** (done). It is shown to refine the abstract lock **RWLock**.
2. **KeyLock** (done). It is shown to refine **KeyLockSpec**, a table of
   key owners.
3. **WaitGroup** (done).
4. **Once** (done).
5. **Cond** (done). Modelled with the client it is written for: an
   external lock and consumers that wait in a loop on a predicate.
6. **DupCall** (done). Rounds of callers with cancellation.
7. **RateLimit** (done). A discrete clock, with maxCount 2 and interval 2.
8. **PubSub** (done). Subscribe, Publish, Unsubscribe and Close with the
   handler goroutines and Close's pending goroutine.
9. **LRUCache, ConsistentHash and Ledger** (done). Sequential data structures,
   each checked against a declarative reference. They share one run,
   `library`, with Once (see below).
10. **MergeChans** (done). A violation run for its early close.
11. **TParallel** (done). Its safety properties are in `library`, and a
    violation run shows Run returning early.
12. **Forth, ExternalSort, HotelBusiness, VarFmt** (done). The Forth
    evaluator, externalsort.Sort, ComputeLoad and Sprintf, each checked
    against a declarative reference in the `library` run.
13. **RetryUpdate** (done). UpdateValue against the kvapi compare-and-set
    contract, with transient errors, lost Set responses and another
    client, in the `library` run.
14. **Shopfront** (done). RecordView's transaction and GetItems's
    pipeline against other users' views, in the `library` run.
15. **Next sittings.** rsem against the Redis commands of its script;
    further sequential packages whose control can be modelled.

Bounds stay at 2–3 goroutines, 2 keys and 2 rounds. That is the smallest
setting in which the races of the code occur: two readers and a writer,
two callers crossing two keys, two busy periods of a WaitGroup, two
waiters on one Cond queue, and a second Do call joining a round.

## Modules and their correspondence with the code

Each channel operation of the Go code is one step of a model. A
capacity-1 channel is a sequence of length 0 or 1, or a count 0..1. A
goroutine's position inside a method is its `pc`. A code section that
runs under a mutex and cannot block is one atomic step.

### RWLock, RWMutex

`RWLock` is the promise of spec.md §4.1: sets of readers and writers, and
the rule that a writer excludes everyone.

`RWMutex` models `rwmutex.go`:
- `reader` holds the count token and `writer` the write token.
- `cnt[p]` is the count that RLock or RUnlock received.
- `RLockRecvReader`, `RLockRecvWriter` and `RLockSend` are the three
  channel operations of RLock, in the code's order. `RUnlock` is split the
  same way.

Properties:
- `ReaderCountMatches`: the count in the channel equals the number of
  readers.
- `ImplementsRWLock`: RWMutex refines RWLock, with `readers` and `writers`
  mapped from the pcs.
- `ReaderProgress`: a blocked RLock eventually reads.

### KeyLockSpec, KeyLock, MCKeyLock

`KeyLockSpec` is the promise of §4.5: all of a call's keys are acquired
atomically, or none of them are.

`KeyLock` models `keylock.go`:
- `made` is the set of keys that have a channel, and `ch[k]` is a key's
  token.
- `keys[p]` is the sorted list of the current call (`prepare`), and
  `idx[p]` is how far the acquisition loop has got.
- `cancel[p]` models the cancel channel, closed at any time when
  `CanCancel`.
- `Canceled` is the rollback path of LockKeys, which calls `unlock()` and
  sends to every key of the call.

Properties: `ImplementsKeyLockSpec`, `LockKeysReturns`,
`CancelTerminates`, and `MutualExclusion` (the violation run).

### WaitGroup, MCWaitGroup

`WaitGroup` models `waitgroup.go`:
- `counter` is the counter channel.
- `runner` is the generation stored in the runner channel, with 0 for
  nil.
- `closed` is the set of closed generations.
- Each worker has its `Add` / `addDelta` / `Done` steps, and each waiter
  the three steps of Wait: `WaitCheck` (line 50), `WaitRead` (line 53) and
  `WaitRecv`.
- `zeroSeen[w]` is a history variable: whether the count has been 0 since
  the waiter entered Wait.
- `AddNeg` (a negative delta) is a step only of `SpecNegAdd`, used by the
  violation run.

Properties:
- `WaitNotEarly`: Wait returns only if the count was 0 during the call.
- `GenerationOpenOnlyWhileBusy`: a generation that is still open is the
  current one, and the count is positive.
- `WaitReturns`: under fairness, with workers that eventually release what
  they added.

### Once

`Once` models `once.go`:
- `runner` holds the token that admits one caller into f.
- `done` is closed by the deferred close.
- `fState` tracks f: `running`, `returned` or `panicked`.
- `Recover` is the caller's recovery of f's panic, after which it may call
  Do again.

Properties: `ExactlyOnceBeforeReturn` and `DoReturns`.

### Cond

`Cond` models `cond.go` together with a client: consumers lock L, wait
while `items = 0`, take an item and unlock; producers lock L, add an item
and call Signal or Broadcast.
- `chin` is `c.chin`, the queue of waiters' channels. A waiter's channel
  is named by the waiter, since each Wait makes a fresh one.
- `tok[c]` is the value buffered in c's channel (capacity 1).
- `WaitPark` is Wait's `c.chin <- ch` followed by `c.L.Unlock()`, merged
  into one step: releasing a lock commutes with the steps of others.
  `WaitBlock` is the gap between the unlock and `<-ch`, where a signal can
  arrive early; `WaitRecv` is the receive and `WaitRelock` the deferred
  lock.
- `Signal` is one `sendSignal`. `Broadcast`, `BroadcastSignal` and
  `BroadcastEnd` are its loop.
- `NotifyHoldsL` chooses whether producers notify before or after they
  unlock L.
- `ChinCap` is the capacity of `c.chin` (1000 in `New`). `WaitPark` is
  enabled only while the queue has room, so a Wait that finds it full
  blocks holding L. `MCSync` sets it to 2, the number of consumers, so
  the queue can fill up completely. With 1, TLC reports a deadlock.

Properties:
- `NoStrandedWaiter`: a waiter that has not been notified is still on
  `c.chin`. No wakeup is lost in the gap before `<-ch`.
- `AllConsumed`: every consumer eventually takes all its items.

### DupCall, MCDupCall

`DupCall` models `dupcall.go`. Rounds are numbered; `ch` is the open
round's number (0 for nil) and `closed` the closed rounds. `spc[r]` is
where round r's detached goroutine is: in `cb`, about to close, or done.
A context is the pair of caller and call number, and `canceled` is the set
of canceled contexts.
- `runOnce`, `ReadCh` and `GetResult` are the sections under `o.mu`.
- `WaitClosed` and `WaitCanceled` are the two cases of the select.
- `CbReturns` writes the result without `o.mu`; a cb whose context is
  canceled may return its error or finish.
- `closeChannel` closes `o.ch` and sets it to nil.

Properties:
- `AtMostOneInFlight`: a running cb belongs to the round `o.ch` names.
- `JoinedReturns`: a caller that read a non-nil channel returns.
- `DoReturns` (the violation run): every Do returns.

### RateLimit, MCRateLimit

`RateLimit` models `ratelimit.go` over a discrete clock `now` that stops
at `Horizon`. Each slot is a timer: `deadline[i]` is when it fires and
`fired[i]` whether its channel holds a value. The slice of timers travels
through the capacity-1 channel `l.timeouts`, so whoever received it holds
it alone: `isUpdated` with its deferred send back is one step. It claims
the slot (drains the timer and starts a new one of length `interval`) or
moves to slot `(i + 1) % maxCount`. `UpdateStopped` and `UpdateCanceled`
are the other cases of update's select. `granted[t]` is a history
variable: the grants at time t.

Properties:
- `RateBound`: no window of `interval` ticks holds more than `maxCount`
  grants (summed with `FoldFunctionOnSet`).
- `StopOrCancelReleases`: an Acquire in progress returns once Stop was
  called or its context is done.

### PubSub, MCPubSub

`PubSub` models `pubsub/service.go` and `pubsub/my_pubsub.go` for one
topic. Each client runs a script (`Script[c]`) of Subscribe, Publish,
Unsubscribe and Close calls, one step per critical section:
- the service's `sync.RWMutex` is `writer` and `readers`;
- `subs` is the topic's subscription list, `ch[s]` the buffered channel
  of subscriber s (capacity `Cap`) and `chClosed[s]` whether it is closed;
- `wg` is the service's WaitGroup; `pend` is the goroutine Close starts to
  wait on it, racing `ctx.Done()` (`CloseCanceled`, when `CanCancel`);
- `HandlerRecv`, `HandlerCallback` and `HandlerExit` are the goroutine
  `subscribeHandler` runs per subscription;
- a send on, or a close of, a closed channel sets `panicked`: the Go
  program stops, and so does the model.

History variables: `sent` (message, subscriber), `handled[s]`,
`beforeClose[c]` (the Publish calls that had returned when c called
Close), `closeNil` (the Close calls that returned nil) and `pubStart[c]`
(the subscriptions live when c's Publish began). A subscription is
`Live` from the step that registers it to the step of its Unsubscribe
that cuts it out of the topic's slice.

Properties:
- `PublishReachesSubscribers`: once Publish has done its sends, its
  message is in the channel of every subscription live both when Publish
  began and now. It is about `subscribeHandler` cutting one element out
  of the slice while other clients subscribe and publish; a slip in the
  slice bounds drops another client's subscription without an error.
- `CloseWaitsForDelivery`: a Close that returns nil has let every
  subscriber handle every message published before it.
- `EveryMessageHandled`: every message sent to a subscriber is eventually
  handled, unless the program panicked.
- `CloseReturns`: Close returns (nil or the context's error).

### LRUCache, ConsistentHash, MCLibrary

`LRUCache` models `lrucache/cacheImpl.go`: `usages` is the list (a
sequence of entries, front first), `cache` the map's key set, `capacity`
the value given to `New`. `Set` has the three cases of the code:
capacity 0, a present key (`Update` then `MoveToFront`) and a new key
(`Insert`: evict the back entry when `IsFull`, push the new one at the
front). `Range(n)` stands for an f that returns false at its n-th call.
`touch` and `lastVal` are the reference: the call that last used each
key and the value last set.
- `ImplementsLRU`: the map holds exactly the keys that fewer than
  `capacity` other keys were used after, the list orders them from most to
  least recent, and each carries its last value.
- `RangeVisitsLeastRecentFirst`: Range's visits are a prefix of the
  cached keys from the least recently used on.

`ConsistentHash` models `consistenthash/consistenthash.go` and the slice
helpers of `hash_utils.go`, which are pure operators on 0-based indices
(`FindInsertionIndex` is the contract of `sort.Search`). Each call holds
the RWMutex for its whole body, so calls are atomic steps. `hashKey` is
abstracted to tables: `VHash[n]` for the virtual nodes of n, `KeyHash[k]`
for keys. `AddReplicas` and `RemoveReplicas` are the loops over replicas.
- `RingMatchesNodes`: the ring is the sorted list of exactly the live
  nodes' hashes, and the map sends each to its node and nothing else.
- `GetNodeReturnsOwner`: GetNode returns the node of the first virtual
  node at or after the key's hash, wrapping past the largest, and nil only
  for an empty ring.

### Ledger

`Ledger` models `ledger/ledger.go` together with the table and the
procedure its `New` creates (`balance BIGINT CHECK (balance >= 0)`,
`transfer_money`). Postgres is abstracted to what the code relies on:
- `exists` and `balance` are the committed rows; `lock[a]` is the
  transaction holding a's row lock.
- CreateAccount, Deposit, Withdraw and GetBalance run in autocommit: one
  step each. An UPDATE waits while a transaction holds the row (`Free`);
  the CHECK constraint turns an overdraft into `ErrNoMoney`; an UPDATE
  that finds no row is "account does not exist".
- Transfer is a transaction: `TransferBegin` (validateAmount, BeginTx,
  and the rows the SELECT returns), `SelectForUpdate` (one step per row
  lock, in the order the rows come back), `CheckAccountsExist`,
  `ExecuteTransfer`, `Commit`. Every error returns through the deferred
  `Rollback`, which releases the locks; writes are seen by others only at
  Commit.
- `net` is a history variable: the initial money plus the committed
  deposits less the committed withdrawals.

Properties:
- `NoLockCycle`: no two Transfers ever wait for each other's rows.
  `ORDER BY id` is what makes this hold.
- `MoneyConserved`: the committed balances add up to `net`, and none is
  negative.
- `EveryCallReturns`: under strong fairness of a transaction's steps
  (Postgres queues row-lock waiters), every call returns.

A Transfer with from = to selects one row and fails with "some accounts
do not exist"; the model reaches this path and records no property about
its message.

### MCLibrary

`MCLibrary` checks LRUCache, ConsistentHash, Once, Ledger, TParallel,
Forth, ExternalSort, HotelBusiness, VarFmt, RetryUpdate and Shopfront in
one run. They share no state: the first state picks one (`comp`) and the
behaviour drives only that one, so the state space is the sum of the
eleven. The initial choices of a component (the LRU capacity, the bodies of
the tests) are fixed in the behaviours of the others, so they do not
multiply its states. The fair actions of Once and Ledger are disabled in
their initial states (calling is the client's choice), so each fairness
constrains only the behaviours that drive its component; TParallel has
no liveness property and no fairness. The instances:
- LRU capacity 0 or 2, three keys, two values, seven calls: eviction,
  update of a present key, Clear and Range stopping early all happen.
- Three nodes of two virtual nodes each, interleaved on the ring (hashes
  1–6), keys hashing below the first hash, onto a virtual node and past
  the last (the wrap), seven calls.
- Once: three goroutines, two Do calls each, f may panic.
- Ledger: accounts 1 and 2 with balance 1, account 3 absent until g3
  creates it; three clients with one call each, chosen from sets that
  hold opposite Transfers between 1 and 2 and every error path (negative
  amount, missing account, from = to, too little money). Two opposite
  Transfers and a Withdraw on a locked row are the interleavings that
  matter; one call per client keeps the liveness check of the whole run
  under a minute.
- TParallel: the tree of `MCTParallel` (top tests ta and tc; ta runs tb1
  and tb2, or tb1 alone).
- Forth: three Process calls, each one of ten rows: a word redefined
  after another word named it (in one row, and across calls through
  `foo *`), `dup` redefined in terms of itself, `-1 / 2` (truncation),
  and every error path: underflow, division by zero, an undefined word,
  `:` alone, a number as the name, a missing `;`.
- ExternalSort: three files, each one of eleven contents over a, b, `\r`
  and `\n` (1331 combinations): Unix and Windows endings, a tie of the
  two, no ending, no final ending, empty lines, a final `\r`, the empty
  file. Three files let the ending be unknown for the first and decided
  by a later one, and let the heap hold three readers.
- HotelBusiness: every list of up to three guests with days 0..2 (259
  lists): overlapping, touching and empty stays.
- VarFmt: every format of up to five characters over `{`, `}`, `0`, `1`,
  `-` and `x` (9331 formats), with the arguments "A" and "BC": nested and
  unclosed groups, `{}` after `{n}`, negative, out-of-range and
  non-numeric indexes.
- RetryUpdate: two UpdateValue calls, two faults (transient error,
  AuthError or lost Set response), two writes or deletes by the other
  client, one failing updateFn. Two faults let a lost response be
  followed by a second fault on the retry; two foreign writes let one
  land between a lost response and its retry, and one between two calls.
- Shopfront: users ann and bob, items 1 and 2; ann calls GetItems twice
  for both items; two RecordView calls, each of which may fail before
  EXEC; one network error that may cut a pipeline. A view can land
  before a call, between its GETs and SISMEMBERs, or after its return,
  and an item can be absent (redis.Nil) while the other is present.

### MCSync

`MCSync` checks RWMutex, KeyLock and Cond in one run, `sync`, the same
way: `comp` picks one per behaviour. The fair steps of RWMutex and KeyLock
are disabled until a goroutine calls RLock, Lock or LockKeys, so their
fairness is stated as in their own modules (KeyLock's with holders that
unlock, `KeyLock!Spec`). Cond's clients start fairly, so its fairness is
stated of the Cond steps wrapped in `InCond` (a Cond step in a Cond
behaviour), and `AllConsumed` is stated of the Cond behaviours. The
instances:
- three goroutines on one RWMutex;
- two goroutines locking two keys, each call naming one key or both in
  either order, so the two can cross; a third goroutine multiplies the
  liveness check of the union by four and is left to `keylock_cancel`;
- two consumers of one item and a producer of two, notifying while
  holding L.

### MergeChans

`MergeChans` models `genericsum.MergeChans`: the merger goroutine and one
sender goroutine per input that sends up to `MaxSends` values on its
unbuffered channel and then closes it.
- `Loop` is the `for openedChans > 0` loop and the final `close(result)`.
- `HandleChannel` is one `handleChannel` call of processChannels' range,
  with the decrement of `openedChans` when it returns false. Its three
  disjuncts are the select's cases: a value (a sender is blocked in its
  send), a closed channel, and default. `Advance` moves the range on, or
  returns to the loop after the last input.
- The caller ranges over `result`, so forwarding a value is part of the
  receive step; `sent[i]` counts the values of input i the caller got.

Property: `ResultClosedAfterInputs`, result is closed only after every
input is. The run `mergechans_early_close` (two inputs, one value each at
most) shows it violated.

### TParallel, MCTParallel

`TParallel` models `tparallel.go` over a fixed tree of tests. A test's
body is a script: `"par"` is a call of `t.Parallel()`, and a test name is
a `t.Run` of that test. `Scripts[t]` lists the bodies t may have; the
root's body is `runAll` over `Top`.
- `pc[g]` is where the goroutine of test g is; `Root` is the goroutine of
  `Run`.
- `Run` is `t.Run`: the child's runner starts and g waits on the child's
  `end`. `Parallel` is Parallel and add up to the send on `t.end`;
  `AddResume` is the wait on `t.parent.stop`.
- `RunnerBodyEnd`, `JoinDone` and `Finish` are `runner` after the body
  and `finish`. `RunAllEnd` is the close of `root.stop` and `tryFinish`.
- The `end` channels are unbuffered. `Exchange(g, s)` is one send and the
  receive that takes it: `RecvFrom(g)` is the channel g receives on and
  `SendTo(s)` the one s sends on.

Properties:
- `ParallelAfterParentBody`: a parallel test resumes only after its
  parent's body returned (library run).
- `SequentialHoldsParent`: a test that is not parallel runs while its
  parent is blocked in the `t.Run` that started it (library run).
- `RunReturnsAfterTests`: Run returns only after every started test's
  body has returned. The run `tparallel_early_return` shows it violated.

`MCTParallel` gives the tree: top tests a and c, with a running b1 and
b2 (or b1 alone), both parallel; b2 may call Parallel twice (the panic),
and c is parallel or sequential.

### Forth

`Forth` models `src/forth/eval.go`. Process runs a whole row without
interleaving, so it is one action, `Process`, whose effect is computed by
operators that translate the functions it calls: `ProcessLoop` (Process's
loop, in which `err` is whatever the last token returned),
`createUserWord`, `findIndexOfEndOfToken`, `createUserWordBody`,
`executeWord`, `executeUserWord`, `executeSubWord` and `BaseOp` (plus to
over, with popTwoElements; divide pops before it rejects 0, and Go's
division truncates, `GoQuot`). Tokens are lower-case strings; a body
entry `"b_" + w` is the record `[pre |-> TRUE, tok |-> w]`.

Beside it, a reference interpreter (`RefRow`, `RefRun`, `RefWord`) keeps
the definitions as written and resolves a name when it runs, against the
definitions made before the word that names it, and stops at the first
error. `ProcessMatchesReference`: while no row has made the reference
fail, Process returns no error and the reference's stack. It says the
flattening at definition time is the same as binding each name late in
its definition's scope.

Two things the code does fall outside the property, which compares only
rows without errors. Process keeps running after a failing token and
returns only the last token's error: after `:` fails, the loop goes on
with the next token, so the row `: foo 1` (a missing `;`) runs `foo` (an
undefined word) and pushes 1, and returns <<1>> and no error. And the slice Process
returns shares its array with `e.stack`, so a later call can overwrite a
stack the caller still holds; the model's values carry no aliasing.

### ExternalSort

`ExternalSort` models `Sort` of `src/externalsort/`. A file is its byte
sequence and a line a byte sequence compared as `strings.Compare`
compares it (`Compare`). Every call of Sort's is sequential, so:
- `processSingleFile` is one iteration of Sort's loop: the ending is
  detected (`detectLineEnding`: fillMap's counts and
  determineMostFrequentLineEnding's strict maximum, where a tie of two
  non-zero counts depends on Go's map order and goes either way) if none
  is known yet; `readLines` (`ReadLine` byte by byte); the sort; and
  `writeFileLines`, which opens the file without `O_TRUNC`
  (`Overwrite`).
- `mergeFiles` opens a reader per file with Sort's final ending and
  builds the heap (`initHeap`); `mergeLine` is one iteration of
  mergeLines with pushToHeap; `mergeEnd` is Merge returning.
- The heap is the set of its items; `IsHeapMin` is what `heap.Pop` with
  `Heap.Less` gives, any least item.

`SortOutputsEveryLine`: once Sort returns, the output is sorted and
holds, as a multiset, the lines processSingleFile read. Lines are
compared up to a final `\r`, because the code does not keep it in one
case: a file with no `\n` is processed before any ending is known, read
and rewritten as Unix; when a later file makes the ending `\r\n`, merge
reads that file's line with its final `\r` taken as part of the
ending. Exact equality fails on the file `"\r"` followed by a Windows
file. The rewrite without truncation is safe: a rewritten file is never
shorter than the original, and a leftover tail would show in the output
as lines no file had.

Not modelled: the I/O errors, and `initHeap`'s `lr: &reader`, which
points every item at the loop variable before Go 1.22 (the repository
names no Go version; the model takes per-iteration variables).

### HotelBusiness

`HotelBusiness` models `ComputeLoad`: `addArrivalAndDepartureDays`,
`getFullRangeOfDays`, and `countTotalLoads` with its helpers, one
operator each; the call is one step, `ComputeLoad`. `LoadIsOccupancy`
compares the result with the occupancy counted directly: for each day
from the first check-in to the last check-out, the guests with
check-in ≤ day < check-out, with an entry for the first day and for each
day whose count differs from the day before.

### VarFmt

`VarFmt` models `Sprintf` with string arguments: `SprintfLoop` is its
loop, `indexForRightBrace` parserForBraces's search (a missing `}`
panics), `addArg` addArg and addArgByIndex, `addArgByIterator` the write
of an argument, where an index past the end is Go's index panic.
`SprintfMatchesGrammar` states the format's grammar of positions instead
of a scan: a `{` opens a group unless an earlier `{` has no `}` between
them, the group ends at the first `}`, and a group's argument is its
number among the groups when it is empty and its integer otherwise. The
output is the characters outside groups with each group replaced by its
argument, and Sprintf panics exactly when a group is unclosed or names no
argument.

### RetryUpdate

`RetryUpdate` models `update.go` for one goroutine. The package-level
`oldVal` and `oldVersion` are variables; `newVal` and `newVersion` are
the locals of `UpdateValue` and `tryToSetValue`. The server follows the
kvapi contract the code is written against. That package is not in the
repository, so `SetResult` and the answers of Get are stated from the
contract and are not mapped:
- `Get` returns the value and version, or ErrKeyNotFound.
- `Set` with the zero OldVersion creates an absent key.
- `Set` on an absent key with another OldVersion is ErrKeyNotFound.
- `Set` with an OldVersion that is not the key's version is a
  ConflictError whose ExpectedVersion is the key's version.

Actions and definitions:
- `UpdateValue` is the call with `resetFields`.
- `tryToGetValue` is one Get of its loop: a transient error loops, an
  AuthError returns, and ErrKeyNotFound or a value goes on to
  `tryToUpDateValue`. That definition applies updateFn, which may fail,
  and takes a new version.
- `tryToSetValue` is one Set. A transient error or AuthError can come
  before the server. At the server the Set is applied if it succeeds, and
  its response may then be lost. `handleSetResult` is the if-chain of the
  loop. A conflict naming another version restarts `UpdateValue` within
  the same call; this is the recursive call in the code.
- `OtherWrite` and `OtherDelete` are another client. It increments the
  key by compare-and-set, or deletes it.

updateFn is an increment, so a lost update shows as a value that differs
from the number of writes since the key was created.

`UpdateIsReadModifyWrite` states two things:
- The key's value is always the count of writes since the key was
  created. So no Set wrote over a version other than the one its value
  was computed from.
- A call that returns nil had at least one Set applied. It had exactly
  one when the other client did not write during the call.

The qualification is needed. A Set is applied and its response lost. The
other client then writes or deletes the key. The retry gets a conflict
naming the other client's version, or ErrKeyNotFound, and applies
updateFn a second time. The API cannot tell this case apart from a Set
that was never applied.

### Shopfront

`Shopfront` models `shopfront.go` with Redis as its documented command
semantics, which are not mapped. `viewCounts` and `itemViews` are the
keys `item_<id>_count` and `item_<id>`; a count of 0 is the absent key.
A key is a record of its kind and item: what the two key formats do that
matters is give distinct keys to distinct ids and kinds.
- `RecordView` is the TxPipeline: its INCR and SADD run in one step, or
  the EXEC never arrives and neither runs. Its return value changes no
  state.
- `GetItems` queues the GETs of the count keys, then the SISMEMBERs of
  the item keys (`queueViewCountCommands`, `queueViewedCommands`).
- `RunCommand` is Redis running the next command of the pipeline; other
  clients' transactions run in between. `Reply` treats an absent
  key as empty whatever the command (redis.Nil for GET, false for
  SISMEMBER) and gives WRONGTYPE for an existing key of the other type.
- `ReturnItems` is the rest of GetItems: a network error, at any point,
  is returned; `executePipelineFails` is Exec's first command error,
  where redis.Nil is ignored; `buildItemsFails` is a GET reply other than
  a value or redis.Nil; otherwise `buildItemsFromRedisResults` pairs the
  k-th GET with the k-th SISMEMBER, whose Val() is false when it failed.

`ReadsWithinCall` says that every item returned without error was read
inside the call. Its ViewCount lies between the item's count at the call
and at the return. It is Viewed if the user viewed it before the call,
and only if the user viewed it by the return. The two fields are read at
different moments, so they need not agree with each other: the user's
own RecordView can run between the GET and the SISMEMBER of its item,
and the item comes back Viewed with a ViewCount of 0. TLC reaches that
state in this model; the hazard is recorded in PROJECT.json.

## Runs

| Run | Cfg | Expect | Shows |
|---|---|---|---|
| sync | Sync.cfg | pass | RWMutex with 3 goroutines: the count matches the readers, RWMutex refines RWLock, readers progress; KeyLock with 2 goroutines, 2 keys, every request of length 1–2: KeyLock refines KeyLockSpec and every LockKeys returns; Cond with 2 consumers and 1 producer of 2 items, notifying under L: no wakeup is lost and every consumer finishes |
| keylock_cancel | KeyLockCancel.cfg | pass | with cancellation and holders that may never unlock, a canceled LockKeys still returns |
| keylock_cancel_exclusion | KeyLockCancelME.cfg | violation | the rollback after a cancel sends the tokens of keys the call never took, and two goroutines hold one key |
| waitgroup | WaitGroup.cfg | pass | 2 workers, 1 waiter, 2 rounds, deltas 1–2, with over-release: Wait never returns early, generations close, Wait returns |
| waitgroup_negative_add | WaitGroupNegAdd.cfg | violation | Add(-n) that brings the count to 0 never closes the generation, so a waiter blocks forever |
| library | Library.cfg | pass | LRU capacity 0 or 2 with 3 keys; a ring of 3 nodes × 2 virtual nodes; 3 callers of Once.Do; 3 ledger clients: the cache is LRU and Range goes least recent first, the ring matches the live nodes and GetNode returns the owner, f runs once before any Do returns and every Do returns, Transfers never wait on each other, money is conserved, every ledger call returns; tparallel's barrier holds and sequential subtests hold their parent; three Forth Process calls agree with the late-binding reference interpreter; Sort over three files outputs every line once, sorted; ComputeLoad gives the occupancy; Sprintf follows the format grammar; two UpdateValue calls with faults and a second client are each one read-modify-write, applied once unless the other client wrote during the call; GetItems's counts and viewed flags are read within the call, each for its own item, while RecordView transactions interleave with its pipeline |
| dupcall | DupCall.cfg | pass | 2 callers, 2 calls each, with cancellation: one cb at a time, joined callers return |
| dupcall_nil_channel | DupCallNilChannel.cfg | violation | a caller that reads `o.ch` after its own round closed waits on a nil channel forever, even alone |
| ratelimit | RateLimit.cfg | pass | 2 callers, maxCount 2, interval 2, up to time 4, with Stop and cancel: the rate bound holds and Stop or cancel ends Acquire |
| mergechans_early_close | MergeChansEarlyClose.cfg | violation | an input closed early is counted on every pass, so result closes while the other input is open |
| tparallel_early_return | TParallelEarlyReturn.cfg | violation | with two parallel subtests, the first to finish sends on the parent's `end`, and Run returns before the other has run |
| pubsub | PubSub.cfg | pass | 2 subscribers (one unsubscribes), 2 messages through channels of capacity 1, a Close that may time out: every Publish reaches each subscription live throughout it, Close returns nil only after earlier messages were handled, no message is lost, Close returns — up to the panics the races reach |

Each property of a passing run has a mutant in PROJECT.json: a plausible
bug in the modelled code that TLC must catch. Examples are unsorted keys,
a Wait that never unlocks L, an unbuffered waiter channel, a round-robin
index without the modulus, and a tryToSetValue that starts over on its own conflict, and a GetItems
that queues its SISMEMBERs on the count keys.

## Findings

- **keylock.go:31.** On cancel, LockKeys calls `unlock()`, which sends a
  token for every key of the call, including keys it never acquired. The
  extra token lets a second goroutine lock a key that is held.
- **waitgroup.go:24.** `Add` with a negative delta that brings the count
  to 0 does not close the generation; only `Done` does. A Wait blocks
  forever.
- **dupcall.go:24.** `runOnce` releases `o.mu` before
  `waitForCompletion` reads `o.ch`. If the round closed in between, the
  caller reads nil and blocks forever on a nil channel unless its context
  is canceled.
- **genericsum.go:65.** processChannels decrements `openedChans` for a
  closed input on every pass, not once. With two inputs, one that closes
  first makes the count reach 0 after two passes; result is closed while
  the other input is open, whose sender then blocks forever and whose
  values are lost.
- **tparallel.go:54.** `finish` of a parallel subtest sends on its
  parent's `end`, where the grandparent's `t.Run` is still waiting for the
  parent. With two parallel subtests the first to finish ends that wait:
  Run goes on to the next top test and returns while the other subtest
  has not run; the parent and that subtest then block on each other.

Several other defects were met while modelling. They are recorded as
hazards with a note, not as runs, because the project keeps at most one
run per question:
- Broadcast called without holding L can livelock a waiter.
- DupCall's result is written without `o.mu`.
- All DupCall waiters run on the first caller's context.
- PubSub's Publish and Close can send on, or close, a closed channel.
- A consistent-hash ring with two equal virtual-node hashes (a collision,
  or a node added twice) can answer nil after RemoveNode.

KeyLock's unlock is not idempotent either, but calling a returned unlock
twice is misuse, so it is left out of the hazards. A Wait that finds
c.chin full blocks while it holds L. The `sync` run sets the queue at its
limit, so that every waiter just finds room; with one slot fewer, TLC
reports the deadlock. The `library` run gives virtual nodes distinct
hashes and adds a node only while it is off the ring. GetItems can return
an item Viewed with a ViewCount of 0, because its pipeline is not a
transaction (see Shopfront).

## Fairness

- Ledger: a transaction's steps are strongly fair, since Postgres grants a
  row lock to its queued waiters when it is released.
- Steps a goroutine takes inside a call are weakly fair, because the Go
  scheduler runs runnable goroutines.
- Blocking receives and taking a lock are strongly fair: a channel's
  `recvq` is FIFO, and `sync.Mutex` hands the lock to a waiter that has
  starved.
- Each case of a select is weakly fair on its own: Go picks uniformly
  among the ready cases, so a case that stays ready is taken.
- A user's decision to call a method, cancel a context, advance the clock
  or call Stop is never fair.
- In PubSub every step of a client's call and of a handler, taking the
  RWMutex included, is weakly fair. The scripts are finite, so a lock
  that a step waits for is held only for a bounded number of steps and
  stays free once the others finish.
- `Unlock` of KeyLock is weakly fair in `Spec`, which says holders unlock
  eventually. `SpecHoldForever` drops this, to show that cancellation
  alone ends a call.

## Not modelled

- **Concurrent UpdateValue calls.** Two calls share the package-level
  `oldVal`, `oldVersion` and `updateFnc`. One call's Get can then supply
  the version for another call's Set, and an update is lost. The model
  has one calling goroutine. The hazards of PROJECT.json record this.
- **consistenthash/utils.go.** `removeFromSlice` is never called.
- **rsem.** Acquire runs a Lua script that first removes every entry
  whose score is at most the caller's `now`, and the scores are the
  `now` values of earlier Acquire calls. So an Acquire removes every
  holder that started before it, and the limit is not enforced. It is
  not a race: two Acquire calls in sequence with limit 1 both succeed.
  The entry should expire at `now` minus the TTL. This was read from the
  code, not checked. A model would only restate it, and no run slot is
  left for a violation run.
- **Batcher.** Load and Store each hold `b.mu` for their whole body, so
  there is nothing to interleave. The code has a sequential defect,
  found by reading it, not by a check. Within a millisecond of the last
  update, Load returns `getCachedExit()` instead of the cached value:
  1 when that value is 1, otherwise `int32(600)`. Store resets the
  timestamp but does not refresh the cache, so a Load right after a
  Store returns one of those constants. A unit test finds this, and a
  model would only restate it.
- **ledger's Close, context cancellation and driver errors.** Close only
  closes the connection pool; the clients of the model use
  `context.Background()`.
- **urlshortener.** Random keys and HTTP.
- **genericsum's helpers.** Min, SortSlice, MapsEqual, SliceContains and
  IsHermitianMatrix are pure functions without shared state.
- **hotelbusiness/main.** Reads JSON from stdin.
- **Sequential packages.** utf8, jsonlist, jsonrpc,
  olympics, otp, gzep and others have no shared state to explore.
- **Payload data.** It is abstracted: no model carries values beyond what
  a property distinguishes.
