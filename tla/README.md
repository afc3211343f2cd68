# Verification of ring-channel

TLA+ specifications of `ring-channel`, a bounded multi-producer multi-consumer
channel that never blocks senders and overwrites the oldest pending message when
it is full. TLC checks them on small instances; TLAPS proves most of their
properties for every value of the constants. Line numbers refer to
`src/src/*.rs`, the crate's sources.

## The system

| component | source | state | operations |
|---|---|---|---|
| ring buffer | `buffer.rs`, `atomic.rs` | the pending messages: an `AtomicOption` cell (capacity 1) or a crossbeam `ArrayQueue` | `push` (overwrites the oldest), `pop` |
| waitlist | `waitlist.rs` | one `AtomicOption<Waker>` per receiver in a slot map, behind a spinning reader-writer lock | `register`, `deregister`, `insert`, `remove`, `pop` |
| control block | `control.rs` | the counts `senders` and `receivers`, the flag `connected`, buffer, waitlist | `new`, `drop` (deallocates) |
| sender | `channel.rs:14-131` | a pointer to the control block, the Sink's `backoff` flag | `send`, `clone`, `drop`, Sink |
| receiver | `channel.rs:133-256` | a pointer to the control block, its slot in the waitlist | `try_recv`, `recv`, `poll_next`, `clone`, `drop` |
| sink | `channel.rs:96-131` | the sender's `backoff` flag | `poll_ready`, `start_send`, `poll_flush`, `poll_close` |
| errors | `error.rs` | none: the results of the calls | |
| tests, examples, fuzzer | `channel.rs:340-889`, `waitlist.rs:50-193`, `lib.rs`, `fuzz/fuzzer.rs` | client programs and what they assert | |
| benchmarks | `benches/` | none | |

The endpoints share nothing but the control block, and every operation on it is
a sequence of atomic accesses. They interact in three ways:

* *messages*: `send` pushes and `try_recv` pops; nobody holds a lock;
* *wakes*: a poll that finds the buffer empty leaves its waker in the slot of its
  receiver and looks again; a send that overwrites nothing, a receiver dropped
  after it was woken, and the last sender, take wakers from the waitlist and
  wake them. A wake can be consumed by a receiver that does not need it;
* *lifetime*: each endpoint is counted; the last of each side swaps `connected`,
  and the second to do so deallocates the block.

What is hard in it, and what has to hold:

| component | hard behaviour | what makes it correct |
|---|---|---|
| ring buffer | a push at capacity, a push after the last receiver has gone | the bound; each message has one owner at any time |
| waitlist | `pop` scans slot by slot while other calls insert and remove; slots are reused | a slot has one owner; no sleeper is unreachable |
| control block | last sender and last receiver dropped at the same time | freed once, by the last to leave, never leaked, never used afterwards |
| sender | push and wake are separate steps; the hang-up must reach every sleeper and must terminate | no recv outlives the senders; send and drop end |
| receiver | look, insert, look again, remove are separate steps; a wake absorbed by a receiver that goes away | a pending message is owed a wake; Disconnected is final; every answer is that of a queue with atomic calls |
| sink | a full buffer must make the task yield, and a task that yields must be polled again | one message overwritten per yield; `forward` ends |
| memory orderings | two cores may each miss what the other has just written | the fences of send, poll and the hang-up pair up; all accesses happen before the block is freed |
| client programs | any interleaving of their tasks | their assertions hold, they end, the memory is released |

`PROJECT.json` lists the hazards one by one, at their lines, with the property
that would catch each.

## Modules

Each arrow is an `EXTENDS`:

    RingBuffer, Waitlist -> RingChannel -> Answers -> Sink -> Programs -> Tests -> MCTests
                            RingChannel -> EmptyAnswers
    Waitlist             -> WaitlistTest
    Orderings

    RingChannel  -> RingChannelProofs -> MessagesProofs, WakesProofs, EmptyAnswersProofs
    Programs, MessagesProofs, WakesProofs -> SinkProofs
    WaitlistTest -> WaitlistTestProofs
    Orderings    -> OrderingsProofs -> SleepersProofs

| module | models | notes |
|---|---|---|
| `RingBuffer` | `buffer.rs`, `atomic.rs` | `buffer` is a sequence, the oldest message first; push and pop are atomic in both variants of the code |
| `Waitlist` | `waitlist.rs` | `items` is the slot map, `cursor[t]` the position of `t`'s scan, nonzero while `t` holds the read lock |
| `RingChannel` | `channel.rs`, `control.rs` | composes both; one action per atomic access |
| `Results` | `error.rs` | the answers that calls give |
| `Channel` | the documented promise | abstract: a bounded queue with handles, every answer decided in one step |
| `Answers` | the results of the calls | `RingChannel` with what each call answers; implements `Channel` |
| `EmptyAnswers` | `try_recv`'s `Empty` | `RingChannel` with a history of which calls `Empty` has been true for |
| `Sink` | `Sink for RingSender` | `start_send`, the flag, the executor that polls a woken task again, and clients of all this |
| `Programs` | how clients drive the channel | programs as sequences of instructions, their assertions as sets of answers |
| `Tests` | the tests of `channel.rs`, the fuzzer, the examples of `lib.rs` | one definition per test, under the test's name |
| `WaitlistTest` | `waitlist_is_linearizable` | on `Waitlist` alone |
| `Orderings` | the memory orderings of `channel.rs` | the calls once more, on weak memory |
| `MC...` | instances for TLC | who may make which call, suites, symmetry |
| `...Proofs` | theorems | checked by TLAPS; see Proofs |

### State and actions of RingChannel

`senders`, `receivers` and `connected` are the fields of `ControlBlock`; `freed`
says that it has been deallocated. `tx` and `rx` are the handles that exist and
`slot` their `RingReceiver::slot`. A thread or task `t` is in the call `call[t]`
on the endpoint `end[t]`, and `pc[t]` names its next step; `hand[t]` and
`waker[t]` are its local message and popped waker. `woken[t]` is the flag behind
its `Waker` that the executor waits for; it survives from one call to the next,
as that of `block_on` does. `unsent` and `settled` are history variables.

A call is the chain of actions of its code:

* `send`: `Send` (45), `Push` (46), then if nothing was overwritten the pop and
  wake below;
* pop and wake: `LockWaitlist`, `PassSlot`* and `TakeWaker` or `FindNoWaker`
  (`waitlist.rs:40`), `Wake` (55, 84, 232); the last sender repeats them;
* `try_recv`: `Receive`, `Load` (168), `TakeMessage` or `FindEmpty` (169, 171);
* `recv`, `poll_next`: the same, then `Insert` (199) and a second look (206), or
  `Remove` (194, 208); after `Poll::Pending` the thread is `parked` until
  `Resume`, or a stream's task may `Abandon` the poll;
* `clone`: `CloneTx` (68), or `CloneRx` (221) and `Register` (151);
* `drop` of a sender: `DropTx` (76), the pops (83), `Swap` (89), `Free`;
* `drop` of a receiver: `DropRx` (229), one pop (231), `Release` (237), `Swap`
  (239), `Free`.

A thread that enters a read-locked waitlist never has to wait, for the write
lock is held for one step only; `register` and `deregister` wait until no scan
is in progress. Messages are unique so that one can be told from another.

The client may make any call at any time on any endpoint the borrow checker
lets it use: `drop` and `poll_next` need the endpoint for themselves, the other
calls share it. Two threads in `recv` on one receiver are only allowed if
`SharedRecv` is true (see the findings).

Memory is sequentially consistent here; `Orderings` is about the rest. The build
without the `futures_api` feature has the same steps minus the waitlist's, so its
behaviours are covered except for the missing waits.

### Answers and Channel

`answer[t]` is what `t`'s latest call answers, `None` while that is not decided.
`Channel` decides it in a single step of each call: an accepted send when its
message enters the queue, a refused one when it finds no receiver, a receive when
it looks at the queue. A send has two steps there, `Accept` and `Enqueue`,
because in the code it has two as well: a send that has seen a receiver succeeds
even if the last receiver goes before the push. The refinement mapping takes
`queue` from `buffer`, `alive` from `~freed` and the messages accepted but not
yet queued from the sends about to push. `Channel` promises of `Empty` only that
the queue is empty when it is answered. That the channel was still connected, as
the documentation adds, is a matter of *when*, for the count is read before the
pop: `EmptyIsTrue` says that with one consumer there is a moment of the `try_recv`
at which both were so. With two consumers there need not be one: after the count
is read the last sender may go with a message pending, which the other consumer
takes before the pop.

### Sink and Programs

`backoff[s]` is the flag of sender `s`, `sinking` the threads whose send is that
of a `start_send`, `yielding` the tasks that were told `Pending`; `hurry[s]` counts
the messages overwritten since `s` last yielded. `SSpec` is the channel with any
client: each thread makes any calls, in any order, sends directly or to a sink, and
does what `Sink` demands, which is to poll a sink ready before each `start_send` and to
do nothing between `Pending` and the next poll. `start_send` borrows the sender
exclusively; `SSpec` checks that when it starts, and then lets other threads send on
the same sender before it returns, which they cannot in the code.

`Programs` executes programs: a
program gives each thread a sequence of instructions, mostly calls (`send`,
`try_recv`, `recv`, `poll_next`, `start_send`, clone, drop, repeated or not), each with
the set of answers that its caller asserts, besides `spawn`, `join` and
assertions about counters. `forward` is the adapter of the `futures` crate: it
asks for readiness before each `start_send`. The assertions of a test are either
in the sets of answers or, where they are about all the messages received, an
`expect` at the end of the main thread. `failed` says that one did not hold.

### Orderings

A view-based memory: each location of the control block keeps the history of its
values with the views they release, and each thread a view of what it may not
miss any more. Acquire loads and AcqRel read-modify-writes join views, Relaxed ones do
not, SeqCst fences exchange views with the fences before them. The orderings are
those that the code names at each access, one definition each. Of the libraries
the module assumes less than they give: an operation on the buffer or on a slot
that puts or takes something is an AcqRel read-modify-write of the latest
value, but one that finds nothing (`FindEmpty`, `PassSlot`, `RemoveNone`) may have
read any value not older than the thread's view; and the waitlist's lock orders
nothing but `deregister`, which reads the latest value in any case. crossbeam's
`AtomicCell::take` is a swap and reads the latest value, so the module has more
behaviours than the crate; under this contract each of the three fences is needed,
as their comments say (`SleepersMissNothing` fails without any one of them).
A wake is one step with the `take` of its waker. A pending poll is repeated only
after a wake, although a stream's task may poll again of its own accord: each such
poll would add to the histories, without end. In `RingChannel` a task may (`Abandon`
and another poll). For the end of life each thread has a clock that counts its writes
to the counts and the flag, one of which is the last access of each endpoint;
`FreedAfterEveryAccess` compares the clocks with what the thread that frees knows of
them.

## Runs

| run | instance | shows |
|---|---|---|
| `all_calls` | 2 threads, all calls, 2 senders, 2 receivers, 2 slots, capacity 1 | types; lifetime of the block (`LifetimeInv`, `NoUseAfterFree`, `FreeAssertions`, `NoLeak`); `SlotsAreOwned`; `EachMessageInOnePlace`; `HangupIsFinal` |
| `wakes` | 3 threads that send, poll, abandon polls and drop; capacity 2, 3 messages, 2 receivers from the start | `SleeperIsReachable`, `WakeIsOwed`, `HangupReachesSleepers` |
| `single_consumer` | 3 threads, 2 senders, 1 receiver, capacity 1, 3 messages; one thread receives | `SendReachesSleepers` holds with one receiver; `EmptyIsTrue` |
| `hangup` | 1 thread that sends (1 message, capacity 1) and hangs up, 2 that receive, one of which drops its receiver, fair | `HangupEndsRecv`, `CallsEnd` |
| `consumers` | 1 sending thread (3 messages, capacity 1), 2 that loop on `recv`, fair | `PendingIsReceived` |
| `refinement` | `SSpec`: 2 threads, all calls and the Sink's, up to 2 senders and 2 receivers, 3 messages, capacity 2 | `ImplementsChannel`: the answers are those of a bounded queue |
| `tests` | 32 programs at capacity 1: 25 tests and examples, and the fuzzer with three messages; 2 tasks a side, fair | `AssertionsHold`, `OneOverwritePerYield`, `ProgramsEnd` |
| `deliveries` | 9 tests and examples, and the fuzzer with every number of senders and receivers from 0 to 2, capacity 2 | `AssertionsHold`: messages that fit are delivered once, in whatever interleaving |
| `waitlist_test` | 4 workers, 2 items each | `PopsSucceed`, `AllItemsReturned`, and the invariant `EnoughAhead` behind them |
| `orderings` | a sender and a receiver with two messages; with one message and a sender that may be cloned; with only a hang-up and a receiver that may be cloned | `SleepersMissNothing`, `EndIsEmpty`, `FreedAfterEveryAccess` on weak memory |
| `stolen_wake` | 3 threads, 2 receivers, capacity 1 | violates `SendReachesSleepers` |
| `shared_receiver` | 3 threads, 2 of them in `recv` on one receiver | violates `HangupReachesSleepers` |

Deadlock is checked for `tests`, `deliveries` and `waitlist_test`, whose programs
must come to their end and then stutter. In the other runs clients may stop
making calls, and all receivers may rightly wait for a message.

The bounds. Every interaction is between a call and the calls of other threads
on the same control block, so two threads meet each race of two calls, among
them the two last drops and a push against the last receiver's drop; a third is
needed where two receivers and a sender meet (a wake taken by the wrong
receiver, two sleepers at the hang-up). Two receivers exhaust the slots, so slots
are reused after a drop. Capacity 1 makes every second push overwrite; capacity
2 with three messages reaches a queue that is partly full, full and overwritten.
The number of handles, messages and slots bounds every counter; no other bound
is placed on a run. Symmetry is used for safety only.

The tests of the repository run up to ten tasks with random inputs; the programs
run two of each side, which is the fewest with races within a side. Three
messages at capacity 1 overwrite twice in a row. The tests that differ only in
whether the buffer has room are split into the suites `SmallBuffer` (capacity 1)
and `Deliveries` (capacity 2, for tests that open a channel as large as their
input). In `orderings` a history of values grows with each write, so that only
three threads are affordable, and two receivers only without messages; which of
the threads and messages there are is part of the initial state.

Fairness. `FairSpec` assumes weak fairness of each thread's step of a call in
progress: the operating system runs every thread and the executor polls a task
that was woken. Nothing is assumed about the calls a client starts. The one
exception is `PatientSpec` of run `consumers`, whose consumers come back to
`recv`, as a `while let Ok(m) = rx.recv()` loop does. `PFairSpec` of run `tests` assumes
weak fairness of each task of a program, the multi-threaded runtime and the
threads of `spawn_blocking` that the tests run on; the programs' own code decides
which calls are made. `try_recv` in a loop, as the fuzzer's receivers do, makes
progress only because the others do.

## Findings

* `stolen_wake`. A poll that takes a message in its second look
  (`channel.rs:206-208`) still has its waker in the waitlist. A send in between
  wakes that receiver, which returns with the earlier message, and its `remove`
  ignores that the slot was already empty. Another receiver stays blocked in
  `recv` with the new message pending. If the buffer is now full, later sends
  overwrite and wake nobody. The documentation of `recv` says it blocks "until a
  message is sent". `WakeIsOwed` is what the code does guarantee: as long as a
  message is pending somebody is busy, or a receiver not in use has an empty slot
  and passes the wake on when it is dropped; and `PendingIsReceived` shows that
  consumers that come back make up for it.
* `shared_receiver`. `recv` takes `&self` and receivers are `Sync`, but two
  threads in `recv` on the same receiver share one slot, and one displaces the
  waker of the other. After the hang-up one of them can sleep for ever.

## Proofs

`RingChannelProofs` proves, for every capacity, set of threads, of messages and
of slots, all finite disjoint sets of senders and receivers and every
assignment of calls to threads (the named assumptions of the three modules):

* `TypeCorrect`: `Spec => []TypeOK`;
* `Lifetime`: `Spec => []LifetimeInv`;
* `NeverUsedAfterFree`, `FreedOnce`, `NeverLeaked`: the three statements about
  deallocation, as consequences of the above;
* `SlotOwnership`: `Spec => []SlotsAreOwned`;
* `FinalHangup`: `Spec => []HangupIsFinal`.

The inductive invariant is `TypeOK /\ LifetimeInv`. `TypeOK` alone is not
inductive: that a counter stays a natural number when an endpoint is dropped
follows from `senders = Cardinality(tx)`, and that a push stores a message from
the steps of `CallsHoldEnds`. `NoUseAfterFree` is not inductive either: it needs
to know which calls may still touch the block. `LifetimeInv` says so in terms of
sides: a side is *done* when it has no endpoint and none of its calls is on the
way to the swap; `connected` is true exactly while no side is done, and the block
is freed, or about to be, exactly when both are. The argument has one lemma per
action. Most actions leave the counters, the handles and the flags alone and are
reduced to `QuietStep`; the cloning actions keep the count by the cardinality
theorems; `DropTx` and `Release` start a hang-up or a leave exactly when the set
of handles becomes empty; `Swap` makes its side done, and owns the block if the
other side already was.

`SlotOwnership` adds `SlotsAreOwned` to that invariant: an owner is made only by
`Register`, which takes a vacant slot, and a slot becomes vacant only in the step
that ends its ownership (`DropRx`), where the borrow rules leave the receiver to
one call. `FinalHangup` adds `Drained`: `tx = {}` is stable because only a sender
can be cloned into a sender, and without one no call is about to push.

`EmptyAnswersProofs` proves `EmptyWasTrue`: `ESpec => []EmptyIsTrue`, for one thread
that receives and any number that send. An `Empty` starts from a load that counts a
sender (`WhoLooks`): if the buffer is empty then, the moment has come; if not, it
stays non-empty until somebody takes from it (`WhoEmpties`), which only the thread
itself does (`OwnCalls`, kept by `StepsKeepCalls` and `ClonesKeepRegistering`).

`MessagesProofs` proves `NoMessageLost`: `Spec => []EachMessageInOnePlace`. The
property counts the places of a message; the proof carries it as a partition
(`PlacesInv`): every message is unsent, settled, in a hand or in the buffer, these
are disjoint, and no two hands and no two cells of the buffer hold the same. It
needs `OneHandEach` besides, for a call that takes a message while its hand is full
would lose one.

`WakesProofs` proves the four invariants about wakes:

* `NoWakeForgotten` (`WakeIsOwed`) for any number of senders and receivers, shared
  or not. The property lists everybody who may be on the way, which is too weak to
  be inductive: a scan may have passed every waker, and a waker in hand may be that
  of a poll that has ended. `Owing` lists those who cannot fail: a call about to
  pop, a poll that has yet to look, a scan with a waker ahead of it, an owned slot
  that is empty;
* `SleepersStayReachable` (`SleeperIsReachable`), if `SharedRecv` is false: a poll that
  has inserted its waker keeps it in its slot until somebody takes it to wake that
  poll (`SleepInv`), because its slot has one owner (`SlotInv`) and its receiver one
  poll (`OnePoll`);
* `HangupReachesTheSleepers` (`HangupReachesSleepers`), if `SharedRecv` is false: when
  the senders are gone, a poll that may go to sleep has been called, or the last
  sender still has its slot ahead (`Covered`);
* `SendsReachTheSleeper` (`SendReachesSleepers`), if besides there is one receiver:
  the empty slot of `Owing` is then that of the sleeper, which `SleepInv` excludes.

The hypotheses are needed: run `shared_receiver` shows what happens to two threads
in `recv` on one receiver, run `stolen_wake` what happens with two receivers.

`SinkProofs` is about `SSpec`, a channel used by any client, with sinks. It proves:

* `SinksAreSafe`, `SinksWakeSleepers` and `SinksReachTheSleeper`: what the theorems above
  say of `Spec` holds of `SSpec`, under the same hypotheses. It does not follow from
  them, for the steps of `SSpec` are not all steps of `RingChannel`: a task that yields
  sets and clears the flag behind its own waker, the same that a wake in `recv` sets.
  Such a step (`Nudge`) is taken outside any call (`YieldersIdle`), so every inductive
  invariant above is kept by it (`NudgeKeepsIndInv` and the like);
* `Refinement`: `SSpec => ImplementsChannel`. Of the invariants it needs the life of the
  block and `Drained`, and nothing about the waitlist: an answer of `Closed` needs
  `Drained` (no sender, none about to push), a push needs that its sender exists and
  the block does (`PushIsHeld`), and a handle that is closed last needs that no push
  is left (`NobodyPushes`). There is one lemma for each action that clients can tell
  from a stutter, and `SilentCallRefines`, `SilentStepRefines` and `NudgeRefines` for
  those that they cannot;
* `OneMessagePerYield`: `SSpec => []OneOverwritePerYield`. The bound alone is not
  inductive: until the yield it is the flag that remembers the message
  (`FlagRemembers`), and a `start_send` in progress, which has found the flag down, must
  be the only one on its sender (`SinksAlone`), or two would each count a first;
* `ProgramsAreClients`: `PSpec => SSpec` for every suite of programs that only make calls
  of the API (`OnlyCalls`), whatever they are, and so `ProgramsSeeAChannel`. The
  instructions left out (`ByHand`) are those that push to or pop from the buffer, or
  set the flag, behind the API, and `start_send` and `poll_ready` made by hand. TLC
  evaluates the hypothesis to true for 42 of the 50 programs of the two suites; the
  other eight are `send_overwrites_old_messages`, the three tests that set or read the
  backoff flag and the four `..._succeeds_on_non_empty_...` tests.

`WaitlistTestProofs` proves `TypeCorrect`, `AlwaysEnough`, `PopsAlwaysSucceed` and
`ItemsReturned` for any number of workers, items and slots. That a scan that has
passed a slot does not miss the item inserted there is not inductive by itself;
`EnoughAhead` is: for every position the slots from there on hold at least as many
items as there are pops still to visit them. An insert adds a full slot where its
worker adds a pop (or replaces an item and adds none), a take removes one of each,
and a scan that passes an empty slot loses none. `ItemsReturned` carries two facts
more: an item inserted is in one slot or has come out once (`ItemsOnce`), and as
many slots are full as pops are under way (`Balanced`), so that none is full when
all workers are done.

`OrderingsProofs` proves `FreedLast` (`FreedAfterEveryAccess`) and `EndReported`
(`EndIsEmpty`) on weak memory, for any threads and histories of any length, from
three invariants:

* `Sound`: no view is ahead of what was written, neither of a location's history
  nor of another thread's clock;
* `Departures`: a count is the number of endpoints of its side (`CountsRight`); what
  a thread did before its countdown is known to whoever counts down later
  (`LeaversKnown`), hence to the last (`LastKnows`), hence to those who see its swap
  of `connected` (`SwapKnown`), hence to the thread that frees (`FreeKnows`);
* `Endings`: zero is the last value that the count of senders takes
  (`ZeroIsFinal`), every push was released by its sender's countdown
  (`PushesReleased`), and a receiver that has read that zero and then finds the
  buffer empty has read its latest value (`EmptyIsFinal`, `ClosedIsOver`).

`SleepersProofs` proves `NothingMissed` (`SleepersMissNothing`): the three SeqCst
fences are enough. It rests on two more invariants:

* `Wakers`: a receiver inserts its waker before its fence, so its own view while it
  holds one, and the fences' view once it is past the fence, reach the latest value
  of its slot (`WakerRight`). Whoever fences later cannot pass that slot as empty, and
  the receiver itself finds none to remove only if there is none;
* `Owed`: while a message is in the buffer that a sleeping receiver has not seen,
  somebody owes it a wake (`MessageOwed`): a sender between its push and its fence, a
  scan with a view of all those slots that has them all ahead, or a receiver that
  was woken with such a view and will find the message or pass the wake on. After
  the last sender's countdown (`EndOwed`) it is that sender: before its fence, or in a
  scan that has all receivers ahead that may not know.

A message is not seen when the view may still find the buffer empty, so a receiver
asleep whose fence came after the push has found the message, and one whose fence
came before is in sight of the scan.

Only model-checked: `AssertionsHold`, which is about what the particular programs of
the suites assert. What these scripts are is computed by recursive definitions, so the
prover could say little of them, least of all for every number of tasks. For the
four programs of run `tests` outside `OnlyCalls`, `OneOverwritePerYield` is only checked
too (the other four use no sink); in general it is false of clients that call
`start_send` again and again without `poll_ready`.
Everything temporal (`HangupEndsRecv`, `CallsEnd`, `PendingIsReceived`, `ProgramsEnd`) is
out of the prover's reach: liveness under fairness needs `ENABLED`.

## Not modelled

* The spin lock's starvation of writers, and with it the wait for the write lock by
  which the drop of a receiver starts: `CallsEnd` is about what follows it.
* Overflow of the counts: the sets of handles bound them.
* The example of `lib.rs` that echoes what it receives, since a message is sent
  once here; the tests of equality, of `Send` and `Sync` bounds and of `Display` texts,
  which are about types and strings; `buffer_is_linearizable` and the like in
  `buffer.rs` and `atomic.rs`, which test a crossbeam cell or queue that `RingBuffer`
  takes as atomic.
* `Orderings` does not overwrite messages, and has no clone of an endpoint in use
  by another thread: a thread and its endpoint are one.
* Benchmarks decide nothing.

## Plan

1. Done: `RingBuffer`, `Waitlist`, `RingChannel`; `Channel` and the refinement; `Sink`;
   the client programs; the memory orderings; a theorem for every invariant of these
   but `AssertionsHold`, with clients that use sinks and with client programs.
2. Left: shorter proofs where lemmas of `OrderingsProofs` and `WakesProofs` repeat an
   argument.
