# A TLA+ model of the Reach Web Service runtime

Reach Web Service (`rws`) is a web server that answers requests with JavaScript
and TypeScript programs. It embeds a fork of Deno: a V8 isolate with an event
loop (`src/core`), the ops, workers, timers and module loading of the runtime
(`src/cli`), and on top of them the server and its control panel (`src/rws`).
This directory holds TLA+ modules for the concurrent core of that system, TLC
configurations that check them on small instances, and TLAPS proofs for all components but
the timers' tree: the shared queue, the event loop, module loading, workers, timers,
the web server, the streams and the live reload of the control panel. `PROJECT.json` lists, for every
definition, the lines it models, and for every property a mutation of the model
that breaks it.

    tlc -config MCWorkers.cfg Workers        # model-check one configuration
    tlapm ChannelProofs.tla                  # check the proofs of one component

1. Inventory: the system and what is hard about it
2. Plan: modules, runs, theorems, and what comes next
3. The modules and the code
4. The runs: questions, bounds, fairness
5. Where the code and its texts disagree
6. What is proved
7. What is only model-checked, and what the models leave out


## 1. Inventory

### How the parts interact

    browser --HTTP--> rws/main.rs main_handler --mpsc--> ops/rws_server.rs --promise--> program
                                  ^------------- oneshot (the answer) ----------------|

    program (JavaScript, one isolate)
       | Deno.core.dispatch / send                 handlers, promises
       v                                              ^
    core_isolate.rs  dispatch_op -> futures -> poll --+-- shared queue (shared_queue.rs, core.js)
       |                                              +-- overflow_response (a function argument)
       +-- es_isolate.rs / modules.rs: loads of the main module and of import()
       +-- ops/timers.rs, global_timer.rs: one alarm <-- timers.ts: tree of due times (rbtree.ts)
       +-- ops/worker_host.rs --channels, join--> web_worker.rs: an isolate on its own thread

    ReadableStream --reads-- readableStreamPipeTo --writes--> WritableStream   (web/streams, in JavaScript)

    file watcher --watch channel--> ReloadServer --Message--> WebSocketSession --> page, which reloads
                                       ^------ Connect, Disconnect ----|      (rws/control_panel.rs)

An executor polls an isolate when some waker asked for it. Everything in an
isolate happens inside such a poll, or inside a script that the embedder executes
before it; other threads only complete futures and wake.

### Components, their state, their operations, their hazards

| Component | State | Operations | What is hard | Must hold |
|---|---|---|---|---|
| Shared queue (`core/shared_queue.rs`, `core/core.js`) | one buffer: counters, a table of record ends and op ids, bytes | push (Rust), shift and reset (JavaScript) | two implementations of one layout, alignment, empty records, space that comes back only when the queue drains | FIFO with unchanged bytes; a drained queue is reset; views stay intact |
| Core isolate (`core/core_isolate.rs`) | two sets of futures, `have_unpolled_ops`, the shared queue, the overflow response, rejected promises | dispatch_op, poll with its phases, execute | wakeups, ops dispatched in the middle of poll, responses that do not fit, exceptions half way through the queue | no response lost or reordered, no lost wakeup, done only when answered |
| Module loading (`core/modules.rs`, `core/es_isolate.rs`) | module map with aliases, states of the recursive loads, maps of dynamic imports, V8 module status | main load, import(), fetch results, register, instantiate, evaluate | loads that share a map while they are under way, cycles, redirects, errors of every stage, modules that await and fail after their import was resolved | whole graph before linking, one fetch per module, every import settles, each failure told once |
| Web workers (`cli/web_worker.rs`, `cli/ops/worker_host.rs`, `cli/ops/web_worker.rs`, `cli/js/web/workers.ts`) | worker table, two channels, terminate channel and flag, the interrupt, the worker's loop | create, postMessage both ways, close, terminate, get_message, join | two threads ending the same worker at once, joins that block the host's only thread | known to be ended means gone; no spurious error; joins return |
| Timers (`cli/js/web/timers.ts`, `cli/global_timer.rs`, `cli/ops/timers.rs`) | map of ids, tree of due times, list of timers to fire, the alarm and its pending events | setTimeout, setInterval, clear, alarm answered, macrotask | cancelled alarms are answered too, early or late clocks, callbacks that set and clear timers | no timer forgotten, in order, not early, each fires |
| Timer tree (`cli/js/rbtree.ts`) | red-black tree | insert, remove, min, find | one-way repair of the tree | stays red-black and ordered; acts as a set |
| Web server (`rws/main.rs`, `cli/ops/rws_server.rs`, `cli/js/ops/rws_server.ts`) | one channel and one shared sender per server thread, resources, oneshot channels | main_handler, watchRWS, sendRWS, close | handlers share one sender, clients disconnect, the program ends | a waiting client's request is in one place; it is answered |
| Web streams (`cli/js/web/streams`) | state and queue of each stream, requests in flight, promises of reader and writer, the closure of a pipe | write, close, abort; enqueue, read, cancel; pipeTo | promises that settle turns later, errors and aborts while the sink is busy, several reasons to end a pipe at once | sink called one at a time and in order; success means everything was delivered; a pipe ends |
| Control panel (`rws/control_panel.rs`, `control-panel/src/app.js`) | table of sessions, watch channel of changed files | broadcast, receive, connect, disconnect | messages that replace each other, sessions that stop before they are registered | a registered session hears of the newest path; its page reloads; ended sessions leave the table |
| Dispatchers (`cli/js/ops/dispatch_*.ts`, `cli/ops/dispatch_*.rs`) | promise tables, a shared scratch buffer | send sync and async, receive | one scratch buffer for all calls | *planned* |
| Resource table, op registry (`core/resources.rs`, `core/ops.rs`) | id to resource, name to op id | add, get, remove, close; register, unregister | remove before the type test, ids that move | *planned* |
| Permissions, import map, file fetcher, lock file, compiler cache (`cli/*.rs`) | tables, files | query, request, revoke; resolve; fetch, redirect; check, write | stale caches, prefix matches | *planned* |
| Events and other web APIs (`cli/js/web`) | listeners, headers, bodies | dispatch, fetch | mostly parsing | not modelled |
| Everything else | | | formatting, parsing, wrappers of the operating system, tools, pages | not modelled, see `PROJECT.json` |

`PROJECT.json` names every component with its sources and, under `hazards`, each
place where the code is hard to test, with the properties that watch it.


## 2. Plan

Order of work: first what every program runs through (queue, event loop), then
what runs on top of it and is concurrent (modules, workers, timers), then the
server.

1. `OpQueue` (abstract), `SharedQueue`, which implements it. *Done, proved.*
2. `CoreIsolate`, composed with `OpQueue` in place of the buffer. *Done, proved.*
3. `ModuleLoader`. *Done, proved.*
4. `Workers`. *Done, proved.*
5. `Timers` (*done, proved*); `SortedSet` (abstract) and `RBTree`, which implements it. *Done.*
6. `RwsServer`. *Done, proved.*
7. `WritableStream`, `ReadableStream` and `PipeTo`, which composes them; `Delivery`
   (abstract), which it implements. *Done, proved.*
8. `ControlPanel`. *Done, proved.*
9. `Dispatch`: promise ids, tables and the scratch buffer over `CoreIsolate`'s
   promise that each response is handled once, in order per set.
10. `TransformStream` over the two stream modules, with the backpressure it hands from
    one side to the other.
11. `Resources`, `FileFetcher` with `Lockfile`, `ImportMap` and `Permissions`: sequential;
    operators checked against reference definitions.
12. Of the standard library, what is concurrent: `MuxAsyncIterator`, the HTTP server's
    pipelined answers, `BufReader`.

Abstract specifications: `OpQueue`, `SortedSet` and `Delivery` exist. Worth stating next: "a load
is fetch, link, evaluate, settle" for `ModuleLoader`, and "a request is answered
at most once" for `RwsServer`.

Theorems: all safety properties of `SharedQueue`, with its refinement, and of `CoreIsolate`,
`ModuleLoader`, `Workers`, `Timers`, `RwsServer` and `ControlPanel` are proved, and of
`PipeTo` every invariant and that it implements `Delivery`. Next:
`ModuleLoader` and `RwsServer` shown to implement the abstract specifications above, step by step, and
the invariants of `Dispatch`. All modules are written for that: constants with named assumptions, one action per
operation, no recursive operator (recursion is in recursive functions, and the graph of
a module is the least closed set that contains it).

The number of runs is kept small on purpose: one passing run per component, with
its safety and its liveness in the same state space, and a run that TLC finds violated
for the disagreements with the texts that reach furthest.


## 3. The modules and the code

Modules beginning with `MC` only declare model values and give constants their
values for TLC. Definitions under a comment `Mutant:` are not part of the model: they are
plausible mistakes, each of which breaks one property of a run.

**OpQueue** says what Rust and JavaScript get from the shared queue: FIFO,
bounded in records and bytes, with space recycled only when it drains.

**SharedQueue** is the buffer: the counters `numRecords`, `numShiftedOff`, `head`, the
table `meta` and the `bytes`. `Push` is `SharedQueue::push`, `Shift` and `Reset` are those of
`core.js`, with its reset when the last record is taken. `view` remembers the
subarray that `shift` returned, since JavaScript reads it later.

**CoreIsolate** has one action per phase of `CoreIsolate::poll`. `pc` is where poll is:
`"ref"` and `"unref"` are the loops over `pending_ops` and `pending_unref_ops`,
`"queued"`/`"receiving"` the call of `handleAsyncMsgFromRust`, `"microtasks"` what V8 runs when
JavaScript returns, `"overflow"` the call with the response that did not fit,
`"macrotasks"` `drain_macrotasks`, `"end"` the rest of poll. JavaScript
dispatches ops in each phase in which it runs. `ready` is the run queue of a
`FuturesUnordered`: a dispatched future is in it before it was ever polled, with nobody
to wake, which is what `have_unpolled_ops` is for. `outcome` and `woken` are the
executor's view of the isolate.

**ModuleLoader** has, per load, the states of `RecursiveModuleLoad` (with `"preparing"`
for the futures that run before) and the module map all loads share. A program is a
graph with faults and the modules that have an `await` at their top level; `Found` is the
loader's redirect. A step is a future that completes. Instantiation is one step of V8.
Evaluation is as many as V8 takes, since top-level await is enabled (`core_isolate.rs:159`):
`Evaluate` is the call in `mod_evaluate`; V8 enters dependencies (`EnterDependency`, the stack is
`path`), leaves a module when its body has run, or leaves the body until it can go on (`Execute`, `async`,
`waits`), or gives up all it has entered (`EvaluationThrows`). A module whose body was left has the status
`"evaluated"`, with which `mod_evaluate` returns Ok and the import is resolved (`Finish`); the body ends
later, in any microtask that follows (`Fulfilled`, `Rejected`). `promised` are the modules for which
V8 has given `mod_evaluate` a promise, `unhandled` those of them in
`pending_promise_exceptions`, which `mod_evaluate` removes its own from (`AfterEvaluate`) and the poll
reports (`Report`). Rust code and V8 exclude each other (`Quiet`).

**Workers** interleaves the host's thread and the worker's. `host` is where the host is: its
JavaScript or event loop, inside `WebWorkerHandle::terminate` (flag, interrupt and
message are three steps), or blocked in a join. `worker` is where
`run_worker_thread` and `WebWorker::poll` are. Each `expect` and `unreachable!` is an
outcome: `"panicked"`.

**Timers** has the JavaScript state (`idMap`, `dueTree`, `pendingFireTimers`, `globalTimeoutDue`,
`pendingEvents`) and of Rust whether the one op still ticks. `phase`
distinguishes the answers of ops from the macrotasks that fire timers.
The nodes that
are due leave the tree as the one list that has node after node in the order of their due times
(`NodeByNode`). `dueTree` is a function from due times to lists: that the code's tree is such
a function is what **RBTree** and **SortedSet** are about. In `RBTree` an action is one turn
of the loop of `insert` or `remove`. A node is named by the key it holds, so that the code's
replacement of a node's data gives it another name.

**RwsServer** is one thread of the web server with its channel and its
program. `handler` is how far `main_handler` is for a request, `permit` and `waker` are the
sender all handlers share through an `UnsafeCell`. The table holds the server and
the requests the program was given. At this commit the ops are not registered
(`src/cli/worker.rs:271` and `src/cli/ops/mod.rs:17` are comments); the module is
about the code as it is when they are.

**WritableStream** and **ReadableStream** are the abstract operations of `internals.ts` as
operators from records to records: the record is the stream with its controller and its
writer or reader, an operator is the function of (almost) the same name, with every
`assert()` it makes. A failing assert, or a call of an algorithm that was cleared, makes
`asserts` false. A promise that settles is put into `news`, in the order in which its
reactions are queued. `sink` is the algorithm that has been called and has not answered.

**PipeTo** is `readableStreamPipeTo` over the two. `jobs` is the microtask queue; an action
runs one microtask to its end, or lets the source, the sink, the abort signal or
the program act between two microtasks. `pipe` is the closure: `currentWrite` with
`waitsOn` for `waitForWritesToFinish`, `action` and `parts` for the shutdown action and the
promises it waits for, `lock` and `outcome` for what `finalize` does. A chain of `then`s
takes a turn of the queue for every link, and which of two chains is shorter decides, for
instance, whether the last chunk is written before the closed source shuts the pipe
down; so a job carries the turns still to come (`hops`). **Delivery** says what all this is
for: the sink gets what the source offers in order, nothing once the pipe has settled or
the sink was told to close, and a success leaves nothing over. The pipe's `Shutdown` finalizes twice, as
the code does.

**ControlPanel** has the file watcher's thread, the watch channel (`channel`, `unseen`), the
`ReloadServer` actor with its `mailbox` and its table `sessions`, and per connection a
`WebSocketSession`: `"waiting"` while `started()` awaits the answer to `Connect`, `"open"`,
`"stopped"`. A message reloads the page only while the page is still on that session. A session's `id` is `Unanswered` (the 0 of
`index_ws`) until the answer arrives, and `stopping()` sends whatever it is then: the
drop of a connection stops the actor also while it waits. A change of the files is
numbered, and stands for the path it is reported with.


## 4. The runs

| Run | Question | Bounds | States |
|---|---|---|---|
| `shared_queue` | Is the buffer the queue of `OpQueue`, with an intact layout? | 3 slots, 14 bytes, records of 0, 1, 4 and 5 bytes, 2 ops, 2 byte values | 201 000 |
| `core_isolate` | Does the event loop lose, reorder or forget an op, sleep on one, or finish without it, with a response that does not fit, exceptions and rejections? | 4 ops (1 unref), 4 slots, 12 bytes, one response of 16, 1 exception, 1 rejection | 135 000 |
| `core_isolate_both_overflow` | *violation*: overflow in both sets | 3 ops, 1 slot | |
| `module_loader` | Do loads complete and fetch once, with concurrent imports and faults? What does a resolved import mean, who is told of a failure, and does every import settle? | 5 specifiers, 3 graphs, one fault, no, one or two modules that await, 3 loads of which 2 at once | 120 000 |
| `workers` | Does a worker end properly, from either side, at any moment? | 2 posts, 2 events of the worker, close also in its script | 32 000 |
| `timers` | Does each timer fire, in order, and is the alarm right? | 2 timeouts, 1 interval, delays -1, 2 and 8 of a 4-bit integer, time up to 3 | 262 000 |
| `timers_splice` | *violation*: a timer about to fire is cleared | the same, time up to 2 | |
| `rbtree` | Does the tree stay a red-black search tree, and act as a set? | 7 keys | 47 000 |
| `rws_server` | Is a request ever lost, is it answered? | 3 requests, a channel of 1 | 23 000 |
| `pipe` | Does a pipe call its sink properly, deliver what it reports, and end? | 2 chunks and one write of the program, both high water marks 1, with and without preventClose | 548 000 |
| `pipe_shutdown` | *violation*: a source errors under preventAbort | the same, all three prevent options, a passive program | |
| `control_panel` | Does every registered page hear of a change, and every ended session leave? | 3 changes, 2 pages of which one connects twice | 267 000 |

Why the bounds are enough:

* *Shared queue.* Lengths 0, 1, 4, 5 are both sides of the alignment; with 14 bytes (not a
  multiple of four) either limit can be met first; three slots have a first, a middle and a last.
  The proofs remove the bounds.
* *Core isolate.* Three ops of the set that keeps the loop alive and one of the other:
  each set has an op being polled while another is dispatched or completes, and the
  response that overflows does so in front of, between and behind others of its
  set. One exception can fall in every phase.
* *Module loader.* The graphs contain a chain, a diamond, a cycle, self-imports and a
  redirect that meets its target. `MaxConcurrent` is two: what a load sees of others is
  their union in the module map. The modules that await are the root of an import, its end, or
  both, within the cycle and outside of it; they can fail before their import is settled and after
  it, while another import is evaluated.
* *Workers.* A second post finds the loop idle; two events are one message and one error.
  `ClosesEarly` is set: the script may call `close()` while it is evaluated.
* *Timers.* Three timers are two with one due time and a third before or behind.
  `MaxTime` bounds the clock and with it the delays a program may still ask for;
  when the clock stops, what was set is due, so liveness is not vacuous.
* *Tree.* Seven keys make trees of three full levels, and deeper ones by
  removing; every branch of both repairs is taken.
* *Server.* With a channel of one, the second request waits for space and the third
  meets a waiter.
* *Pipe.* With high water marks of one, the second chunk meets backpressure while the first is
  in flight, in the queue of either stream; the pipe's last write can follow one the
  program queued before. The checks also pass with both marks at 2. Every one of error,
  close, abort, cancel and signal may come between any two turns, in every order.
* *Control panel.* Three changes are one before a session is registered, one that replaces
  another in the channel and one behind; the page that connects twice has two sessions in
  the table at once, with a third of the other page.

Deadlock is checked in `shared_queue` and `rbtree`. Elsewhere the system
really stops: all ops answered, all loads settled, the worker gone, no timer
left, the program ended.

### Fairness

Liveness is stated under what the scheduler does and nothing more.

* `CoreIsolate`: the executor polls a task that was woken, poll runs to its end,
  and callbacks return. *Nothing* makes an op complete; `Answered` speaks of ops
  that did.
* `ModuleLoader`: a fetch comes back, with a module or an error, and the isolate is
  polled then; V8 goes on while it has something to run. *Nothing* makes what a module awaits
  happen, so that `ImportsSettle` says that no import waits for it.
* `Workers`: both threads run. JavaScript of the worker ends only if it was
  interrupted, so `JoinReturns` holds for a worker that loops forever;
  `MessageHandled` assumes in the property itself (`JavaScriptReturns`) that callbacks return.
* `Timers`: time passes, the Rust timer completes (perhaps early or late by JavaScript's
  clock), the event loop handles answers and runs macrotasks.
* `RBTree`: a loop that has been entered goes on.
* `RwsServer`: what was woken is polled, and the program answers the requests it holds.
  A handler that waits for space is *not* treated fairly: it runs again only when woken.

* `PipeTo`: microtasks run until none is left, and the sink's algorithms and the source's
  cancel answer, with success or failure. Nothing obliges the source to enqueue or to
  close. `Spec` writes these weak fairness conditions out, with the guard of the
  action in place of `ENABLED` and what only that action does in place of the action: the
  meaning is the same, and TLC evaluates it a thousand times faster.
* `ControlPanel`: the actors handle their mail, the task receives from the channel,
  a broken connection is noticed. Files change and pages come and go as they like.

All of it is weak fairness.


## 5. Where the code and its texts disagree

Three disagreements are runs that TLC finds violated:

* **Two overflowing responses** (`core_isolate_both_overflow`, `core_isolate.rs:421`). A response of
  each set that does not fit in the same poll: the second assignment of
  `overflow_response` drops the first, whose promise never settles.
* **A pipe that prevents abort or cancel** (`pipe_shutdown`, `internals.ts:1055`): `shutdown()` registers
  `finalize` for when the writes are finished and then calls it at once all the same. The pipe settles
  with writes under way, and the second `finalize` fails the assert of
  `writableStreamDefaultWriterRelease`, "which shouldn't happen" (`internals.ts:1324`). With either
  option `SinkProtocol` and `Backpressure` still hold; `SettledIsOver` and `Delivers` do not: chunks
  reach the sink after the pipe has settled.
* **Clearing a timer that is about to fire** (`timers_splice`, `timers.ts:131`): `splice(index)`
  drops the timers behind it too.

Further ones are visible in the models but have no run of their own:

* Two concurrent imports of one chain (`es_isolate.rs:515`): a load does not follow a module
  that another load registered, also when the other one still fetches that module's
  imports, so the first is linked without them. `CompleteOrShared` says, and
  `IncompleteOnlyIfShared` proves, that this is the only way for a load to be incomplete.
* `terminate()` of a worker whose thread has ended (`web_worker.rs:63`): "this call should be
  infallible", but the receiver is gone; the host panics (state `"panicked"` after `"send"`).
* An overflow ends the loop over `pending_ops` with other woken futures unpolled and
  `have_unpolled_ops` cleared (`core_isolate.rs:402`): nothing asks for the next poll.
  `NoLostWakeup` and `Answered` leave executions aside in which a response overflowed.
* A handler that throws ends the poll before the response that overflowed is handed over
  (`core_isolate.rs:432`), which drops it: `Undisturbed` is the condition that this does not
  meet. It also leaves responses in the shared queue while microtasks dispatch ops, against the
  `debug_assert_eq!` of `core_isolate.rs:501`. `OnlyOverflowLoses` proves that these two, this
one and the two overflowing responses above, are the only ways to lose a response.
* An import that cannot be instantiated, or whose module failed before, returns an
  error from poll (`es_isolate.rs:438`) instead of rejecting the promise.
* An import of a module that awaits is resolved before the module has finished
  (`es_isolate.rs:265`, `352`): `OkMeansEvaluated` says how much of its graph has run by then. When the
  module fails afterwards the isolate ends; the import() cannot be rejected any more.
* `mod_evaluate` has a promise of V8's only for a module that it asked V8 to evaluate
  (`es_isolate.rs:223`). An import of `a` evaluates `b`, which awaits, and fails because of `c`; an import
  of `b` then finds it evaluated and is resolved; when `b` fails after its await, its dependent
  `a` has failed already, and no promise is rejected that anyone sees. The comment says that a
  failing evaluation is reported by the next poll (227-231). Where V8 has given a promise
  (`m \in promised`), that is so: `LateFailureReported`, a part of `FailureToldOnce`.
* `terminate()` or `postMessage()` between the removal of the worker from the table and the event
  that tells JavaScript (`worker_host.rs:243`, `310`, `362`) panics: no handle is found.
* A script that calls `close()` and then fails panics on its closed channel
  (`worker_host.rs:152`), and the join of the host with it (`338`).
* `setGlobalTimeout` asserts `timeout >= 0` (`timers.ts:57`), but clearing the first timer after the
  next one became due calls it with a negative one (`timers.ts:150`); the
  rejection ends the isolate (`rejected`).
* A delay below -2^31 wraps around to a positive one (`timers.ts:222`, against the comment at 210).
* `sendRWS` to a client that has disconnected panics (`rws_server.rs:177`).
* Without the ops in the build, requests wait forever: the channel outlives the program.
* With preventClose a source that closes ends nothing (`internals.ts:1117`): the pipe never
  settles and both streams stay locked. `MustEnd` leaves that case out.
* `pipeTo` with a signal that has aborted already (`internals.ts:953`) reaches `currentWrite` before
  its declaration, and throws with both streams locked.
* A write while the close of the stream is in flight finds the size algorithm cleared
  (`internals.ts:1993`), which errors the stream that is closing.
* `readableStreamDefaultControllerHasBackpressure` (`internals.ts:799`) returns what
  `ShouldCallPull` returns instead of its opposite, which transform streams rely on.
* `writer.close()` of a closing stream makes a rejected promise and goes on (`writable_stream_default_writer.ts:124`,
  with no `return`), as `abort()` and `write()` of a released writer do.
* A session that stops before it is answered disconnects as 0 (`control_panel.rs:166`) and stays in
  the table; `GhostsWereUnanswered` says that these are the only ones. A change between a page's load and its
  registration is not reported to it.
* Two handlers that wait for space lose a wakeup (`main.rs:334`); `Served` is
  stated for executions in which no two wait at once.


## 6. What is proved

`ChannelProofs` holds the proofs of the two channels between Rust threads and JavaScript, `SharedQueue`
and `Workers`; what both modules would call alike carries the prefix `Workers` in the second. Of
`SharedQueue` it proves, for every number of slots, every capacity, all op ids and
all records (`SharedQueueAssumption`, which asks that slots and capacity are natural
numbers and records are sequences of bytes):

* `TypeCorrect`, `BufferStaysIntact`, `DrainedIsReset`: the
  invariants of the run `shared_queue`, and that a drained queue is reset, from the inductive invariant
  `Inv == TypeOK /\ Layout /\ EmptyIsReset /\ ViewBelowHead`. None of the parts is inductive alone:
  that `head` stays inside the buffer needs the end of the last record, a shifted
  offset stays below the head because of `Layout`, and a push over an empty
  queue leaves no stale slot because the queue was reset. There is one lemma per action
  (`PushInv`, `ShiftInv`, `ResetInv`), on top of facts about `Align`.
* `Refinement`: `Spec => IsOpQueue`. Under the refinement mapping (the pending records as
  pairs of op id and bytes, `head - HeadInit` as the used bytes) each action is one of
  `OpQueue`. The heart is `RecordKept` and `RecordPushed`: a push writes above all records
  that are still to be read, so that their contents stay, and the offset JavaScript
  recomputes from the previous end is the one Rust wrote at. `CoreIsolate` uses `OpQueue`, so what
  is checked there does not depend on the layout.

`ModuleLoaderProofs` proves the five invariants of the run `module_loader` and its type invariant, for every set
of specifiers, every program with any number of faults and of modules that await, every idempotent redirect
and any number of concurrent loads (`ModuleLoaderAssumption`). The inductive invariant `Inv`
adds to them what the code relies on without saying so. It has two parts: `LoadInv` speaks of the
loads and holds whatever V8 does (`KeptLoads`), `EvalInv` of the evaluation and holds whatever the
loads do (`LoadingEval`).

* `FetchesOnce` and `NotDrained` rest on `RootFirst` (a load asks for nothing before its
  root came) and `Asked` (what was fetched is in `is_pending` or registered, so that it is
  not asked for again; this is where an alias must lead to a registered module).
* `IncompleteOnlyIfShared` rests on `Arrived` (what a load asked for is under way or
  registered) and `Covered`: an import of *any* registered module is registered or
  fetched by *some* load, unless a load has failed. When no other load is fetching and
  none failed, the registered modules are closed under imports and contain the root, so
  they contain its graph (`ReachLeast`).
* `SuccessIsEvaluated` rests on `GraphSettled`: with a module its whole graph is evaluated, or failed
  late and awaits something. The step that has to establish it is the one with which V8 leaves a cycle
  (`ExecuteInv`). What the cycle's modules depend on has been left before (`LeftDone`) or is
  evaluated, so that this set is closed under dependencies and contains the graph; and when V8 gives up,
  all it has entered is in `"evaluating"`, which no evaluated graph contains. `AsyncOnly` says that a
  body is left only in a graph that awaits.
* `FailureGivenOnce` rests on `OneEvaluation`: V8 evaluates for one load at a time,
  and no resolved import has the same root, so that the promise `mod_evaluate` takes out of the table is
  not the one of another import; and on `PromisedHeld`: a module V8 was asked for that has not
  failed belongs to a load that was resolved or is about to be.

`ControlPanelProofs` proves the two invariants of the run `control_panel` and the type
invariant, for every set of pages, any number of connections and any number of changes
(`BoundsAssumption`). Neither invariant is inductive; `Inv` adds:

* `Newer` and `Received`: what the channel offers is newer than what was received, so the
  path appended to an inbox is above all in it. The empty path of the start is the one
  exception, and then every inbox is empty.
* `Alive`: the session of a page that has not left is waiting or open, so `Receive` does not
  skip it.
* `Asked`: a session has at most one `Connect` in the mailbox, and until that is handled its
  inbox is empty, it is not in the table and its id is 0. So a session that joins late joins
  with nothing to miss, and one that stopped first is registered as the ghost
  `GhostsWereUnanswered` describes.
* `Fresh` and `OwnId`: a page's next session has no past, and a `Disconnect` names the session
  that sent it or nobody.


`CoreIsolateProofs` is about any set of ops, any sizes of responses and of the shared queue,
and any number of exceptions and rejected promises. The inductive invariant relates the two sets
of futures to what was returned (`Futures`), the phase of poll to what may be left in the
queue and in `overflow_response` (`Phases`), and the places of a response to each other (`Once`).

* `WakeupIsKept` rests on `Waking`: a future that may go on is either polled later in this
  poll, or the executor was woken, or `have_unpolled_ops` is set. None of the three is enough alone.
* `HandledAtMostOnce` and `OnlyOverflowLoses` hold whatever overflows and throws. The second one
  is an action property: a step that loses a response loses the one that did not fit, when a
  handler threw or when another one does not fit in the loop over the unreferenced ops.
* `NothingIsLost`, `HandledInOrder` and `DoneIsAnswered` are theorems of `Spec /\ [][OneOverflow]_vars`:
  the run `core_isolate_both_overflow` shows that they are false when a response of each set
  overflows in one poll, and `OneOverflow` excludes exactly the step that replaces one. In the run
  `core_isolate` it holds because one op of four has a response of that size. Their invariant is
  `InOrder`: of two responses of a set, the later is not handed over, nor in front in
  the queue, before the earlier.

Of `Workers`, `ChannelProofs` proves the three invariants of the run `workers` for any number of
messages and events (`WorkersTypeCorrect` bounds what the channels hold). `InboxStaysOpen` is the hard one: the worker looks at its flag and then at its inbox,
while `close()`, `terminate()` and the host's reaping change both. `ByItself` says that a
worker still in the table was terminated by itself or not at all, `InboxClosed` that the
inbox is closed only behind a worker that will not look at it again.
`TerminatedIsReaped` rests on `HostParts` (who has left the table) and `Events` (the last event
is sent when the thread is gone), `TerminationIsNoError` on `FlagFirst`.

`RwsServerProofs` proves both invariants of the run `rws_server`, for every finite set of requests and
every capacity, with and without disconnecting clients.

* `WaitsInOnePlace`: `Channel` and `Table` say that a request is at most once in either, and
  not in both, `Placed` that it is in one.
* `IdsStayFresh`: an id is never used for another resource, so that an answer given late
  cannot reach another client. It rests on `Numbered`: ids are given out in order, to the server and to
  requests that have left the channel, which are never more than ids.
* `ChannelIsBounded`: the handlers share one permit through an `UnsafeCell`, and yet the channel
  never holds more than its capacity; space is promised (`permit`) before it is taken.

`TimersProofs` proves the three invariants of the run `timers`, for every set of timers, all
delays, every width of integers, and a clock that goes on at any pace.

* `Tree` ties the three places together in which a timer is known: the flag `scheduled`, the
  list of its due time, once, and `idMap`. `Firing` says that a timer about to fire is not in the tree and
  not due after any in it, from which `TimersFireInOrder` follows for lists that grow behind.
* `AlarmWaitsForFirst` is part of the invariant: inserting, clearing, an answer and firing each
  restore it in another way.
* `NoneForgotten` assumes that programs do not clear timers about to fire (`ClearsFiring`); `timers_splice`
  shows that it is false otherwise. `OnlyClearingForgets` says without that assumption
  how far the damage goes: a timer is dropped only by the clearing of one before it in that list.

`PipeToProofs` proves every invariant of `PipeTo`, for any chunks, both high water marks and
every program. It has three invariants, each on top of the one before.

* `Inv` is about the streams, with every set of prevent options: `WInv` and `RInv` hold of every
  record an operator of `WritableStream` or `ReadableStream` returns, one lemma for each. `PipeTo`
  adds only that both streams are locked exactly while a pipe is under way (`Locks`), so that every
  turn of JavaScript keeps the invariant (`Good`), whichever microtask it runs.
  `SettledLetsGo`: a pipe that has settled, in whatever way, has let go of both streams.
  `SinkProtocolHolds`: the sink is called while no call is unanswered, since `Sink` ties what it is
  at work on to what is in flight; and after close or abort never again, since both clear the
  algorithms (`Called`). That the algorithms are there whenever one is called is the other half
  (`Callable`). `StreamAssertsHold`: every assert about the state of a stream. The hard part is the
  queue (`Queued`): one entry for the write in flight, one for each request, then the sentinel;
  without it, the requests might run out before the chunks do. `Waits` is what ends of backpressure
  need. With `pipe_shutdown` this says how far the double `finalize` goes: the asserts it fails are
  those about a reader or writer that has been released, and no stream is left inconsistent.
* `LoopInv` is about the loop, with every set of prevent options, and gives `BackpressureHolds`. The
  loop is in one place (`Places`): a microtask, a read that waits for the source, or a wait for
  `writer.ready`. `ready` tells what the queue says (`Level`), and where the loop has found room and
  not written yet there is still room (`Holds`), because the only other one to write is the program, and it has no
  writer while the pipe has one. What is told of either stream is so (`Told`; `Serves`: a read is
  answered once, and a stream that ends says so after its last chunk or before, never twice). The
  news of one operation are heard one after the other by a recursive function; `DestFold` and
  `SourceFold` give its steps, and `Upto` is the induction over them.
* `PlanInv` is about the end of the pipe, without preventAbort and preventCancel, and gives
  `NoAssertionFailsHolds` and `SettledIsOverHolds`. The end, too, is in one place (`Plan`): a
  microtask of `EndKinds`, a write that is waited for, or the promises of the shutdown action; it
  comes after each use of the reader and the writer (`Behind`), so that `finalize` runs once and
  nothing uses a released lock. Why the pipe ends is true and stays true (`Facts`), and once
  the action has begun both streams have ended (`Gone` implies `Past`).
  `PipeOptions \subseteq SUBSET {"preventClose"}` is the hypothesis of both theorems, since
  section 5's `shutdown` breaks what they state.

`DeliveryProofs` proves `DeliversHolds`: under the same hypothesis `PipeTo` implements `Delivery`,
step by step. The pipe is lossless and in order although each chunk crosses two queues, a read
request and a microtask, any of which an error, an abort or a close may cut off. Four counts
say where the chunks are: of the `m` chunks enqueued, `p` have been read, `n` written and `a` handed
to the sink, with a ≤ n ≤ p ≤ m.

* `Order`: the sink was called with the first `a` chunks, and its queue holds those up to `n` (`Waiting`),
  among whatever the program writes. `Supply`: the source's queue holds those after `p` up to
  `m`, as long as it has not been cancelled or failed.
* `Knows` and `Runs` say of each microtask, and of the closure, what they may rely on:
  a chunk that was read and not written is in a job, and it is the next one (`Pending`: without such a
  job p = n); a promise the pipe waits for is that of the last write; a shutdown that
  waits for the writes to finish does so with everything read already written. `Shut`: a sink that
  takes nothing more was closed by the program, or by a pipe that has nothing more to pass.
* `FlowInv` is `PlanInv` with some such counts. Each operation of a stream has a lemma that says what
  it does to them (`Drift` and `Passes` for the sink, of which only one call moves on by a chunk;
  `Ebbs` and `Lasts` for the source), and each job of the pipe one that says it keeps `Flow`, while the
  pipe passes chunks or shuts down (`Halts`, `Stops`).
* `NextTurns`: each step of `PipeTo` is a `Passage` (the sink is called with the next chunk, or
  not), a `Settlement`, an `Offering` or a `Withdrawal`. `TurnDelivers` makes each of these a step of
  `Delivery` or a stutter. `Succeed` is the hard one: a pipe that is fulfilled has a = m, since the source
  had closed with its queue empty, everything read was written, and the sink had been handed all
  that was written before its close was.

The assumptions are that high water marks are numbers (`MarksAssumption`) and that the pipe's chunks are a sequence
without repetition, of which none is the program's nor one of the marks the streams keep next to chunks
(`ChunksAssumption`). They are distinct because a chunk also names the promise of its write.

## 7. What is only model-checked, and what is left out

Liveness (every leads-to property) and `ENABLED` are out of the prover's reach, and so is
induction over recursive definitions; those stay with TLC, on the
instances above. So `RedBlack` and `IsSortedSet` stay with it, which compare paths through a tree.

Abstractions that a reader should know:

* `CoreIsolate`: synchronous ops, snapshots and buffers are left out. A
  `FuturesUnordered` yields after 32 polls; the model lets it finish. Handlers
  do not dispatch ops themselves but through the promises they settle, as
  `dispatch_json.ts` and `dispatch_minimal.ts` do. The embedder runs no script
  while the isolate is due to be polled.
* `ModuleLoader`: fetches, linking and evaluation are external. `Found` is idempotent, and a redirected
  name is not a module as well. Of evaluation the model has what statuses and promises depend on:
  V8's way through the graph, in any order of a module's imports, and when bodies end. An evaluated
  cycle counts as one module for those that depend on it, as the proposal for top-level await
  has it. A module that awaits does so once, before it can throw, and does not catch what it awaits; an
  `import()` that is evaluated handles its rejection. A module's own calls of `import()` happen after
  its evaluation, which is the same for the loads, since those begin with the next poll.
* `Workers`: one worker, its host the main isolate, so that a panic ends the
  process. Creation blocks the host and is the initial state. A clone of a channel's sender may
  always send once, which is what every send of the code relies on. The script of a worker does not
  go on after `close()`; in the code it may, when the host has set the flag first, and a later
  `postMessage` of the same script would then meet the closed channel (`ops/web_worker.rs:86`).
  Relaxed atomics are taken as sequentially consistent.
* `Timers`: ids are handed out once and do not wrap; the clock does not go back. In `timers`, programs
  do not clear timers that are about to fire (`ClearsFiring`), since section 5's
  `splice` would break the property for them; `timers_splice` is the run with it.
* Streams: chunks have size one (the default size algorithm). The source and the sink answer in a
  later turn than the one that calls them, and do not call back into the stream while they
  are being called. Reactions of the program's own
  change nothing the pipe sees and are not queued as jobs. `preventAbort` and `preventCancel` are in the
  violation run only, since section 5's `shutdown` breaks the properties for them.
* `ControlPanel`: session ids do not collide; what a page sends, and the files it is
  served, are left out. A page reloads when the message arrives: closing the connection
  and connecting again are two steps.
* `RBTree`: the comparator is the order of numbers.
* `RwsServer`: one thread and one iterator of `watchRWS`; the worker's drop and the
  end of its program are one step.

Not modelled at all, with reasons, are the components that `PROJECT.json` lists as
`not_modelled`: what converts or formats values, what wraps one call of the
operating system, what belongs to V8 or the TypeScript compiler, the vendored and
generated code, and, for now, what section 2 plans for later. Most lines of the
repository are of that kind: two thirds are the React, Carbon and Recoil bundles under
`control-panel/src/libs`, so the modelled share of all lines stays small whatever is modelled of
the rest.
