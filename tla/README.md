# Verification of eieio

eieio runs *services*: graphs of WebAssembly *blocks* that hand each other batches of signals.
The daemon (`crates/daemon`) hosts services on a node and is administered over HTTP; the leaf
runtime (`crates/leaf`) runs one graph on a microcontroller; `crates/host-core` is what both
share; `crates/expr` is the language of block properties; `crates/service` reads and edits service
files; the Designer (`crates/designer`, `designer/`) is their editor. This directory holds TLA+
specifications of these parts, the TLC configurations that check them on small instances, and TLAPS
proofs of results for every value of the constants. Every definition is a translation of code;
`PROJECT.json` names, for each one, the file and lines it stands for.

Paths below are relative to the repository; `router.rs` alone means `crates/daemon/src/router.rs`.

## 1. Inventory

### Parts modelled

**Router of a service** (`router.rs`, `host-core/src/router.rs`). State: the resolved connection
table, one bounded mailbox per instance, and per instance an `Outlet` with one slot per
drop-oldest connection. Operations: `Outlet::flush`, `route`, `deliver`; `Service::spawn`,
`stop`, `join`, `restart`. Instances meet only at mailboxes, which are Tokio channels with a
FIFO line of waiting senders. Hard: a full mailbox makes one connection wait and another hold,
cycles of waiting instances, receivers that die while senders wait, a service that fails halfway
up. Correct when: nothing accepted is lost, doubled or reordered on a waiting connection; a
drop-oldest connection loses only its own older batches; every loss has its proper reason; no
wakeup is lost; no instance waits on itself; spawn and retire return, or wait for a reason that can be
named, and leave nothing running.

**Instance loop** (`instance.rs`, `executor.rs`). State: where the thread is, the emissions of
the last callback. Operations: start, one batch, one timer, stop; each runs a callback that may
emit and may trap, and routes what it emitted before it takes the next item. The subscriber is a
loop of its own that selects between its mailbox and the bridge. Hard: a trap after an emission,
a start that fails or that nobody waits for any more, a queue that outlives its reader.

**Timers of the daemon** (`timer.rs`, `host-core/src/timer.rs`). State: a map from id to the task
that waits, and the next id. Operations: `set`, `cancel`, fire, `cancel_all`. Hard: timers live on
the instance's own thread and run where its task is suspended; an id wraps; a mailbox is full when
a timer fires; a tick is in the mailbox when its timer is cancelled. Correct when: what is armed is
exactly what will fire, a cancelled one-shot never fires, and nothing fires after the end.

**Guest lifecycle and host functions** (`host-core/src/instance.rs`, `core_fns.rs`, `budget.rs`).
State: the typestate of the guest, the emissions since the last drain and the bytes
charged for them. Operations: `configure`, `start`, the callbacks, `stop`; `emit`, `timer_set`,
`timer_cancel`, the state calls. Hard: a refusal in the middle, a budget at its limit. Correct when:
every life that began is closed once.

**Services API and service lifecycle** (`api/services.rs`, `boot.rs`). State: definition files,
the map `Services` behind one async mutex, the running graphs. Operations: PUT, GET, list,
start, stop, reload, delete; boot. Hard: check-then-write under optimistic concurrency (ETag and
`If-Match`), handlers suspended at an await while they hold the lock, clients that disconnect in
the middle, files edited behind the daemon, writes that fail, crash and reboot. Correct when: no
definition is overwritten by a client that has not named it, a running service is not deleted,
the map is a view of the files, no graph is orphaned, only `start` overrides `autostart`, and nothing
but a spawn or retire that never returns keeps a request from its answer.

**Node startup and shutdown** (`lib.rs`). `run_node` boots every service, serves the API until a
signal, lets open responses end, then stops and joins every service. Hard: what a shutdown waits
for. Correct when: it waits for clients of streams, and for spawns and retires, and for nothing else.

**State store** (`state.rs`, `api/state.rs`, `host-core/src/state.rs`). State: a redb database with
one namespace per instance. Operations: begin, commit and abort of a write, get; the endpoint that
lists and reclaims orphaned namespaces. Hard: two graphs of one service overlap during a reload; a
kill at any step; a namespace reclaimed while its instance runs, or while its file cannot be
parsed; the one write lock, which the reactor waits for. Correct when: no committed write is lost or
doubled, only orphans are reclaimed, and the reactor goes on.

**Block cache and registry client** (`blocks.rs`, `registry.rs`, `api/blocks.rs`). State: a
directory of cached entries, each read unchecked for ever after. Operations: read, pull (manifest,
signature in one of two places, token, blob), store through a temporary and a rename. Hard: tasks
on blocking threads and a task on the reactor pull one entry at the same time; a registry that
answers differently from one request to the next; a kill during a store. Correct when: an entry has
passed the node's policy, and is whole.

**Bridge and pub/sub** (`bridge.rs`, `pubsub.rs`). State: the ranked candidates and the pin, the
shared client, the recorded topics with their senders, the client's request channel; or, within one process, a
broker with the senders of each topic and a count of losses. Operations: the walk over candidates, drive and
dispatch, `publish`, `subscribe`; the parsing of a candidate and the topic of a system block. Hard: reconnects in the middle
of a subscribe, a full request channel, a pin that names nobody. Correct when: batches come
at most once and in order, a recorded topic is subscribed on every connection, and the walk settles.

**Observation bus, taps, logs, streams** (`observe.rs`, `api/taps.rs`,
`api/logs.rs`, `api/sse.rs`). State: per-instance event channels, a broadcast ring, the tap registry.
Operations: report, drain, publish, write a log line; create and delete a tap; open, read and leave a
stream. Hard: readers slower than the ring, publishers that look for readers before they send.
Correct when: a reader gets every observation that is its to see, once and in order, or a notice
of exactly how many it missed.

**Leaf timers and state file** (`crates/leaf/src/timer.rs`, `lib.rs`,
`crates/leaf/src/state.rs`). State: armed timers with due times, the next id, the entries in memory,
the file and its temporary. Operations: pump, set, cancel; put, delete, flush. Hard: a pump that is
late by many periods, host calls in the middle of a pump, due times past the end of the clock, a kill
or a failed write anywhere. Correct when: a timer fires once per pump, a pump ends, an acknowledged
mutation survives.

**Service files and their wiring** (`crates/service`; `Routes::resolve` in `host-core/src/router.rs`;
`boot.rs`; `leaf/src/graph.rs`). State: a definition. Operations: the eleven kinds of edit with what
each is refused for, both stages of the validation, the resolution of names into the table a router
reads. Hard: three pieces of code judge one list of connections, each in a vocabulary of its own.
Correct when: an edit that is not refused leaves a definition that passes, and a file passes exactly
when the router takes its connections.

**Admission of blocks** (`crates/manifest`: `check.rs`, `abi.rs`; `instance.rs`, `leaf/src/lib.rs`,
`leaf-gen`). No state. Operations: the loader's checks of a module and its manifest, what a host
refuses besides, the host functions it registers. Hard: names of functions are spelled in three
places. Correct when: whatever a loaded block imports has been registered.

**Engines and the reading of modules** (`engine.rs`, `leaf/src/wasm3.rs`, `crates/wamr-host`,
`conformance/src/reference.rs`; `manifest/src/module.rs`, `portable.rs`). State: the functions linked and the
handlers registered, a guest's fuel and deadline, the directory of compiled modules. Operations: define the
host functions, register and dispatch, call into a guest, arm a budget, compile, instantiate and drop; walk the
sections of a module. Hard: one table written four times, deadlines counted in ticks that come when
they come, a refusal after half the handles exist, artifacts that are torn or somebody else's, a walk that
stops at what it cannot read. Correct when: a call reaches the handler of its name, no entry pays for
another, nothing is left behind, the cache cannot be noticed, and what the portable subset bars does not pass.

**Guest memory and the SDK** (`host-core/src/memory.rs`; `crates/block-sdk`, `block-sdk-macros`,
`abi/src/status.rs`). State: the buffer a guest keeps for properties, the statics of a configured block.
Operations: filling a buffer the guest offers, delivering a payload, accepting an emission, `rand`;
decoding the answers by three conventions, the read loop, allocation, the exports. Hard: u32 lengths and
addresses, i32 answers, sums that saturate, a loop without a bound, one number with three meanings.
Correct when: one number tells the guest whether it has the payload, and how much to offer if not; the
loop ends; both sides hear the same.

**Blocks from source to module** (`crates/block-sdk-macros`, `manifest/src/name.rs`, `validate.rs`, `schema.rs`;
`cargo-eio/src/build.rs`, `check.rs`; `host-core/src/descriptor.rs`; `crates/test-host`). State: only the recorder of the test host. Operations:
what `#[block]` and `#[prop]` take, refuse and expand to, build and check, the descriptor and its reading, the
wrappers of capabilities against a recorder. Hard: one manifest is judged by the macro, by the build and by the node, each by
rules of its own; a port has a name, a variant, a handle and a number. Correct when: what the macro lets through fails later
for its version or defaults only, the numbers are one, and the recorder answers as a host would.

**Publishing and references** (`crates/cargo-eio`: `publish.rs`, `oci.rs`; `registry.rs`, `blocks.rs`, `api/blocks.rs`,
`api/available.rs`). State: what a registry holds. Operations: write a reference in its forms and read it, push blobs, manifest
and signature, answer a challenge, list tags. Hard: a reference is cut by three parsers; a publisher and a node that
never meet agree on media types, tags and base URLs. Correct when: each reading of one text agrees, what was published is
reached, and nothing is announced before what it names.

**Designer** (`designer/src/App.svelte`, `designer/src/lib`, `crates/designer/src/api/service_edit.rs`). State: the
text on the canvas, the queue of edits, the banner, loads under way. Operations: canvas edits, each
a transform by the stateless edit service, a PUT under the tag of the text shown, and a reload;
select, lifecycle calls, sign-out. Hard: every step awaits an answer, and the canvas is read again
after the first. Correct when: no text nobody saw is overwritten, a tab's own edits do not race,
every edit is answered.

**Expression language and block properties** (`crates/expr`, `host-core/src/prop.rs`). State: the
compiled properties of an instance, the cache of a callback. Operations: parse, analyze, evaluate;
resolve against the manifest, fold what does not read the signal, ask. Hard: two walks over one
tree with scopes and depth budgets of their own; a cache keyed by property and signal; numbers of two
kinds that compare with each other, where several integers share a float. Correct when: what the
analysis lets pass does not fail for its form, every answer is that of a fresh evaluation, and the
builtins on numbers answer what mathematics does or fail.

**Signals and batches** (`crates/signal`, `host-core/src/budget.rs`). No state. Operations: encode, measure
without encoding, decode under a bound on depth. Hard: a decoder that must refuse whatever an encoder would
not have written, on hosts of two word sizes; one bound on what expressions build and on what is read.
Correct when: an accepted input is encoded back to itself, every value within the bound is read, the length is
exact or the largest there is, and a host reads what its expressions build.

**Conformance suite** (`crates/conformance`). State: where the walk is, the ledger of what a host did to the memory of a
guest, the answers a scenario scripted. Operations: run a scenario, check a step and the end, refuse, sum up. Hard:
a suite that is silently satisfied - by steps that are skipped, a refusal for another reason, a script nobody asks
for. Correct when: what passes was observed, what is skipped is a gap of the host, what fails is a fault.

**The node around its services** (`node.rs`, `lib.rs`, `main.rs`, `run.rs`, `api.rs`, `api/auth.rs`, `api/error.rs`).
State: the data directory. Operations: provision it and read it at a start; route a request, refuse it, answer it;
`dev run-block`, which drives one block without a node. Hard: files that are written once and kept for ever, by a process
that may be killed between any two and in the middle of each. Correct when: what a start made of the directory is what every
later one makes of it, and only the document is served without this node's token.

**Command line and its tools** (`crates/cli`). State: the file of nodes and the service files of a directory. Operations: add,
remove, import and choose nodes; a request per endpoint, a command and a tool per request; push under a tag; read a stream;
create, edit and validate a service file. Hard: a push is two requests, a stream is cut anywhere, a file is half checked.
Correct when: each request reaches the handler it means, a change between the two requests refuses the second, and "ok" is said
of what was checked.

### Parts not modelled

| Part | Why |
| --- | --- |
| Expression wasm build (`crates/expr-wasm`) | bindings: it converts arguments, calls `crates/expr`, and keeps no state |

What each modelled part leaves out is in section 7.

## 2. Modules

| Module | Models | Uses |
| --- | --- | --- |
| `Channels` | what connections promise (abstract) | |
| `Router` | instances, mailboxes, routing | `Channels` (refinement) |
| `Service` | spawn, stop and join over `Router` | `Router` |
| `RouterProofs` | proofs about `Router`, `Channels` and `Service` | `Service`, TLAPS |
| `ServicesApi` | requests, lock, file, boot, shutdown for one service | |
| `ServicesApiProofs` | proofs about it | `ServicesApi`, TLAPS |
| `Instance` | one instance from inside: life, timers, emission budget | |
| `InstanceProofs` | proofs about it and about `PropContext` | `Instance`, `PropContext`, TLAPS |
| `StateStore` | namespaces under instances, lifecycle and reclaim | |
| `StateStoreProofs` | proofs about it | `StateStore`, TLAPS |
| `BlockCache` | one cache entry, its pulls and its file system | |
| `BlockCacheProofs` | proofs about it | `BlockCache`, TLAPS |
| `Feed` | what the bus promises a reader (abstract) | |
| `ObserveBus` | events, ring, taps, streams | `Feed` (refinement) |
| `Bridge` | the MQTT connection and those who share it | |
| `BusProofs` | proofs about `ObserveBus`, `Feed` and `Bridge` | `ObserveBus`, `Bridge`, TLAPS |
| `Leaf` | timers and state file of a leaf instance | |
| `Document` | a service file and its edits, as operators | |
| `Designer` | the edit path of one browser tab | `Document` |
| `DesignerProofs` | what every edit preserves, proofs about the path, the directory of a `Node`, and the pushes of a `Client` | `Designer`, `Node`, `Client`, TLAPS |
| `Wiring` | from the connections of a file to a router's table, on a daemon and through the image of a leaf, as operators | |
| `Admission` | what is checked of a block, and what is registered for it | |
| `Engine` | four bindings of wasm engines, and the daemon's cache of compiled modules, as operators | `Admission` |
| `Reader` | the walk over a module, and the portable subset, as operators | |
| `Boundary` | the numbers between host and guest | |
| `Guest` | what the SDK makes of them, and the state and timer functions between the two, as operators | `Boundary` |
| `Expression` | analysis and evaluation of expressions, as operators | |
| `PropContext` | one instance's properties, callback after callback, in any language; the topic of a system block | |
| `Properties` | the same, in this one | `PropContext`, `Expression` |
| `Numbers` | numbers in expressions and the builtins on them, as operators | |
| `HostProofs` | proofs about the operators of `Boundary`, `Guest`, `Wiring`, `Admission`, `Engine`, `Numbers`, and about `Leaf` | `Guest`, `Wiring`, `Engine`, `Numbers`, `Leaf`, TLAPS |
| `Signals` | the canonical encoding and its bounds, as operators | |
| `Blocks` | a block from its source to the module a host loads, as operators | `Admission` |
| `Publish` | references, what is pushed and what a node makes of it, as operators | `Blocks` |
| `Conformance` | scenarios, their verdicts, and the reference host's capabilities, as operators | `Boundary` |
| `Node` | the data directory, the API's routes and answers, `dev run-block`, as operators | |
| `Client` | the command line and its tools against a node, as operators | `Node` |
| `MCBlockCache` | modules, calls and budgets for TLC | `Engine`, `Reader` |
| `MC...` | graphs, requests, policies, expressions for TLC | the module of the name |

### Router and Service

A batch is the serial number its emitter gave it; payloads never matter to routing. `emitted[i]`
is everything instance `i` emitted, `cursor[i]` how far its routing loop got, `todo[i]` the
connections of the current emission still to be served, `retry[i]` and `held` the slots.
`fate[c][n]` is the history of copy `n` of connection `c`; the code has no such variable (its
observers count discards), it is what the properties speak about.

A Tokio channel is three things: `permits` that nobody owns, a FIFO line of `waiters`, and
`granted` permits that were handed to a waiter whose task has not run since. `Post` is
`try_send`, `Queue` a `send` that has to wait, `PostGranted` the woken sender, `Pop` a `recv`
that passes its permit to the head of the line, `Close` the receiver's drop with what its queue
still held. Distinguishing granted from free permits matters: `try_send` by a third thread cannot
take a place that was promised.

`Start`, `TakeBatch`, `TakeTimer`, `TakeStop`, `Receive` run a callback (any burst of emissions,
and, except for a subscriber, a trap) and enter a routing round. `RetryHeld` is one slot of
`Outlet::flush`; `NextEmission` one turn of the loop of `Outlet::route`; the five `Deliver...`
actions are the five outcomes of `Outlet::deliver`. `RoundDone` goes back to `recv`, or ends the
thread. Between any two of these steps other threads run, as they do in the code. Slots of one
flush are retried in any order; the code goes by the order in which they were filled, so the
model allows more.

`Service` adds the task of `Service::spawn`, `stop` and `join`: every one of its steps is a step
of `Router` or leaves `Router` alone, so everything `Router` guarantees holds under it. `Circle` and
`WaitsForTheUnborn` are the two states of it that nothing leads out of: instances that wait for room in
each other's mailboxes, and a failing spawn that joins an instance which waits for one never spawned.

### ServicesApi

Handlers are tasks of one reactor thread, so an action is what a handler does from one await to
the next. `line` is the mutex around `Services`: its head holds it. One service stands for all:
services share the lock and nothing else, and what another service's handler does with the lock
is one more request in the line. A definition is its own ETag. `file` changes under the lock by
PUT and DELETE, at any time by `Edit`. PUT checks `If-Match` on arrival, validates off the
reactor, and checks again under the lock; a write may fail and leave `Torn`. `Apply` spawns the
graph before `Sets` and `Retired` take the old one down, as `boot::load` and `Services::set` do.
`HangsUp` drops a handler at an await, which is what hyper does to the handler of a closed
connection; `Killed` loses everything but the file; `Terminates` and `Exits` are the graceful
shutdown. A spawn, a retire or the stop of `run_node` need not return. `Stalls` and `ExitStalls` say so,
at any moment of any of them, and leave in `stall` whether the one who waits is suspended (`waits`: the
reactor goes on with other tasks) or has blocked the reactor's thread in a join (`blocks`: nothing runs
any more, and only a kill helps). A client that hangs up takes its waiting handler with it and sets the
lock free. Whether a graph can stall is the question of `Service`; here any may. `diverged` records that the file changed behind the daemon since the entry was made,
`edits` and `boots` are bounds; the code has none of them.

### Instance

`Router` studies how instances meet; `Instance` looks at one from inside. `pc` walks
`instance_task` from `configure` to the terminal event; the rest of the service is an environment
that posts batches and a stop and takes emissions when it pleases. An instance and its timer tasks
share one thread, so a timer runs only where the instance's task is suspended: at `recv` and while
it routes (`Suspended`). A guest call runs without interruption, but the guest makes host calls in
it, one action each: emit, which is charged to `held` and refused over the budget, `timer_set`,
`timer_cancel`. `armed` is the scheduler's map from id to task, `tasks` what lives on the thread; the
map and the tasks are two things in the code, and that they agree is a property. Ids are counted
modulo `IdSpace`, which is 2^32 in the code.

### StateStore

`disk` is what redb has committed and `writer` whose write transaction is open; there is one at a
time, and both instances and the reactor wait for it. An instance reads its count when it starts and
commits each increment. The lifecycle operations are those of `ServicesApi`, as far as instances see
them: a new graph runs before the old one is retired. `Reclaim` checks on the reactor that no file
declares the namespace (a file that cannot be parsed declares everything), `Clear` waits for the
writer and then deletes; the reactor does nothing else in between. `Killed` loses the open
transaction, `Edit` changes the file behind the daemon.

### BlockCache

One entry, a set of tasks that want it, and a registry that answers what it likes at every request.
Tasks in `Reactor` run their file system calls on the reactor without an await in between (`Turn`);
the others are blocking threads and interleave. `dir` maps the entry's two names (the entry and the
temporary, which bears the process id) to inodes and `data` says what each inode holds, so that two
tasks that open one temporary write into one file, and a rename carries a half-written file along.
Write order within a file is kept by `writers`. `Killed` leaves the directory and starts another life,
which has a temporary of another name.

### ObserveBus and Feed

`Feed` is the promise to a reader: everything that is its to see, in order, once; and one notice of
how many it was not shown. `ObserveBus` is the code: an unbounded channel per instance, a drain that
looks for readers and then sends (two steps: `publishing` is in between), the log layer, which
publishes from any thread, a ring that forgets, and receivers at positions of their own. Receivers that
fall out of the ring get `Lagged` with a count. A tap's deletion takes it off the list and leaves its
open streams alone, which is what the code does.

### Bridge

`run` walks the candidates in rank order from the top after every loss, dials, reinstates the
recorded topics under one lock and hands out the client under another, drives the connection until
it breaks; the pin, fixed when the node starts, narrows the candidates. A subscriber records its topic under the first lock and asks under the second; a
publisher looks at the client and then hands its batch to the request channel, which is bounded. The
broker, other publishers (`OtherPublishes`), the end of a connection (`Breaks`) and the availability
of candidates (`Flips`) are the environment. A topic recorded after the reinstatement and asked for
before the client is handed out, or one that finds the request channel full, is subscribed by nobody
on that connection: `missed` names these.

The transport of one process has no behaviour of its own to wait for, so it is operators on a broker: who
listens to a topic, what waits for each subscriber, who is gone, and how many batches were lost. `LocalPublish`
takes a severed connection as a flag, as `disconnect` severs the publishing of one bridge and nothing else: its
subscriptions go on arriving, since their senders are in the broker. `ParseCandidate` is a cut at the first `@`
and the last colon after it. What a system block is beyond that (`SystemManifest`, `ResolveTopic`) is in
`PropContext`, where expressions are.

### Leaf

Nothing runs concurrently on a leaf, but time passes and the process may be killed at every step. The
driver calls `pump(now)`; one `PumpOne` fires the timer that is due first and re-arms it if it
repeats; the guest may set and cancel timers in the middle. Due times are sums of i64s that wrap at
`MaxInt`. A put or delete rewrites the state file through a temporary and a rename, at most
`Wear` times in a life; the kill may come between any two steps, a write may fail or stop half way.

### Document and Designer

`Document` is no state machine: `Refuses` and `Applied` translate the edit operations and `Sound`
stage 1 of the validation. `Designer` is the path of one canvas edit. `applyEdit` chains edits in
`queue`; `applyEditNow` awaits the transform of the text on the canvas, then the PUT under the tag of
the text on the canvas as it is then, then the read back. `Select`, `SignOut`, `Lifecycle`, `ReloadLatest`
and `Dismiss` are what the operator does in between, `loads` the reads under way, whose answers come in any
order, `Outside` an edit by others. The PUT itself is one step, because the node decides it under its
lock. A block has one input port and one property here.

### Expression, PropContext and Properties

An expression is its tree. `Expression` has the parser's two structural rules, the static analysis and
the evaluator, each as a recursive operator over the tree that follows the code's own scopes and depth
count; closures carry their environment. `PropContext` picks a deployment, resolves and folds it
(`phase`), then opens callbacks with batches in which the guest asks for properties of signals; `bodies`,
`cache` and `failures` are the fields of `prop.rs`. The reference `Right` evaluates afresh, without fold
and cache. What is refused, what reads the signal and what an expression evaluates to are its parameters, so
that it can be proved about; `Properties` gives them the operators of `Expression`, which are recursive.
`Language` is what `PropContext` relies on of them, and run `Properties` evaluates it.

`Numbers` is operators too. An `i64` is an integer below `Half64`, a float the numerator of a fraction over
`D`: both are whole numbers, so what the code decides by comparing, truncating and stepping by one can be
said and proved exactly. What the processor does, the cast of an integer and the sum or product of
two floats, is the constants `AsF64` and `Ieee`, and the lexer is `NumberFromStr`. A builtin maps its
arguments to an operand, or to an error code and the argument it blames.

`Signals` has an encoding as a sequence of items, the head of each with its argument and its width, so that
an argument in too wide a head is an input like any other; a string is its rank among strings and has a length.
What minicbor tells apart and the decoder refuses by name is an item of that name.

### Engine and Reader

A host function is its namespace and name. `Linked` is what each binding defines for modules to import,
`Rejects`, `Register` and `HandlerFor` the handlers behind it, `Returned` what the guest finds where a result
belongs; `Wasm3Dispatch` and `ReferenceDispatch` look a handler up, the first by taking it out of the map and putting
it back. `Call` is a call the other way and how it ends, binding by binding: which exports there are, what the guest
did, whether the one result has its place. The reference host, wasm3 and WAMR instantiate in steps of their own;
WAMR's natives are a registry of signature strings that the process fills once. `Life` folds a sequence of guest entries over the
store, each armed by `Arm`; `Epoch` counts the instants at which the ticker did. `WamrInstantiates` keeps
the set of handles that exist after a step failed. A compiled module is named by its block and the
engine's key and is whole, torn or another engine's.

In `Reader` a module is the sequence of its sections and `Read` a fold over them, under a policy or none; what
the parser cannot read is an item of that name, wherever it stands.

### Wiring, Admission, Boundary and Guest

Four modules of operators without behaviour. `Wiring` has a file's connections as the parser leaves
them; `Stage1` and `Stage2` are the errors of the two stages, `Descriptors` and `Connections` what
`boot.rs` and `graph.rs` hand to `Routes::resolve`, `Refuses` and `ResolvedTable` its answer. `Bake` is the leaf
generator, by the first thing it refuses; `Image` and `EmitSource` are what it writes, where an instance names its
artifact by number, and `DeviceRefuses`, `DeviceTable` and `DeviceModule` what the device reads back. In `Admission` a
module is the record of what the loader reads of it; `Admits` is `validate_with`, `DaemonLoads`,
`LeafBuilds` and `LeafBoots` add what each host checks, and `Registered` is what the `register`
functions of `host-core` hand to the engine. `Boundary` keeps the widths: `Half` is 2^31, and `AsI32`
and `AsU32` are the casts. `Guest` is the SDK on the other side of it: `Status`, `Id` and `Size` decode,
`Turns` relates the capacities `grow_and_retry` offers one after the other to what a host answers them
with, `Emit` and `Rand` pair a call with its host function, `HostStateGet`, `HostStatePut`, `HostTimerSet` and their
like are the host's answers to the capabilities over whatever a store or a scheduler says, `Finish`, `Dispatch` and
`Configure` are the exports.

### Blocks and Publish

A text is a sequence of characters of a small alphabet, since here the rules are about texts. `ParseVerdict`, `CheckVerdict` and
`Validate` are the three judges of a block, each the list of its refusals in order; `Expands` and `Compiles` separate what the macro
refuses from what rustc does. `ToValue` and `FromCbor` write and read a descriptor. `Stub` answers a host function
from the recorder's queues. `Parse`, `SplitTag`, `SplitDigest` and `Locate` read references, `Published` is the sequence of
requests a publication makes, `Available` and `CacheListing` what a node shows of the result.

### Conformance

A scenario is a record of what `run` reads of it, and a step carries what the guest does when it is called, so that the
walk (`Step`, a fold) is a function of the scenario alone. `Refused` and `Run` are the early returns of the code in
their order, `First` of a list of rows. `Observed` and `Check` are what a step saw and what it had to see; observations
that are compared alike are one map; `CheckEmissions` and `CheckMessages` say which of two lists' entries differ, or that
their lengths do. `Allocated` is the ledger, on the addresses of `Boundary`.

### Node and Client

A path is the sequence of its segments; a TOML document says a function from keys to values, or is none (`NotTOML`). `Open`
maps a directory to the directory it leaves and the node it opens, if any; `Killed` is the set of directories an early
end may leave. `Handle` is routing, authentication and fallback in axum's order. `HttpRequest`, `Commands` and `Tools` are what
the client sends. `PushService` takes two states of the node, the one its tag is read from and the one it writes to.
`ReadSse` and `BoundedSse` fold over the lines of a stream. `Save`, `Edit`, `New` and `Validate` work on service files.

## 3. Runs

| Run | Instance | Shows |
| --- | --- | --- |
| `RouterLoop` | a subscriber feeds one ticking instance over a waiting and a drop-oldest connection, and has an unwired error port; the other feeds itself; depth 1, 3 emissions each | every copy is in one place (`ExactlyOnePlace`), no loss without its reason, only a connection's own older batches are dropped, refinement of `Channels` (`KeepsThePromise`); `Inductive`, the invariant of the proofs |
| `Service` | 3 instances under `Service`: 1 feeds 2 and 3 from one port, 2 feeds 1 and 3, all connections wait, 1 ticks; depth 1, 2 emissions of 1, one of 2; fairness | no wakeup is lost, a waiting connection is lossless, nothing is left running; spawn, retire and the settling of a batch end, or instances wait in a circle or for one not yet born |
| `ServiceSpawnHangs` | 3 instances, 1 feeds 3 past 2; fairness | refuted: section 4 |
| `ServicesApi` | 2 requests of any kind, 3 definitions, one edit, two boots; fairness | of two PUTs that name one version one wins, unless it was brought back; no orphan but a dropped handler's, the map is a view of the file, a running service is not deleted, every request is answered but for a spawn or retire that never returns |
| `Instance` | depth 2, 2 ids, budget 3, payloads of 1 and 2, 3 timers, 2 emissions, 2 batches | timers and tasks agree at every step, a cancelled one-shot never fires, every life is closed once |
| `StateStore` | 2 instances, 2 graphs, 2 increments, one edit, kills at any step; fairness | counts add up over kills and reloads, reclaim spares what a file declares, the reactor goes on |
| `BlockCache` | 2 tasks, one on the reactor, 2 digests, a tag or a pin, 4 policies, 2 lives | an entry has its evidence; half an entry takes two concurrent stores |
| `ObserveBus` | a block and the log, a tap and a console, ring of 2, 2 events, one opening per reader | refinement of `Feed`, nothing a reader waits for vanishes before the ring |
| `Bridge` | 2 topics with a subscriber each, 2 candidates, 3 pins, 1 request slot, channels of 1, 2 batches, one publish, break and flip; fairness | at most once and in order, recorded topics are subscribed or counted as missed, the walk settles |
| `Leaf` | 2 keys, delays 1 and 6 on a clock that ends at 6, 2 ids, 3 calls, 2 lives; fairness | once per pump, an acknowledged mutation is on disk, a pump ends |
| `Designer` | 2 services, 2 ids, 2 edits, 2 calls, one outside edit; fairness | no unseen text is overwritten, a tab's own edits do not race, files stay sound, every edit is answered |
| `Properties` | 4,772 expressions in about 9,900 deployments, depth budget 5, 2 batches, 2 callbacks | every answer is that of a fresh evaluation; what the analysis lets pass does not fail for its form |

Six of the runs also evaluate, before they start, what the theorems of section 5 say of the modules without
behaviour. `Service`: that the tables it and `ServiceSpawnHangs` run on are those of two service files, that
validation and resolution agree on every list of two connections, and that a build of a leaf's image either has the
reason to refuse that is its own or boots with the table and the modules of the file. `Properties`: the theorems of
`Boundary` on words of four bits and of `Guest` on five or eight, those of `Admission` on some four hundred
modules, that blocks are loaded at all, two facts about the SDK that section 4 names, and that the topic of a system
block, once it is taken, is what the expression is for any signal; of `Numbers`, on
integers of five bits and floats of three, the theorems and what needs a fold: `min` and `max` answer the first
of their extremes as it is, `sort` is stable and agrees with them, sums fold from the left and stop
at the first overflow, every number a builtin answers is one, a cast and its reverse agree where a float
holds the integer, and a comparison is an error or true of exactly one of `<`, `=` and `>`. `Bridge`: what `MCBridge` says of
the encoding, for some 1,700 values, every input of two items and every encoding of a small value or batch
with one item dropped, doubled or replaced, on a `usize` of four bits and one of six; of the transport of one process, that
a loss is counted; and of candidates, that what parses is what was written. `BlockCache`: what
`MCBlockCache` says of the bindings of engines, that their tables are one, that a call dies on all or on none, that
WAMR's signature strings tell all types apart, that wasm3's handlers come back, that modules begin alike, that a
budget is an entry's own, of every directory of artifacts of three blocks that it cannot be noticed, and of the
reader, on some 3,500 modules, what a policy adds to it; and of `Publish`, that every reading of a reference agrees, that an entry's
file names determine it, that a listed block resolves, that tags are pushed after what they name, and that one challenge is one token.
`Properties` evaluates `MCBlocks` as well: names and versions are the published patterns, a declared type is the one
that is read, ports and properties have one number each, and a descriptor or response is read as it was written. `ObserveBus`: what `MCObserveBus` says of the suite, that a
walk of up to three steps passes exactly if a life can take it and every step did what was foreseen, that a refusal that passes was
observed in its layer, that every difference between what was expected and observed is reported once, that only gaps are skipped, that deliveries of host-core are no faults of its ledger
and writes off by a byte are, and that scripts are used in order. `ServicesApi`: what `MCServicesApi` says of `Node` and
`Client`, for some five hundred directories, every path of up to four segments and every file of two nodes: a second start
changes nothing, a killed one costs what it tore and no more (`IdentityIsKept`, `KillsTearAtMost`), no path has two routes,
the commands and the tools are the endpoints and reach their handlers (`SpeaksTheApi`), the default is a node there is,
imports merge, a push succeeds exactly if nothing changed under it (`PushesAreOrdered`), a stream cut at any line is told as
the events before it, and a bounded one ends where it says.

**Bounds.** A mailbox of depth 1 is full after one batch, so every delivery meets both cases;
three emissions on one connection fill mailbox and slot and leave one to be dropped, which is the
first time "newest" and "oldest" differ. Three instances are the least with fan-in and fan-out
together, that is with two senders in one line, and the least in which a start fails between one that
is up and one that is not born. In the graph of `Service` 1 fills the mailbox of 2 with its first emission
and waits with its second; a tick fills that of 1, and 2 waits with its only one (`Emits`): that is the
least circle, and it comes about before a retire and in the middle of a failing spawn alike. Two instances are
enough for both kinds of connection to meet at one mailbox. `MaxBurst = 2` lets a
callback have a second emission pending when the first one blocks. A run ends where the bound on
emissions is used up; the bound sits in the guard of the emitting actions only.

Two requests are enough for every race at the lock because a race is between what holds it and what
comes next; two boots give one restart with the file of the previous life. The same goes for two
tasks on a cache entry and two lives of it, and for two graphs of a service, which is all a reload
runs at once. With `IdSpace = 2` a third timer meets the wrap-around, with one id in use or free. A
budget of 3 with payloads of 1 and 2 is met exactly, exceeded, and left with too little. `MaxInt = 6`
puts a due time past the end of the clock within three steps of time, next to periods (1) that a late
pump has missed several of. A ring of 2 is overrun when each source has two events; one
request slot and channels of 1 are full after one entry. Two edits are one that is being made and one
that waits. The expressions take every form, well shaped and not, over a few parts, towers of the
depth budget and one more, and functions that reach it only when they are called.

**Deadlock.** TLC looks for deadlocks in every run but three. `ServiceSpawnHangs` exists to show a system
that stops; `Service`, whose graph can hang in two ways, has `SpawnReturnsOrWaits` and
`RetireReturnsOrStalls` for them. In `Designer` nobody owes a gesture, so an idle tab may rest for ever. Elsewhere actions
named `Rest`, `Over`, `Ended` or `Idle` spell out the states in which the system may rest, so a
stop anywhere else is reported.

**Fairness.** `Service`: `Thread(i)` is weakly fair for every instance, because instances are OS
threads and the epoch budget (`engine.rs`) ends every callback, and the spawning task is, because
it runs on the reactor or on a blocking thread; timers, the bridge and whoever asks a service to
stop owe nothing. `ServicesApi`: a handler that can go on does, because the reactor runs every
ready task, and so does the shutdown. That a spawn or a retire under the lock returns is not assumed:
`Stalls` may take it at any time, after which no step of it is owed, and none of anybody while the
reactor is blocked. That a validation ends is: a registry is asked with a limit of a minute
(`registry.rs:403`). Clients owe nothing, so a stream may stay open for ever. `StateStore`: weak for the threads of instances but where
they wait for work, strong for `Clear`, because redb hands its write lock on and an instance that comes
back to it again and again does not hold it for ever. `Bridge`: weak for `run`, a thread. `Leaf`: weak for
what the processor does once it began, not for the driver. `Designer`: weak for the promise chain
of edits, whose calls are answered or fail. That is an assumption about the network: the browser's `fetch`
sets no limit of its own, and an edit whose call is left open keeps the queue waiting. What
`EveryEditIsAnswered` adds to it is that no refusal and no throw does. The operator and the other reads
owe nothing. `Instance`,
`BlockCache`, `ObserveBus` and `Properties` have safety properties only.

## 4. Where the code and its words differ

`ServiceSpawnHangs` is a run that TLC refutes: when instance k fails, `spawn` stops and joins
1..k-1 while it still owns the receivers of k+1..N. An instance waiting for room in one of those
never sees its `Stop`, and the error is never reported. `SpawnReturnsOrWaits` (run `Service`) shows
that this, and a circle of instances that wait for each other, are the only ways in which `spawn` does not answer.

The following met us while modelling. Where a formula is named, it is defined in the module next to
the properties that do hold, with a comment, and is false of the code; no run checks it.

- A stop that never comes (`Service`, `RetireReturns`): two instances of a cycle wait for room in each
  other's mailboxes, so neither reads its `Stop`, and `Service::stop`, or the join after it, never returns.
  DAEMON-SPEC 6.2 grants that a saturated cycle "stalls those instances"; that it can no longer be stopped
  either, that the handler who tries keeps the lock of all services, and that a shutdown then never ends, it
  does not say. `services.rs:435` has each instance "told to stop and its thread is joined".
  `RetireReturnsOrStalls` shows that such a circle is the only way; on a graph without a cycle there is none.
- Held order (`Router`, `HeldKeepsItsPlace`): `Outlet::flush` promises that a held batch keeps its
  place. Between the flush and the next delivery of the same connection the receiver may make room,
  and the newer batch goes straight into the mailbox, ahead of the one in the slot.
- Held and lost (`EveryLossIsCounted`): batches in an outlet's slots vanish with the thread; no
  `Discard` says so, though DAEMON-SPEC 6.2 has every discard counted.
- Trap at the start (`TrappedStillRouted`): what `eio_configure` and `eio_start` emitted is never
  routed when one of them traps or refuses, against DAEMON-SPEC 6.1.
- A service doubled (`ServicesApi`, `NeverDoubled`): start, reload and PUT spawn the new graph before
  the old one is retired, against the comment on `Services::set`.
- A handler dropped (`NothingIsLeaked`): a client that hangs up during a spawn or a retire drops the
  handler; instances that were up hold every mailbox of their graph, their own included, so nothing
  ever closes and the graph runs unlisted until the process ends. `OnlyDroppedHandlersLeak` shows
  that this is the only way to leak one.
- A stream holds the shutdown (`ShutdownCompletes`): an open log or tap stream ends with the bus, the
  bus ends with `run_node`, and `run_node` waits for the stream. The second conjunct of
  `EveryRequestIsAnswered` shows that nothing else keeps a node from stopping, but for a spawn or a retire
  that never returns.
- One hang holds up all (`AnsweredThoughHeldUp`): a spawn or a retire that never returns keeps the lock, and
  every request that needs it waits. `boot.rs:385-387` joins on a thread of the pool, since "joining inline would
  stop every other request"; the failing `Service::spawn` (`router.rs:441`) and `run_node` join inline.
- A pull on the reactor: `registry.rs:21` "must reach this through `spawn_blocking`". PUT does; start and reload
  validate inline (`boot.rs`, `load`), and everything else waits up to a minute for each request of the pull.
- A timer id that reads as an error (`Instance`, `ArmedIdIsNoError`): ids are u32 and answered as
  i32, so the upper half is negative, which the ABI takes for a failure.
- A one-shot lost (`OneShotFires`): a timer that finds the mailbox full is dropped; a repeating one
  comes again, a one-shot never (`timer.rs:158`).
- Leaf timers (`Leaf`, the exceptions named in `OncePerPump` and `PumpEnds`): the next due time of a repeating
  timer overflows into the past and is due for ever; an id still armed is given out again after
  the wrap-around.
- A deleted tap (`ObserveBus`): `api/taps.rs:129` "Stops a tap and releases its ring"; streams that
  are open go on.
- Missed topics (`Bridge`, `missed`): a topic recorded between the reinstatement and the hand-over of
  the client, or beyond the request channel, is not subscribed until the next connection, though
  `bridge.rs:1073` says a subscriber never misses a publish.
- Half severed (`Bridge`, `LocalPublish`): `bridge.rs:416` "Severs this connection, as if the transport under it had
  dropped"; a severed in-process bridge publishes nothing, and its subscriptions go on arriving.
- A topic that reads the signal (`MCProperties`, `TopicsAreForLife`): `bridge.rs:219` "it MUST be signal-independent", and
  evaluating against no signal makes "a signal-dependent expression a configuration error". It does so of what the evaluation
  reaches: `(if true "a" $a)` is taken, though nothing else is ever said by it.
- Signatures behind a login (`BlockCache`): with credentials configured, a registry that answers 401
  or 403 for an absent signature tag fails the pull; without credentials it counts as absent.
- A shared temporary (`NeverTorn`): two tasks of one process store through one name
  (`blocks.rs:141,154`), and the first rename can publish what the second is still writing.
- An edit over a text nobody saw (`Designer`, `NeverOverwritesUnseen`): DESIGNER-SPEC 4 "it could not
  silent-overwrite if it tried". A refresh of the canvas between the transform and the PUT lends the
  PUT the tag of a text the transform has not seen.
- Deletes (`DeletesGoThrough`): `ServiceCanvas.svelte:6` "delete-to-remove". A delete disconnects the
  wires that the removal of the block already took along, and the whole batch is refused with
  `NoSuchConnection`. (That the canvas library hands connected edges to `onbeforedelete` is assumed.)
- Also in the Designer: an edit that waits while the operator selects another service is applied to
  that one; `busy` is reset by the first of two overlapping calls; an edit that throws is shown
  nowhere.
- Expressions: the comment of `eval_node` that nesting within the budget both parses and evaluates
  holds only without closures, as `DecidedAtDeploy` says.

- Capabilities of a leaf (`Admission`, `LeafBuilds` without `LeafBoots`): LEAF-SPEC.md:896 "A block whose
  manifest requires a capability the target lacks is refused here", on the build host; `bake` looks at
  no capability, and the device refuses the block when it boots (`leaf/src/lib.rs:461`).
- A payload that reads as an error (`Boundary`, `FillIsAllOrNothing`): `fill` calls its answer
  "Non-negative and `<= cap`"; a payload of 2^31 bytes in a buffer that takes it is written and answered
  with a negative number.
- A buffer that does not converge (`MCProperties`, `BufferIsCutBack`): `ctx.rs:356` "converges on the right
  size after the first signal and never grows again". `prop_cbor` truncates the buffer to what it read and
  offers its length, so a property whose values alternate between two lengths takes the second call
  each time it is the longer. `KeptBufferSaves` is what holds.
- Two refusals at once (`PortOrLength`): `ctx.rs:302` "a guest hears the same answer from every host". The
  SDK refuses an oversized batch before it calls, with `ERR_LIMIT`; on a port the block has not, the host
  would have answered `ERR_INVALID_ARG`. `SameRefusal` shows the answers agree on a declared port.
- The first buffer: `memory.rs:309` calls a capacity of zero the SDK's first call; the SDK begins with 64.
- A part of a random buffer (`RandFillsOrFails`): a refusal of `rand` leaves the buffer as it was, says its
  comment; the source giving out after a chunk leaves that chunk, with `ERR_IO`.
- A count beyond 32 bits (`MCProperties`, `CountsDependOnTheHost`): EXPR-SPEC.md:203 "out-of-range clamps,
  negative ERR". A count becomes a `usize`, so `(slice a 0 n)` with an `n` from 2^32 clamps on a daemon of 64
  bits and fails on a leaf of 32, with "argument must not be negative" (`builtin/mod.rs:274`).
- A batch too deep for its readers (`MCBridge`, `DeepBatchesStopHere`): `budget.rs:25` "A `ExprBudgets` that violates
  rule 9 is not a thing that can be built", and `memory.rs:269` "this call site cannot apply one". With `max_depth` of
  `node.toml` past 128 an expression builds, and the host accepts, values that `Batch::from_cbor` in `bridge.rs:837` and
  in the SDK (`runtime.rs:125`, and `ctx.rs:348` for properties) refuses: they read by the default, not the
  budget. `runtime.rs:123` calls bytes a host encoded and the SDK refuses "a conformance bug by definition".
- A budget that never refuses (`BudgetHolds`): `Outbound::accept` calls the answer past four gigabytes
  "the same refusal either way"; the saturated sum equals a budget of `u32::MAX` and is accepted.
- An unregistered function on WAMR (`MCBlockCache`, `UnregisteredCalls`): the result of a call takes the place of its first
  argument, so one nobody answers returns the guest what it passed; the comment at the end of `raw_trampoline`
  has WAMR set the slot to zero. Wasmtime's hosts answer `ERR_UNSUPPORTED`. `LoadedBlocksAreAnswered` shows
  no loaded block gets there.
- A second memory (`SecondMemoriesPass`): `module.rs:134` "is refused by `crate::portable` long before anything reads
  this"; `portable.rs` looks at flags only, so the page ceiling sees the first memory and the engine bounds the second.
- More than one result (`CallsEndAlike`, `Fits`): wasmtime's hosts and wasm3 call a guest with room for one result, and index
  past it if the export has two. The loader checks the types of exports, so no loaded block gets there.
- A late ticker (`LateTickersDelay`): the bound "either side" of `EPOCH_TICK` holds from below always, from above
  only if the ticker, which sleeps between its counts, is never late.
- Silent satisfaction (`MCObserveBus`): `run.rs` refuses a refusal scenario with steps or limits, since ignored ones
  would pass "forever while checking nothing"; what it expects of the run is ignored (`ExpectationsAreIgnored`). A script for a
  misspelt function is taken and never asked for (`MisspeltScriptsPass`). An engine's refusal that need not name
  the proposal passes whatever it was for (`NamesTieTheTwo`).
- A suite without a report (`OneFileFailsTheSuite`): `run.rs:56` "a suite has to report every result rather than stopping
  at the first"; the first file `load` refuses ends `run_dir`, reports and all.
- Declared and imported (`MCBlocks`, `DeclaredIsCalled`): `block-sdk-macros/src/parse.rs:42` has the declared capabilities equal the
  imported namespaces; the loader asks for imports within the declared ones, but refuses a block that declares `timer`,
  `gpio` or `http` and never calls it, since the paired callback is exported and its registration is not imported.
- Arguments given twice (`PropArgumentsAreLax`): `#[block]` refuses them, `#[prop]` takes the last; `ty = "in-t"` is `int`.
- Names that become one (`TwinsDoNotCompile`): ports `b_0` and `b0` are valid and are one variant, so rustc refuses the enum.
- Long reads (`LongReadsAreTwoCalls`): an `i2c` read of more than the first buffer is made twice on the bus.
- A challenge cut at its commas (`MCBlockCache`, `ScopesAreCut`): `challenge_params` splits within quotes, so
  `scope="repository:x:pull,push"` asks for a token to pull.
- Loopback (`Ipv6LoopbackIsHttps`): `registry.rs:307` "`http://` for a loopback registry", but not for `[::1]`.
- Blocks that cannot be named (`PublishedIsReachable`, `ListedResolves`, `TagsAreVersions`): a namespace with `@` is published where no
  reference reaches it; a cached block called `publisher` is listed and never runs; a version with `+` or of more than 128
  characters is no tag.
- Between manifest and signature (`PushedInOrder`): a node that requires signatures refuses the block in between.
- A full memory (`BisectionFindsThePages`): `memory_pages` answers 65535 for one of 65536 pages.
- A stale pull (`MCServicesApi`, `PushForgetsThePull`): `cli/src/services.rs:80-82` "a service that changed on the node since
  the last `pull` is refused". The push reads the tag itself, immediately before it writes; only what changes between those two
  is refused.
- `--force` on nothing (`ForceCannotCreate`): `cli/src/services.rs:14-16` "Neither matters for a service that does not exist
  yet". A forced push sends `If-Match: *`, which the node refuses with 412 where there is no service.
- A deleted `.gitignore` (`DeletedComesBack`): `node.rs:339-340` leaves it as the operator has it, "including one they deliberately
  narrowed or deleted"; a deleted one is written again.
- A torn `node.toml` or token (`TornIsKept`): neither is written through a temporary, and neither is written again where there is one.
  A start killed in the middle leaves a node that no later start opens, or a limit cut to its first digits, or no token.
- Names with a slash (`SlashesReachOthers`): the client puts a name in the path as it is, so `service show a/errors` asks for the errors
  of `a`.
- `reference.rs` links, by its comment, twenty-two functions; there are twenty-one.

Read but not modelled: `crates/service`'s atomic write uses one temporary name for every writer; the
leaf's failures and logs have no reader in the repository (`take_failures`, `take_logs`);
`crates/designer/src/api/nodes.rs` answers `daemon` for a node created as a leaf.

## 5. Proofs

Everything below is checked by TLAPS for every value of the constants that satisfies the named assumptions of
the modules. For a module with behaviour the argument is always the same: `Inductive` is the invariant a run
checks together with what it silently relies on; `Init => Inductive` and `Inductive /\ [Next]_vars =>
Inductive'` are proved action by action, and the property follows. TLC checked
each `Inductive` on the instance of its run (`PropInductive` on a part of its states, as each evaluates the
deployment again).

### The router and the service (`RouterProofs`)

| Theorem | States |
| --- | --- |
| `Invariance`, `TypeCorrect` | (first layer) the types, the accounts of the mailboxes and the rounds of the threads |
| `NoLostWakeupHolds` | free, promised and taken places of an open mailbox add up to the depth, and nobody waits while one is free |
| `RoutedBeforeNextHolds` | an instance takes its next item, or ends after it ran, only when everything it emitted is routed |
| `InvariantHolds` | `Inductive` of `Router`, the strengthening, which run `RouterLoop` checks |
| `ExactlyOnePlaceHolds` | a copy of a batch is in one place from its emission to its fate |
| `LossHasItsReasonHolds` | a copy is lost only for a reason its connection allows |
| `BackpressureIsLosslessHolds` | a waiting connection loses nothing to a mailbox that is open |
| `KeepsThePromiseHolds` | `Router` implements `Channels`: a step maps to one of its steps or to a stutter |
| `FatesOnlySettle` | a fate, once settled, never changes |
| `ServiceIsARouter`, `ServiceKeepsItsWord` | `Service` implements `Router`, so the above holds of a service that is spawned and stopped |
| `NothingLeftRunningHolds` | a service that is down, or failed to come up, has no thread |

`NoLostWakeup` is not inductive as it stands. `Pop` moves the head of the line to `granted`, and the account
of places only adds up if that sender was not promised one already; a woken sender leaves `granted`, and must
not still be in the line. That is `InLineOnce`. It in turn needs `Rounds`: a sender that joins the line of a
mailbox does so in the middle of a delivery of its own, and is in no line but that one. `RoutedBeforeNext`
follows from `Rounds`. This is `Machine`, the first layer. The second, `Custody`, says that fates speak of
what was emitted (`FatesAreOfEmissions`), that mailboxes and slots hold what was emitted for them (`OwnMail`),
that what a waiting connection has in a mailbox is in the order of its emission (`InOrder`), and holds the
properties themselves. Lemmas about the operators on queues (`Post`, `Queue`, `PostGranted`, `Pop`, `Close`)
say what each does to the accounts of one mailbox, to the count of one copy, and that it leaves the others
alone; one lemma per action cites them. `Service` needs `InSequence`, which relates its place in `spawn`,
`stop` and `join` to the threads there are.

### The management API (`ServicesApiProofs`)

`ApiInvariance`, and from it `OnlyDroppedHandlersLeakHolds`, `ViewMatchesFileHolds`, `OneWriterWinsHolds`,
`OnlyStartOverridesHolds` and the action property `DeleteSparesTheRunningHolds`, for any number of requests,
definitions, hang-ups, edits and boots. `Lined` is the lock: who waits or works is in line once, and who works
is its head. `Hands` says what the head has in hand at each of its steps: what it is about to set, what it has
spawned, what it retires; a graph is listed, in those hands, or was in those of a handler that was dropped
(`NoneLeaks`). `Viewed` says that what will be set is what the file says. `Spent` carries `OneWriterWins`: the
file is never again a version that a PUT overwrote, unless somebody brought it back.

The proof found `OneWriterWins` false as it had been stated: only a DELETE was allowed to bring a version
back. A PUT that hung up after it wrote, or whose write failed half way, brings back a version no less. It
takes a third request, and the run has two; with three, TLC finds the same. The property now names every
request that may have left the version (`Left`), and the theorem is about any number of them.

### Instances, timers and state

`InstanceProofs`: `LedgerIsExact` (`TypeOK`, whose ledger says that the bytes charged are those of the
emissions, and within the budget), `ArmedAreRunningHolds`, `CancelledOneShotNeverFiresHolds`,
`EveryLifeIsClosedHolds`. The invariant adds that task numbers are given out once and that a one-shot whose
tick waits is no longer armed (`SpentAreForgotten`): so a cancel that succeeds finds no tick. The ledger is a
sum over a sequence; what it is after one more emission is proved with `Least`, a least counterexample by
`WFMin`, since the induction rules of the library cannot be instantiated. The same lemma shows that the search
for a fresh id ends at a free one.

`StateStoreProofs`: `CountsAddUpHolds` and the action property `ReclaimSparesTheDeclaredHolds`. An increment
adds to what its thread has read, so a thread that has read holds what is stored (`MemoryIsFresh`), because
nobody else writes there (`OneAtATime`), except where two graphs overlapped or a namespace was taken away,
which `doubled` and `bereft` record. What a reclaim has checked is still so when it clears (`CheckHolds`).

`Leaf` (in `HostProofs`): `OncePerPumpHolds` and `AckedIsOnDiskHolds`. A timer that fired in a pump is due a whole period
after it, unless the time does not fit (`Paced`); memory holds what was promised, and the temporary holds
memory when it is renamed (`Staged`). `PumpsShrink` is the part of `PumpEnds` that can be proved, its variant: a pump is called
with a time that has come (`NowHasCome`), so what is armed in a callback of it is not due in it, and each turn takes a
timer off those that are; all that fairness has to add is that turns are taken and callbacks return. A timer whose next time
does not fit an i64 is the exception, as in section 4.

`BlockCacheProofs`: `EntryIsVouchedForHolds` and `TornOnlyByTwoHolds`. Every file's bytes come from a pull
that passed every check, whoever wrote over whom (`Evidenced`). While no two tasks had stored at once, who
stores has a file of its own that is not the entry (`Alone`), which needs that a name in the directory belongs
to an earlier life or to a task that staged in this one (`Named`).

`InstanceProofs` also has `AnswersTheQuestionHolds`, about the properties of an instance, for every manifest,
deployment and sequence of batches, and for every language in which no expression that may be folded reads the
signal (`Language`). What the property leaves unsaid is what the next answer will be taken from: bodies that
are those of this deployment (`Compiled`) and a cache that, between two callbacks, is empty and, within one,
holds only evaluations on the batch at hand (`CacheIsFresh`).

### The bus and the bridge (`BusProofs`)

`NothingVanishesHolds`: an observation a reader waits for is on its way until it is in the ring. The drain
looks for readers in one step and sends in another, so the property only says something of readers that were
there when it was reported, and the proof is about what is in between. `KeepsTheFeedHolds`: the bus implements
`Feed`; a step of the code is a step of the promise or leaves it alone. A slot holds what was said at the
position it carries (`Stocked`), and no reader is past the next position (`Behindhand`). Positions that share
a slot are a whole ring apart (`SlotsRecur`); so a reader that finds its own position is shown what the
promise shows, and one that finds a later position is behind by more than the ring, by the number in its
notice.

`AtMostOnceInOrderHolds`: batches reach a subscriber in the order of the broker and none twice, over any number
of breaks. What waits in its channel lies, in serial numbers, after what it received and before what is still on
its way from the broker (`QueueInOrder`, `InboxInOrder`). `TopicsAreHeardHolds`: once the topics of a
session have been reinstated, every known topic is subscribed, asked for in the request channel, counted as
missed, or about to be asked for by its subscriber (`NoneForgotten`). The reinstatement asks for as many topics
as the channel takes and counts the rest as missed; a topic recorded after it is known before anybody asks for
it, and then its own subscriber is the one who will.

Of the transport of one process, which is operators, `LocalIsInOrder` says that every operation on the broker, by
whichever of its bridges, keeps what waits for a subscriber in the order of publication and without a repetition,
and that what it takes comes before all the rest: the serial numbers in a queue ascend and end at the last one given
(`InOrder`), so an append of the next keeps the order (`NextIsLast`) and a tail does (`RestIsLater`).
`LocalLossIsCounted` is the account of one publish: the subscribers that are there are those that got the batch and
those that were full, and the counter went up by the number of the second. It is a fact about cardinalities of a
partition, for any finite set of subscribers.

### The Designer (`DesignerProofs`)

`EditsKeepTheWiring`, for every set of ids and names: an edit that is not refused turns a definition whose
connections, labels and properties name only instances it has into another such definition.
`FilesAreSoundHolds` carries all of `Sound` through every batch and the whole path to the file, with a batch
as a recursive function that stops at its first refusal. `OwnEditsDoNotRaceHolds` and the action property
`NothingOverwrittenUnseenHolds` need that edits are answered in the order they were made (`InLine`), that an
unmeddled canvas is the text the edit was made from (`Unmeddled`), and, in a tab where all calls and edits
went well, that the canvas is what is on the node (`Fresh`).

The node the Designer talks to is operators in `Node`, and two results about it are in the same module.
`IdentityIsKept`: a start leaves a directory from which every later start, whatever id and token it would mint, opens the
same node, or refuses for the same reason, and writes nothing. A start provisions one file after the other and may refuse
between any two (`FirstHalf`, `SecondHalf`); each provision is idempotent because it looks before it writes
(`ProvidedStays`), also at a file that was torn. `DecodesWhatItBuilds`: whatever `node.toml` asks for, no budget is
below its floor and what a node decodes is at least as deep as what its expressions build.

The command line edits the same definitions (`Client`): `PushesAreOrdered` says that a push, a read of the tag and then a
write, goes through exactly if nothing changed in between, and `OnePushWins` that of two pushes that read one tag the
second is refused, unless the first wrote what was there.

### Operators (`HostProofs`)

`AcceptedIsResolvable`: with a valid manifest for every id, a file has no error in either stage exactly when
`Routes::resolve` takes its connections; so a boot does not fail on wiring the API accepted, and the API
refuses none the router would take. Its core is that resolution is injective: distinct names get distinct
positions, so the duplicates one side sees by name are those the other sees by index. `AcceptedTable`: the
resulting table is what `TableAssumption` asks of the table of `Router`.
`BakedImagesBoot` takes the same result through the leaf generator: `bake` never comes as far as refusing for the
wiring, since the stage before it would have, and what it bakes is an image whose wiring the device accepts and
resolves to the table a daemon has of the same file. So the device may treat wiring it cannot resolve as a generator's
fault, as `graph.rs` does.

`LoadedBlocksLink`: every function a loaded block imports is registered before it runs, on a daemon, and on a
leaf that boots; `FiredTimersAreHeard`: a block that can arm a timer exports the callback. Both are a walk
over the tables in `abi.rs`, namespace by namespace. `LoadedBlocksAreAnswered` carries this to the call: on
each of the four bindings a call of a loaded block gets its handler's answer, and never what the binding says
when it has none, on which they differ. `HandlersComeBack`: wasm3's dispatch takes a handler out of the map while it runs and leaves the
map as it found it, and answers what the reference host does. `CallsEndAlike` is the way back, from host to guest: for
one outcome of the guest every binding has the same answer, or each dies; and a death that names an overrun budget is
told by wasmtime's hosts alone, which have one. It assumes exports with at most one result and no name with a NUL; each has its
exception in section 4 or in `WamrCall`. `DeadlinesAreRoundedUp`: a deadline becomes at least one tick, covers
what was asked for, by less than a tick more.

For every width, `fill` is all or nothing and says which (`FillIsAllOrNothing`), one retry with the size it
answered is enough (`RetryFits`), and a callback's emissions keep within its budget (`BudgetHolds`). Each
states as an assumption what section 4 lists as its exception. Against a host that fills, the SDK's read loop
ends by its second turn (`TwoTurnsRead`, by `FilledSize`, which joins `Answer` to `Size`); the kept buffer
saves the second call when it can (`KeptBufferSaves`). `SameRefusal`, `DeliveryIsOwned`, `RandFillsOrFails`,
`HostHearsTheBlock` and `ErrorsStayErrors` say of emissions, deliveries, `rand`, callbacks and decoders that
the two sides agree. `DeliveryIsOwned` assumes of dlmalloc what `Heap` says, and that a word is wider than the
alignment; `HostHearsTheBlock` that every error code a block returns came from the host or the SDK. `ErrorsStayErrors`
is about the decoders: each makes an error of every negative answer, with the host's code, and a block that
returns it by `?` tells its host that code again; `NOT_FOUND` is an absence to the one convention that has
one; and none but a status is an error without being negative.

The state and timer functions answer one number as well, and their wrappers read it back. `StateIsTold`: what a block
concludes from a read is what the store said, for every length, capacity and memory: nothing exactly if the key is not
there, a value only if it is the one and is whole, a second try exactly if the store was throttled. `StateWritesAreTold`
says it of writes. `TimersAreTold`: below 2^31 the id a block is given is the one that was armed and the one its cancel
names; from there on it reads an error of a timer that will fire, which is `ArmedIdIsNoError` of section 4, seen from the
block.

For integers of every width an integer and a float compare as the numbers they are, whichever integers share a
float (`CompareIsExact`); hence `=` and `<` are an equivalence and a total order that agree (`OneOrder`),
which `sort`, `min` and `max` lean on. `RoundingIsExact`: `floor`, `ceil`, `int` and `round` answer the
integer they are named for, and fail exactly when no `i64` is it. `DivisionFloors`: `div` fails only for a
zero divisor and a quotient out of range, and `mod` fits it. `RangeIsExact`: the saturating subtraction
refuses no range it should not, and lets none pass. The first three assume `FloatFormat`, what IEEE 754 grants
of casts: the integer part of a float in the range of `i64` is cast back exactly, a float beyond is whole.
Products are kept out of the solver by two lemmas, `Euclid` and `Apart`: a multiple between two neighbours is
one of them.

### What is assumed

The named assumptions of the modules, which TLC evaluates in every run of theirs:

- `Router`: `SizeAssumption` (sizes are naturals, at least one instance and a depth of at least one) and
  `TableAssumption` (connections join instances of the service; a subscriber has no input and no capability:
  its manifest, `bridge.rs:187-207`, names neither).
- `ServicesApi`: `AskAssumption` (what requests may ask for; a PUT has a definition), `TextAssumption` and
  `LoadedAssumption` (nothing that stands for "none" is something).
- `ObserveBus`: `BusAssumption` (log sources are sources, a reader waits for sources, the ring has at least one
  slot). `Bridge`: `BridgeAssumption` (a subscriber has one topic; the two channels have at least one place).
- `PropContext` has no assumption; its theorem has the hypothesis `Language`.
- `Instance`, `Leaf`, `StateStore`, `BlockCache`: bounds and sizes are numbers, periods at least 1 and at most
  the largest time, and, again, "none" is nothing else.
- `Designer`: the services start sound and under their names, and the set of ids is finite, so that a fresh id
  can be chosen.

`LoadedBlocksAreAnswered`, the theorems on wiring and on admission, and `EditsKeepTheWiring` assume nothing of
their constants, those on memory that the width is positive, those on numbers what they name.

### What stays with TLC

Liveness under fairness (`SpawnReturnsOrWaits`, `RetireReturnsOrStalls`, `EveryBatchIsSettled`,
`EveryRequestIsAnswered`, `ReclaimEnds`, `PumpEnds`, `SettlesOnOne`, `EveryEditIsAnswered`), which is out of
the prover's reach. What recursive operators compute: all of `Signals` and of `Expression`, hence
`DecidedAtDeploy` of `Properties`, which relates two of them, and that `Language` is so of this language. Folds:
`min`, `max`, `sort` and the sums of `Numbers`, `Life` of `Engine` and all of `Reader`. And the modules of
operators that no theorem is about (`Blocks`, `Publish`, `Conformance`, and `Client` but for its pushes), whose statements TLC
evaluates over bounded inputs; of `Engine` the registry of WAMR and the instantiations, of `PropContext` the topics of
system blocks (`TopicsAreForLife`), which are about what `Evaluate` computes. Every other invariant and action property of a run, and both refinements, are
theorems.

## 6. Plan

Models: `Service::restart` if it ever has a caller; a crash in the middle of the atomic write of a definition;
the graph of a leaf once the repository has a driver for it; the Designer's sessions, its node table and its
proxy.

Theorems to come: that the table of a service file (`AcceptedTable`) is one `Service` may run on, as a single
theorem from file to router; that the portable subset
lets nothing through that it bars (`Reader`), once its walk can be reasoned about as a fold.

## 7. What the models leave out

Everywhere: the content of batches and manifests, logs and statuses where no property is about them,
who a caller is (which is in `Node`), panics of host threads.

- `Router`, `Service`: the budgets of a guest beyond "its callback ends, perhaps with a trap".
  `Service::restart` has no caller in the repository. A quiet emitter's slot is retried only at its
  next callback, which may never come; the code promises no more, and `EveryBatchIsSettled` leaves it out. Compilation happens before a mailbox exists and
  cannot interleave with routing.
- `ServicesApi`: block resolution beyond "it may fail"; the endpoint `errors`, which reads one
  field; boot's listing of the directory, since one service stands for all, and a spawn of boot's that never
  returns, before there is a request. GET reads the file before
  it takes the lock and may pair a text with the state of its successor; an editor that writes the file
  between the precondition and the write is overwritten. Both are reads of a file without a lock, and
  nothing in the node can prevent either.
- `Instance`: the publisher, which emits nothing; log and expression calls; which engine runs.
- `StateStore`: more than one key per namespace (a namespace is cleared whole), the file format, key and value limits.
- `BlockCache`: the content of documents (which is in `Publish`), trust in keys. `Publish`: digests and signatures as bytes, cosign.
- `Blocks`: rustc and the linker beyond what the generated code relies on, JSON and CBOR as bytes, running cargo.
- `ObserveBus`: filters of the log endpoint, keep-alives, the counters of the drain.
- `Bridge`: the counters of the MQTT transport, `pubsub.toml` beyond its candidates and its pin, MQTT beyond subscribe and publish.
- `Leaf`: the graph of several blocks, which no driver in the repository runs, and the two engines.
- `Node`, `Client`: the text of files, answers and messages; HTTP, escapes in URLs, the framing of MCP; what `show` and `list`
  render; permissions of files; the OpenAPI document.
- `Document`, `Designer`: text and formatting (`toml_edit`), more than one port or property, stage 2
  (which is in `Wiring`, for connections), removal of files by others (an unreadable file stands in), dashboards, taps and manifests.
- `Expression`, `Properties`: text and spans, the builtins (eleven stand for sixty-three; those on numbers
  are in `Numbers`), fuel and size budgets, which no expression of this size can reach; the guest's buffer
  is in `Boundary`.
- `Signals`: UTF-8 and the reading of heads, which are minicbor's; a string cut short is the end of the
  input; floats are their rank; the JSON of `dev run-block`.
- `Numbers`: -0.0 is 0.0; equality inside arrays and maps; strings are their rank; the lexer, and
  what floats sum up to, are constants.
- `Conformance`: the reading of scenario files, the building of golden blocks, the sequence of the entropy, the wording of
  violations beyond which expectation failed.
- `Wiring`: errors about properties beyond that one is missing, spans and texts of errors, the text of the emitted source,
  budgets of size. `Admission`: the parsing of manifests. `Engine`: wasmtime, wasm3 and WAMR themselves, clocks, the source of
  randomness. `Reader`: bytes; globals, elements, data and the bodies of constants are sections it passes over. `Boundary`,
  `Guest`: the logger and the panic handler.
