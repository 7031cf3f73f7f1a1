# Formal model of the Portuni server

Portuni keeps an organisation's graph and files, and runs AI agents on them.
A user opens a *thread* (a session), writes messages into it, and a runner
process (the Claude CLI behind an adapter) works on them, asks questions, and
ends. Threads outlive their runs: a thread that nobody works in is suspended,
can be woken by writing into it, closed, and in the end archived.

Two parts of it are hard to test. One keeps a thread's record, its runner
process and its transcript in step while users, the agent, timers and restarts
act at the same time, and shows every window what happened. The other keeps a
file's copies on several devices, its object on a remote and its record in step
while people edit all three and operations fail half way. This directory models
both, checks them with TLC, and proves the facts the rest depends on with TLAPS.
Paths below are relative to `src/apps/server/` unless they start with `docs/` or
`web/` (`src/apps/web/src/`).

## 1. Inventory

### Session record (`domain/sessions.ts`, `domain/runner/store.ts`)

State: one row per thread (`state`, `waiting_since`, `handoff_path`, counters),
one row per run (`ended_at`, `end_reason`), and an append-only event log, the
transcript. Operations: `transitionSessionState` checks `ALLOWED_TRANSITIONS`
and writes; `suspendSession` checks for itself and writes unconditionally; the
boot sweep and the archive sweep change many rows. Called by the runtime through
a store interface and, in a team workspace, by a central server's REST route.
Hard: a check and its write are two statements. Correct when every change
follows the table, and when a row that says `running` has a run behind it.

### Session runtime (`domain/runner/session-runtime.ts`)

State, all in memory and keyed by thread: `liveRuns` and `currentRuns` (the run
that takes messages; the run whose events count), `runSettling` (a promise
resolved when the end of a run has reached the record), `lifecycleLocks`, the
event queue (a promise chain), `pendingQuestions`, `turnsInFlight`,
`lastActivity`, `closingSessions`, `pendingEndReason`. Operations: the verbs
`sendMessage`, `answer`, `interrupt`, `closeSession`, `handoff`,
`continueSession`, each under the thread's lock; the starts `startTask`,
`startFromHandoff` and the new thread of `continueSession`, without it; the
handler of adapter events; the idle sweep. It calls the adapter and the store,
the adapter calls back through an event sink that nobody awaits. Nearly every
statement is an `await`, so everything here is interleaving. Correct when a
thread has one process, a message reaches one run, a run's end reaches the
record once, and nobody waits for ever.

### Suspend and handoff (`domain/session-handoff.ts`)

State: none of its own; it ends run rows still open (`endDanglingRuns`), writes
the summary file and calls `suspendSession`. Three callers may have one in
flight for the same thread: the event queue after a run, the `handoff` verb
(Předat), and the boot sweeps.

### Boot sweeps (`boot/run-sweep.ts`, `boot/session-sweep.ts`, `domain/runner/run-sweep.ts`, `pid-file.ts`)

State: one pid file per run of the previous life. Runner processes are detached
children and may outlive the server. After a crash the first sweep looks up each
file's run, kills the process of a run still open and suspends its thread; the
second suspends every thread still `running`; then closed threads older than
thirty days are archived. They start after the server listens, so users already
write. Correct when what ran is ended, orphans are killed, and the server itself
never drives two processes in a thread.

### Claude adapter (`domain/runner/adapters/claude.ts`)

State per run: the prompt stream, messages consumed by the turn in progress, the
pending dialog, whether it is ending. Operations: `start`, `send`, `interrupt`,
`answer`, `close`; it emits `turn_ended` (which may fold several messages),
questions, withdrawn questions, and one `run_ended`. Hard: between the moment
it decides to end and the handling of `run_ended` it refuses messages while the
runtime still believes it live.

### Live channel (`api/sessions-ws.ts`, `domain/runner/store-content.ts`, `web/lib/sessions-client.ts`, `web/components/SessionChat.tsx`)

State: the transcript's sequence numbers; per socket one listener per thread and
the subscribes being handled; per client the wanted threads, the last sequence
number seen, requests awaiting a reply, subscribes parked until the next open.
Operations: append and publish; subscribe (access check, listen, replay page by
page, flush what came meanwhile), unsubscribe; the client's receipt of frames,
timeout, loss and reopening of the socket; a chat that mounts and unmounts.
Nobody awaits a frame's handler, so a replay, an unsubscribe and a second
subscribe overlap. Correct when a chat shows a beginning of the transcript that
only grows, catches up, and never loads for ever.

### File sync: copies and pushes (`domain/sync/central/engine-central.ts`, `engine.ts`, `file-content-remote.ts`, `path-lock.ts`, `local-db.ts`)

State: the copy in each device's mirror, a `file_state` row about it (synced
baseline, cached hash and the stat it belongs to), the remote object, the hash
the server has recorded for it, and two locks: the device's per path, the
server's per remote path. Operations: a sync run (sweep, scan, push or pull), an
explicit store or pull, a resolve that keeps one side, a watcher event. Users and
their editors write the copy without any lock. Correct when no push or pull
destroys work that is nowhere else and everything converges.

### File sync: operations and sweep (`domain/sync/engine-mutations.ts`, `pending-ops.ts`, `file-relocation.ts`, `remote-sweep.ts`, `file-content-remote.ts`)

State: the rows of `files`, the objects on the remotes, the queue
`pending_file_ops`, tombstones in the audit log. Operations: rename, move, delete
and create, each writing its intent before the first side effect; the sweep of a
sync run, which retries the node's queue, drops rows whose object is gone,
refreshes hashes and adopts objects without a row. Requests and sweeps overlap;
anything may fail, lose its answer or die in between. Correct when an operation
has its effect once however often it is retried, no deletion is forgotten or
hits another file, and the records come to tell what the remotes have.

### Components without a module

| Component | State | Operations | What is hard | What makes it correct |
|---|---|---|---|---|
| OAuth (`auth/oauth/codes.ts`, `grants.ts`) | codes, grants, refresh tokens | redeem, attach, rotate, revoke | a second redemption before the first is attached | a code yields at most one living grant |
| Watchers (`domain/sync/mirror-watcher.ts`, `remote-watcher.ts`) | debounced paths, a cursor of the remote's changes | pair events, catch up | echoes of own writes | as file sync, through the calls they make |
| Change feed (`infra/change-feed.ts`) | a bounded ring, a cursor per reader | record, read since, reset | a cursor older than the ring or the process | a reader misses no change without being told |
| MCP transports and write scope (`mcp/`, `domain/write-gate.ts`) | HTTP sessions, scope sets | open, expand, gate | expiry against a call in flight | no write outside the scope granted |
| Provisioning (`domain/runner/provision*.ts`) | none | read settings, mint credentials | partial failure | refuses before anything is created |
| Graph domain, database, backup, imports | SQL tables | CRUD, migration | little concurrency of its own | constraints and triggers |
| Desktop shell and web UI | views | presentation | - | - |

## 2. Modules

`SessionRecord` is the state column and its table. `SessionRuntime` extends it
and is the whole machine of one thread. `ThreadLifecycle` is the abstract
specification of a thread, instantiated at the end of `SessionRuntime`.
`SessionRuntimeInv` holds the invariants that the proofs about it show to be
inductive, apart from the proofs so that TLC can check them; `MCSessionRuntime`
extends it and adds the message symmetry for TLC. The theorems are in a chain of
modules, each building on the one before: `SessionRuntime_proofs` (types,
messages), `SessionRuntimeProcess_proofs` (processes),
`SessionRuntimeSettling_proofs` (the ends of runs), `SessionRuntimeRecord_proofs`
(the record, `ThreadLifecycle`) and `SessionRuntimeWork_proofs` (turns and
questions).

`LiveChannel` is one thread's channel between one window and the sidecar;
`ThreadFeed` is what a chat is promised of it, instantiated at its end, and
`LiveChannel_proofs` has the theorems.
`MirrorSync` is one file, its copies and its object, with its proofs in
`MirrorSync_proofs`. `FileOps` is the files of a few nodes, their objects and the
queue, with its proofs in `FileOps_proofs`; `MCFileOps` gives TLC its paths.

The four machines are separate because the code's are: the channel reads of the
runtime only that events are appended and then published, the copies of a file
meet its operations only through the object and its record (`FileOps` has no
copies and `MirrorSync` no renames), and threads and files share no state.

### How SessionRuntime corresponds to the code

One thread is enough: all maps are keyed by session id, no step reads two of
their entries, and the promise chains of two threads share nothing.

Each piece of the code that can be suspended at an `await` is a process with a
program counter, and an action runs from one await to the next one at which
another process could see a difference:

| Variable | Code |
|---|---|
| `state`, `waiting`, `handoff`, `runRow` | the session row and its run rows |
| `ended`, `pidFile` | `run_ended` events in the transcript per run; pid files |
| `live`, `current`, `settling` | `liveRuns`, `currentRuns`, `runSettling` |
| `closing`, `pendingEndReason`, `turnsInFlight`, `question` | the maps of those names (`pendingQuestions`) |
| `quiet` | `lastActivity` lies before the idle cutoff |
| `queue`, `ev`, `draining` | the promise chain of `enqueue`, the place inside the handler of its head, the tail `drain()` awaits |
| `op` | the verb that holds the lifecycle lock, with its arguments and locals |
| `fresh` | the start of a thread created `running`, which takes no lock |
| `sus` | a suspend in flight for each of its three callers |
| `sweep` | the idle sweep between its choice and the end it asks for |
| `boot`, `bootList`, `bootRun`, `crashes` | boot sweeps after a crash: phase, files left, the run whose process is being killed |
| `proc`, `owed`, `asking`, `asked` | the runner process of each run: its state (`orphan`: the server that started it has died), messages it took and has not answered, the dialog it waits on |
| `msgs` | what became of each message: outcome, log entries, runs that took it |

Waiting for the lock is not a state: it is fair and first come first served, so
the verb that runs next is any call a user may have made. A verb that takes the
lock starts with the code's first read.

Things that are deliberate choices of the model:

- Provisioning, reading settings, building a resume brief and checking whether
  a conversation still exists are merged into the step that uses the answer;
  where they can refuse, the action has a disjunct that refuses.
- A rejected write (`MayFailStore`) and a rejected start (`MayFailStart`) are
  choices at each write of the verbs, the handler and the suspend. Reads and
  pid-file writes are not made to fail.
- `TimePasses`, which makes a run quiet, happens only when no verb and no event
  is in progress: the cutoff is minutes and both take milliseconds to seconds.
  What happens between the sweep's choice and its `close()` is interleaved.
- A crash loses all memory, kills the verbs, and leaves rows, transcript and
  pid files. Every runner process becomes an orphan, since the children are
  detached, and may exit at any time (`OrphanExits`) or never. The boot sweep
  looks at the run in one step (`BootSweepsRun`); the kill, the event, the patch
  and the choice to suspend are a second (`BootReapsRun`). An orphan emits
  nothing: the pipes to it went with the server.
- The handler of a question sets `pendingQuestions` in memory and then awaits the
  `waiting_since` patch, and the clearing of one likewise; both are one step.
  Apart from the boot sweep, which clears the flag with the state, only the event
  queue writes it, so `QuestionOwned` speaks of the moments between two tasks of
  the queue. What an answer clears while another question comes up is
  not its subject (the hazards list has it).
- `endDanglingRuns` reads, patches and logs run by run with awaits in between;
  `SuspendEndsRuns` is one step. Its race with the handler of a run's own end
  shows all the same (section 4), as that handler is several steps.
- `settling` is overwritten when a second run starts before the first has
  settled; a verb waiting on the overwritten promise would be in
  `pc = "stuck"` for ever. No run of section 3 reaches it, which is part of what
  `MessageSettles` says.
- An adapter that emits `run_ended` before `start()` has resolved is not in the
  model. `startRun` speaks of it for the scripted adapter of the tests; the
  Claude adapter emits from the loop that reads the process.
- `turnsInFlight` is a natural number, and its decrement stops at zero as the
  code's does.

### How LiveChannel corresponds to the code

| Variable | Code |
|---|---|
| `log`, `published` | rows of `session_events`; what `appendAndPublish` has published |
| `handlers` | `handleSubscribe` calls: place, `cursor`, the last event of the page read, `buffer` (the events after `from` up to `to`: they come in order) |
| `listener` | `Connection.subscriptions`, with the runtime's subscriber |
| `up`, `down`, `isOpen`, `conns` | frames on the wire; the socket |
| `sendQueue`, `subscribed`, `lastSeq` | of those names in `sessions-client.ts` |
| `awaited`, `parked` | the chat's entry in `pendingReplies`; in `parkedSubscribes` |
| `view` | the chat: which mount, the events it shows, loading, loaded or in error |

Events are their numbers and a frame of several is the first and the last. The
access check, each page's query and its sending are steps of their own; frames
arrive in order or are lost with their socket. A publication follows its append
later but in the order of the numbers: the device's own database answers one
append after the other. A chat that has been left open shows what it shows; its
cursor is the client's.

### How MirrorSync corresponds to the code

A content stands for its hash; every edit makes a new one. The stat identity
that guards a cached hash is the flag `fresh` of a row and `same` of a task:
true until the copy is written. A task is a call in progress with what it has
read; `lock` and `remoteLock` are the two path locks. The client's and the
server's halves of a put are one task, because the device waits; the server goes
on when the device dies. That the put fails, or lands and recording it fails,
is `StoreFails`; other failures of a request are `RequestFails`. A download is one
step. When the record has no hash, the code stats the object and then gets it, so
an object replaced in between comes with its predecessor's hash, which the model
does not show. `keep` and `take` are the resolve route's two sides. The
sync run's sweep is reduced to what it does to this file: the listing, later the
refresh of the record. `held` and `outside` are history, for the properties.

### How FileOps corresponds to the code

An object has an identity and a version and stands for its hash. A path is a node
and a name; nodes share a remote or have one each (`Apart`), and a move to another
remote is a copy and a delete. A task is a request or the sweep, from one await to
the next; a retry runs the same steps as the request, as the code's two bodies do
the same in the same order, and differs where they differ: it first asks whether
the record still matches, it refuses another object than was meant, and it does
not note that a copy landed. A rename to a path that is taken by then overwrites
or hides one of the two, as backends do. The sweep's stats of the rows it misses
run concurrently in the code and are one step. Ops are retried in any order: the code
sorts by `created_at`, which tells seconds only. `born` and `dropped` are history.

### ThreadLifecycle

`ThreadLifecycle` says in a page what SessionRuntime does: a state, the serving
run, runs that have stopped, and who took each message. It allows one step that
the transition table does not, `LateSuspend`, because the code takes it
(section 4).

## 3. Runs

The runs of the runtime start from `Spec`, with one thread and two runs, so that
everything that can outlive a run meets the next one. Two messages are enough to
have one in the transcript and one being delivered; a message raced by the end of
a run is retried on the next run, so two runs hold the whole retry, and
`RacesNeverExhaust` states that a third attempt is not needed. Messages are
interchangeable and taken up to permutation in `thread` and `agent`. `MaxQueue`
only stops the adapter from emitting more while events wait; verbs queue their
writes regardless. `CHECK_DEADLOCK FALSE` there and in the channel's runs: a
thread that nobody writes to rests, which the liveness properties tell from a
hang. The file runs check deadlock: a device can always synchronise.

| Run | Question | Particular bounds |
|---|---|---|
| `thread` | With all six verbs raced by run ends, questions and the idle sweep: is there one process, known to `liveRuns`, serving only a running thread; is each message delivered once and none refused; does the machine implement `ThreadLifecycle`? | 1 question, queue 1 |
| `agent` | On a thread created running, whose first start takes no lock and may fail: is the turn count exact when turns fold messages, and questions, answers and Stop interfere? Does the idle sweep spare working runs? Do marks and questions die with their run? | 2 questions, queue 2 |
| `progress` | One crash at any step, users writing during the sweeps, close and handoff: is what was running ended, are orphans killed, and does every end of a run reach the record? | 1 message, 1 crash |
| `faults` | Starts and writes may reject: does the invariant of the proofs hold, is an accepted message delivered and logged once, and does every message settle? | send and close |
| `channel` | Sockets drop, subscribes are refused or time out, chats open and close, events are appended meanwhile: does a chat show a beginning of the log (it implements `ThreadFeed`), lose nothing while its socket lives, stop loading and catch up? | 2 events in pages of 1, 2 sockets, 2 mounts, 1 failure |
| `mirror` | Two devices push and pull a file edited on both and outside: is no unseen work overwritten, are locks given back, does everything converge? | 2 edits, 1 failure or crash |
| `mirror_calls` | A sync run, a store and the watcher on one copy that is being edited: do baselines and hashes stay true, and does no pull destroy work? | 1 device, 2 edits, 1 failure or crash |
| `file_ops` | A request, a sweep, another program and a failure in any order: one row to a path, no deletion forgotten, no newcomer deleted, every retry finished, records and remotes in agreement at last? | 3 paths on 2 remotes, 1 request, 1 failure, 1 foreign act |

The largest, `mirror_calls`, has about 1.7 million distinct states.

Why the bounds are enough, as far as bounds are: with pages of one event a log of
two has a full page, a short one, and an event appended between them; two sockets
are a loss and a reopening, two mounts a subscription that outlives its chat. Two
edits put one on each side of a conflict, or one before and one during a push. In
`file_ops` one request meets a sweep that may retry it, one failure puts it into
the queue, and one foreign act makes the retry find something else; two nodes on
two remotes make a move a copy. More requests do not fit the time: what two
requests do to each other is in the hazards list and not checked.

The `faults` run includes `InductiveInv` itself, the invariant that all later
proofs of the runtime assume, so a change that breaks it shows first as a short
counterexample.

`agent` and `thread` check the marks without failing writes. With them,
`QuestionOwned`, `ClosingOwned`, `EndReachesRecord` and `IdleSweepSparesWork` do
fail: the code logs a failed write and goes on, and promises nothing about the
state it leaves. The steps are in the model (`EventStoreFails`, `EndStoreFails`,
`SuspendFails`) and the hazards list names what each leaves behind.

### Fairness

Weak fairness on the steps of verbs, the lockless start, the event queue,
suspends and boot sweeps: each is a promise chain whose pending I/O returns.
Weak fairness on `ProcessEnds`: `shutdownProcess` closes the prompt stream, then
sends SIGTERM, then SIGKILL. None on users, the agent's own choices, the idle
timer or crashes: users need not write, a turn may last for ever, and no
property relies on either.

In `LiveChannel`, weak fairness on what the server's tasks and the client's event
loop do next, and on reopening: the transport retries for ever. None on users,
drops, refusals or the timeout, which `LoadingEnds` does not need.

In `MirrorSync` and `FileOps`, weak fairness on the steps of every task. The path
lock is a queue, so nobody waits for ever for one that keeps being given back:
strong fairness on taking it. `Converges`, `Reconciles` and `RetriesFinish` are
about users who go on synchronising; that they do is an assumption (weak fairness
on the start of a sync run, strong on a sweep of each node, which waits for
another's).

## 4. Where code and words disagree

Each of these runs checks one property that a comment or a document states, and
TLC finds the shortest behaviour that breaks it.

- `late_suspend`: `suspendSession` writes `suspended` whatever the row says by
  then. A run ends by itself, on a provider failure. While its end is handled it
  is no longer live, so a close finds no live run: it sets no `closingSessions`,
  calls no adapter, and loads the record. The suspend of that end loads it too.
  The close writes `closed`, the suspend `suspended`: a change the documented
  table does not have. (A close that finds a live run is not exposed: its mark
  keeps that run's end from suspending.)
- `missed_events`: a frame that arrives after its chat was closed sets the
  client's cursor again. If the socket drops before the next chat of that thread
  has its replay, the reconnect subscribes after that frame, and the chat loads
  without what came before it.
- `stale_pull`: a central pull downloads before it takes the path lock. A push of
  the same copy in between makes the copy clean, and the pull writes the older
  content back. The solo engine downloads inside the lock and says why.
- `moved_row`: the sweep confirms with a stat of the path it read and deletes the
  row by id. A rename moves its object before the sweep's listing and updates the
  row between the sweep's SELECT and its DELETE: the sweep deletes the row with
  its new path.

The runtime has more of the same kind, met while modelling and not run, because
the properties they concern are checked elsewhere without the trigger:

- `endDanglingRuns` of a Předat finds the row open between the log and the patch
  of an ending run, and logs a second `run_ended` (`EndLoggedOnce` with
  `handoff`).
- The boot sweep removes the pid file of a run that has ended and takes its
  process for gone (`run-sweep.ts`: "nothing to clean up beyond the file"). After
  a crash the row may have been ended by a suspend of the new life while the
  orphan works on: by a Předat that comes before the sweep, or by the end of a run
  started since. Nothing names that orphan any more. `OrphansReaped` says what the
  sweep does achieve and leaves this out.
- When `adapter.start` rejects, the row stays `running` with no run, and later
  messages get the refusal reserved for archived threads
  (`NoLiveRunOnlyArchived` with failing starts).
- The boot sweep of stale rows selects them after the server listens, so it can
  end a run of this life.
- A close during the idle sweep uses up the run's end but not its
  `pendingEndReason`, which the next run inherits (`EndReasonOwned` with `close`).
- A close during the lockless first start of a thread created running leaves a
  process on a closed thread (`ServesOnlyRunning` with `CreatedRunning`).
- An answer's queued write clears whichever question is pending when it runs,
  also one asked since (`clearWaitingIfPending`).
- `startRun` awaits the pid file outside the event queue, so an early `run_ended`
  can try to remove the file before it is written; the next boot sweeps it away.

In the file modules: a scan writes a row back with the baseline it read before
hashing, so a push meanwhile loses its baseline and the identical copy reads as a
conflict; an edit between a pull's write and its stat is taken for the pulled
content and never looked at again; the retry of a move to another remote does not
note that its copy landed and then never finishes; a sweep that dies between a
row and its tombstone leaves none. The properties leave these out by name
(`Masked`, `Undecided`), and the hazards list has each at its line.

## 5. Proofs

No theorem bounds a number; they use the assumptions on the constants' types and,
where their statement says so, that some verbs are not used or some calls do not
fail.

### Session runtime

All of it is for every number of runs, messages and questions and every set of
verbs. Where a property needs more, the theorem says so in its statement, and
section 4 or the list below says what happens otherwise: the hypotheses are
where the code promises nothing, not where the prover gave up.

| Hypothesis | Why |
|---|---|
| `LockedStart`: the thread began as a draft, or nobody closes, hands off or continues it | the first start of a thread created running takes no lock |
| `crashes = 0` (until the process first dies) | the boot sweeps look at rows and files, not at what serves |
| `~MayFailStore` | a write that rejects skips the rest of its handler |
| no `handoff` | a Předat's suspend does not wait for the handler of the end |
| no `close`, no `continue` | the end of a close leaves `pendingEndReason` unconsumed |
| `~MayFailStart` | a rejected start leaves the row running with no run |

**Types** (`SessionRuntime_proofs`; whatever fails or crashes). `TypesHold` is
`[]TypeOK`. It is not inductive: when the handler gives a verb's queued message
its place in the log, it sets the verb's program counter to one that must name a
run, so it has to be known that *this* verb put it there. The invariant adds
`VerbInv` and `VerbTasks`: at most one write of a verb is queued, and as long as
it is, the verb that put it there waits for it with the lock held. The proof has
a lemma per process (verbs, adapter, event handler, suspends, sweeps, boot).

**Messages** (same module, same generality). `DeliveredOnce` counts, so it says
nothing of a message on its way. `MessageInv` does: a message is held exactly
while the verb that carries it holds the lock, and the place of that verb says
whether the transcript has it and whether a run took it. A redelivery goes back to
a place that allows a second delivery and remembers the log entry in `logged`;
that it is never wrong about either is the proof. `MessagesDeliveredOnce` follows.

**Processes** (`SessionRuntimeProcess_proofs`; `LockedStart`; crashes allowed). Two
processes could arise only if a start began while another process was alive, and
nothing in the start looks at processes: it looks at `liveRuns`, awaits, and sets
it. The invariant carries that gap: every process the server drives is the current
run's; the current run is the live one or is being started by the verb that holds
the lock, or as the thread's first; and a verb between its look at `liveRuns` and
its start has seen no run and holds the lock since (`ProcessInv`, with `FreshInv`
for the start without lock, which a crash ends for good). `EndsOver` says that a
`run_ended` waits only for a process that is over, so handling it, which clears
`current`, never leaves one behind. A crash does: `ProcessInv` makes it the only
source of orphans. `OneProcessPerThread` says what that leaves: never two
processes before a crash, and after one never two that this server drives; an
orphan and the process of a woken thread do exist side by side until the sweep
finds the orphan, or it exits. `LiveProcessKnown` follows too.

**Ends** (`SessionRuntimeSettling_proofs`; `LockedStart`). Nearly everything else
rests on one fact: the end of a run is handled before anything else may happen to
its thread. `SettleInv` says how: from its start to the handling of its end
`settling` names the run; at most one end is queued, behind everything its run
emitted; and no verb is on its way to a start meanwhile, because each start first
waits for the run that settles. Together with the above that is `InductiveInv`
(`RunsSettle`), which holds whatever fails, rejects or crashes, and which the run
`faults` checks. From it follow

- `RetriesNeverExhaust`: a message that raced an end waits for it to settle and
  then finds nothing left to race, so the first retry is the last;
- `ClosingMarkOwned`, `EndReasonConsumed`: both marks are keyed by thread; as no
  run can start between an end and its handling, each is read by the run it was
  set for.

**Record** (`SessionRuntimeRecord_proofs`; `LockedStart`, until the first crash,
whatever rejects). `RecordInv`: a verb that closes or parks the thread has found
no agent that takes messages or has told it to end, and holds the lock; the
suspend that follows an end runs before that end settles; hence nobody takes a
thread away from an agent that serves it. `AgentsServeRunning` and
`NoAgentForgotten` follow, and with one invariant each

- `EndsLoggedOnce` (`LogInv`: a run still settling has no end in the transcript,
  and its row is open at most while its end is handled);
- `OnlyArchivedRefuse` (`RestInv`: on a running thread without a live run somebody
  holds the lock to start, close or suspend it, or its last end is unsettled);
- `LifecycleImplemented`, the refinement. The mapping takes the runs that start or
  take messages for `serving`, those that end or ended for `stopped`, and who took
  each message from the history. Actions that change none of these, and of them
  there are many, map to stutters by one frame lemma; the others are a lemma each.

**Work** (`SessionRuntimeWork_proofs`; `LockedStart`, `~MayFailStore`; crashes
allowed). `WorkInv` is `WorkAccounted` and what the counter is while no run is
live (the turn of the message being started, or nothing). Queued turn ends are
counted by the cardinality of `TurnEnds`, a set with a member per turn, instead of
by a sum over the queue: what a task adds when it is queued and takes when it is
handled are then facts about finite sets, and the shift of all places by `Tail` is
a bijection. `AskInv` says of a question that it is queued once, and that the
agent that asked it waits on it unless `unasked` is queued behind it. From both,
`IdleSweepSpares`: when the sweep ends a run, either nothing is owed or a
question is pending, and then the agent waits or has just stopped waiting.
`RecordKnowsQuestion` is `QuestionOwned`, with `RecordInv` until the first crash.

### Live channel

For any numbers of events, sockets, mounts and failures and any page size
(`LiveChannel_proofs`, from `ChannelAssumption` alone). What a chat is owed may
be in the log, in a handler's page or buffer, on the wire or already shown, and
frames that are under way die with their socket, so none of the properties is
inductive.

- `ChannelTypes` rests on `WireInv` and `ClientInv`: a request id is in the
  socket, or handled, or answered, never two of these; ids are at most the chats
  and sockets opened; a closed socket leaves nothing on the wire and no handler.
  `ReplayInv` adds what the locals of a handler mean: everything published since
  it listened and not sent is in its buffer, and the page it read is not behind.
- `FeedImplemented`, the refinement. The first chat of a thread has one subscribe
  per socket, so `BeginningInv` can say that what the chat shows, followed by the
  frames on the wire, followed by what its handler will send, is an unbroken
  beginning of the log (`InOrder`, `Catching`); and the cursor of the next
  subscribe is an event the chat shows. Frames may repeat events and never leave
  one out.
- `LiveChatIsComplete`. A chat that closes and opens again on one socket may be
  served by several handlers at once, each of which replaces the listener of the
  one before, in any order (each waits for its own access check). `CompleteInv`
  splits a later chat's events between two of them: its own handler, which began
  at 0, has sent all it has replayed (`OwnInv`); and once it answers, it and
  whoever listens then have sent, or will, everything up to what that listener has
  reached (`AnsweredInv`). `EndingInv` is the step between: when the last page has
  been read, no handler still waiting can begin behind it. At rest the listener has
  reached the end of the log, and nothing is on the wire.

`NothingMissed`, which `missed_events` refutes, fails where `LiveIsComplete`
makes its exceptions: for a later chat after a drop, whose cursor is the thread's
and not its own, and for a chat whose resubscribe was refused.

### File sync: copies and pushes

For any devices, calls at work on their copies, edits and failures
(`MirrorSync_proofs`, from `SyncAssumption`). None of the properties is
inductive: what a push may overwrite was decided by a check several steps before
the upload, what a cached hash describes by a stat before the read. `SyncInv`
says of every task in progress

- where the contents it carries come from: baselines, and bytes that were
  uploaded or downloaded, have been on the remote (`Sourced`);
- that between the precondition and the upload the remote is still the task's
  baseline, nothing, or a content from outside (`Unraced`), which holds because
  `TypeOK` says that only one task has the server's lock;
- that bytes or a hash whose stat still holds are the copy's (`Described`);
- that a copy about to be written over, unchanged since the guard, was on the
  remote (`Guarded`), which needs the baselines to be true.

`LocksAreHeld`, `BaselinesWereRemote`, `EditsStayVisible` and two action
properties, `PushesAreNotLost` and `PullsSpareLocalWork`, follow. There is a
lemma per action, on top of three that say what a task that moves on, a task that
ends and a written copy leave alone.

### File sync: operations and sweep

For any nodes, paths, requests at once, outside writes and failures
(`FileOps_proofs`, from `FileOpsAssumption`). A request and a retry may work on
the same op and either may end it, so that an op taken out of the queue was
followed by its tombstone is not visible in the queue. `OpsInv` says of every op
that somebody carries, or that waits in the retry's list, that it agrees in kind
and file with the op of that number in the queue, if it is still there, and that
a deletion is in the queue or has its tombstone (`Known`); and of every task what
its step has ascertained (`Fits`): which kind of op it can be, that the object
seen by a retried delete is the one it was aimed at, that the tombstone is
written before the op is taken out. `QueueGoesOn` is what every step leaves of
the queue; two lemmas carry `Known` and `Fits` over such a step, and a lemma per
group of actions shows that it is one. `OneRowPerPath`, `DeletionsNotForgotten`
and the action property `RetriesSpareNewcomers` follow. TLC checks these on a
single request; the theorems hold for any number, retries beside them.

### What is only model-checked

All liveness (`LoadingEnds` and `CatchesUp` of the live channel, the runtime's in
`progress`, `OrphansReaped` among them): the prover has none under fairness and
no `ENABLED`. The other invariants and action properties of the runs, and both
refinements, are theorems.

To run it: `tlc -config thread.cfg MCSessionRuntime` (PROJECT.json names each
run's module and configuration), `tlapm SessionRuntime_proofs.tla`.

## 6. Not modelled

In the runtime: deleting and pruning drafts, renaming, changing model and effort,
counters, event texts, the translation of SDK messages, permission rules, the
handoff's text and upload, the spill and draft sweeps, and the central mode in
which an agent device owns no rows (it has no sweep of stale rows).
`waiting_since` is a flag and `handoff_path` is present or absent. Several
crashes in a row are possible in the model, but the runs allow one: rows of
earlier lives use up the bound on runs.

In the channel: the verbs' frames and their replies, deltas, the broadcasts of
`session_state` and the initial snapshot (they carry records, not the
transcript), the transport of the desktop shell, several windows (the server
keeps nothing they share but the log), and a socket that closes while a subscribe
waits for its access check.

In file sync: the solo engine's own push and pull (the same guards in another
order), native formats and backends without hashes, adoption of untracked local
files, tombstone cleanup and disk moves, folder renames and batches, the local
half of a move, the watchers' own timing, and background pushes of created files.

Not at all: provisioning and instances, the graph, database, backup, imports and
the presentation, which are I/O or single statements; MCP scope and
authentication, whose requests are mostly sequential and whose outcome is data;
the change feed, which is the plan's next step.

## 7. Plan

1. *Thread core*, *LiveChannel*, *MirrorSync* and *FileOps* with their
   proofs (done).
2. *ChangeFeed*: ring, cursor, epoch; abstract specification: an unbounded log.
3. *More of FileOps*: two requests at once on a smaller remote, folder renames as
   sequences of moves, the remote watcher as a second source of adoptions.
4. *Crashes*: boot sweeps over rows accumulated by several lives.
