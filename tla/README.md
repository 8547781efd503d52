# Verification of the Volc Agent Launchpad (KRYXstal)

TLA+ models of the server in `apps/server/src`, the parts that decide who may
write to a channel, when an agent's turn runs and ends, what an agent may do and
what survives a crash, and of the web client's views that poll it.
TLC checks the models on small instances. TLAPS proves the central properties for
every value of the constants. Line numbers refer to the commit this directory
stands beside; `PROJECT.json` maps every definition to the lines it models.

Contents: [1 the system](#1-the-system) ·
[2 modules and code](#2-modules-and-code) · [3 runs](#3-runs) ·
[4 fairness](#4-fairness) · [5 known divergences](#5-known-divergences) ·
[6 proofs](#6-proofs) · [7 limits](#7-what-the-models-leave-out) · [8 plan](#8-plan)

To check by hand: `tlc -config ChannelCore.cfg MCChannelSync`,
`tlapm ChannelSyncProofs.tla`.

## 1. The system

One Node process serves the web client and the agents. An *agent* is a row in a
JSON database and a Codex child process while it has a turn. Agents and the human
talk in *channels*. A message wakes the members it addresses. Each wake becomes a
*run*: the server builds a prompt from what the agent has not seen, runs Codex,
and posts its answer. While it runs, Codex calls back over HTTP (`post_message`,
`read_channel`, `spawn_agent`, `request_capability`, ...), and each call is decided
against the agent's policy and goes on record.

JavaScript runs one callback at a time, so what is atomic is the code between two
`await`s. All changes of the database are *mutations*, which `JsonStore` runs one
after the other. What is hard is everything across awaits and mutations: what was
read before one and used after it, who comes first in the store's queue, a failed
write between two steps, and the memory that a restart forgets.

| Component | State it keeps | Operations | Talks to | What makes it correct |
|---|---|---|---|---|
| Lock backend (`sync.ts`) | Map of entries, FIFO of waiters per key, timers | acquire, release, wait timeout, lease expiry | called by channel posts | one holder per key unless its lease expired; nobody waits for a free lock; a late release harms nobody; every wait ends |
| Channel synchronisation (`agent-service.ts`, `sync.ts`) | messages and `lastSeq` (database), read cursors (memory), `run.conflicts` | agent post, automatic reply, read, prompt, notices, cards, human post | lock, store, scheduler | an agent posts only after it was shown everything; numbering intact; cursors honest; no feedback storm |
| Run scheduler (`agent-service.ts`) | agent status and runs (database), `activeExecutions`, `pendingWakes`, `cancellationRequests` (memory) | wake, defer, start, execute, finish, fail, drain; start, stop, close, delete | store, Codex runner, channels | no agent stuck busy; wakes coalesce and keep their feedback; a stop waits for its run and holds; every run ends |
| Codex runner (`codex-runner.ts`) | Map of processes with flags, timers | run, cancel, timeout, output ceiling, SIGTERM, SIGKILL | scheduler, the child | a run ends once, as cancelled if it was, when its output is closed |
| Policy engine (`policy.ts`) | none | evaluate, derive a session's policy, override for a grant | authority | deny wins; a grant takes effect; a session stays within what its parent may delegate |
| Authority (`agent-service.ts`) | policies, approvals, grants, decisions, the tree of sessions (database) | decide, ask, resolve, spawn, close, edit, delete | policy, scheduler | an approval is used once; a grant serves one run; sessions close before their parents |
| JSON store (`store.ts`) | the database, its file, a queue of mutations | mutate, migrate, number messages | everybody | a mutation is applied and on disk, or neither |
| Channel registry (`agent-service.ts`) | channels and their members | create, delete, join, post while deleting | store, lock | names are unique; members exist and may post; what is deleted comes to rest |
| Turn taking and chatter (`agent-service.ts`) | participants, chatter count | whom a message wakes, next participant, pass | scheduler | a round reaches everybody; talk comes to rest |
| Traces and reply lineage (`agent-service.ts`) | parents and traces of messages and runs | replyLineage, getTrace | web client | every message hangs off an earlier one; trees are whole |
| Integrations (`integration-service.ts`) | Map of logins, child processes, timers | login, retry, abort, logout, discover, remove | store, MCP client | a login ends and is answered; the Map blocks nobody for ever |
| Review artefacts (`review-artifacts.ts`) | copies of workspaces | publish, read | workspaces, store | what is read is what was published; rows have their files |
| Container runner (`container-codex-runner.ts`) | Map of clients, containers of the engine | run, cancel, remove, limits | scheduler, engine | a run ends by its limits; containers end with their runs |
| Web client (`App.tsx`, `ChannelView.tsx`, `TraceView.tsx`, `api.ts`) | token, overview, selection, message list, trace | poll, select, send, create, delete, lock | HTTP API | what is shown comes to be true, and belongs to what is open |
| Codex home, workspaces, configuration | files | render, create, archive | runner | — (I/O) |
| HTTP API, MCP client, runtime scripts, deployment | none the server relies on | routes, requests | — | — |

The hazards of each part, with the line where each bites and the properties that
watch it, are listed under `hazards` in `PROJECT.json`.

## 2. Modules and code

```
Lease <--refines-- LockBackend <--INSTANCE-- ChannelSync --refines--> SharedLog
                        ^                          ^
                LockBackendProofs          ChannelSyncProofs

Runner <--EXTENDS-- Scheduler        Policy <--EXTENDS-- Authority
                        ^                                    ^
                 SchedulerProofs                      AuthorityProofs

Store --refines--> AtomicStore       TraceTree <--EXTENDS-- Conversation
  ^                                      ^                      |
StoreProofs                              +-EXTENDS-- TraceView  |
                                                         ^      |
                                                         +- TraceProofs <-- RoundProofs

Services:        Registry | Integrations | ContainerRunner | ReviewArtifacts
                   (MCServices and ServicesProofs extend it)
MCConversation:  EXTENDS Conversation ("round"), 3 more deployments as instances
MCViews:         EXTENDS TraceView; WebClient x 2 and ChannelView as instances
```

`Scheduler` and `ChannelSync` each take from the store what `Store` shows: mutations
in order, each whole or not at all. `Conversation` looks at the same handlers as
they do, one step per handler, and asks what they say rather than how they
interleave. `TraceTree` is the client's drawing of a trace: `Conversation` checks it on
what the server builds, `TraceView` on whatever may be sent. The names of `TraceView`
carry the word *View* (`ViewInit`, `ViewNext`, `ViewSpec`), as its proofs are in one module with
those of `Conversation`.

`MC*` modules give the constants names and small sets for TLC. The last three of the diagram put
specifications that share no state *side by side*: the first state chooses one of them
(`setting`, `part`), a behaviour is one of that specification, and the others stay as they
start. So one run explores each of them completely, with its own constants, without multiplying
their states. `Services` does so for any constants. Where a property of one of them is stated of
all behaviours, it holds of the others' behaviours because they do not touch its state.

Definitions marked *Mutant* are deliberate mistakes, each the change of one definition
that a property must notice; nothing but the `mutants` list refers to them.

### LockBackend, abstract Lease (`sync.ts`:74–141)

State: `locks[k]` is the entry of the Map, `waiters[k]` the queue, `call[a]` and
`key[a]` where caller `a` is, and `released[a]` the `released` flag of the closure
its `acquire()` returned. Actions: `AcquireFree`, `AcquireHeld`, `WaitTimeout`,
`LeaseExpires`, `ReleaseHeld`, `ReleaseLate`. `Unlock` is the closure's release,
with the hand-over to the first waiter in the same step. Timers may fire at any
moment, so every race of lease, timeout and release happens.

`Lease` is what a caller may rely on: a key has at most one holder; who finds it free
enters, others wait or give up; and when the holder leaves, by release or by expiry,
the key passes to *some* caller that waits, and is free only when none does. It has
neither order, timers nor closures.

### ChannelSync, abstract SharedLog (`agent-service.ts`, channel paths)

One channel, its agents and the human.
*Database*: `messages`, `lastSeq`, `runSeen` (a run's `seenSeq`), `conflicts`.
*Memory*: `read` (cursors), `owed` (the attempt in a pending regenerate wake), the
lock's variables, `phase` (how far each run is), `tool` (how far each tool call is) and
`human`. A tool call is an HTTP request with a *handler* of its own, one of `Handlers`:
`Call` is its authorisation, for which the run must not be over, and what comes
after goes on whether the run is or not. A run that is cancelled, times out or fails
leaves the handlers of its posts at the lock or in the store's queue
(agent-service.ts:909, 1153), and they take the lock, post and release it when the agent
is off, or in its next run. `counts` has the handlers whose conflicts still matter to their
agent's current run; the others count for one that is over. Each handler, each
agent's `finishRun` and the human's request is a caller of the lock of its own (`Callers`).
*History variables*: `shown` (what an agent was really served) and `base` (the attempt
its run inherited); no guard reads them.

| Action | Code |
|---|---|
| `StartRun`, `StartFault`, `StartElsewhere` | `startRun`'s mutation with the prompt of `buildContextPrompt`; a failed write; a run woken by another channel |
| `Call`, `ReadChannel`, `Denied`, `PostCard` | `authorize`; `read_channel`, a denial's notice, spawn and approval cards |
| `ToolAcquire`, `ToolTimeout`, `ToolCommit`, `ToolFault`, `ToolRelease` | `agentChannelPost` through `performSynced`: lock, validate and commit in one mutation, release in `finally` |
| `ReplyAcquire`, `ReplyTimeout`, `ReplyAccepted`, `ReplyRejected`, `ReplyFault`, `Settle`, `SettleFault` | `finishRun` and the decision on a regenerate turn |
| `EndRun`, `FailRun`, `DropPending` | ends without a reply, with or without handlers under way, and the wakes a stop or a full queue drops |
| `HumanAcquire` ... `HumanRelease` | the human's post |
| `LeaseExpires`, `Restart` | timers; `initialize` and `seedReadState` |

A failed write leaves the database as it was, while what was done in memory inside
the mutation stays done.

`SharedLog` knows the log and, per agent, the set of entries it was shown. An agent
appends only when it was shown every entry of somebody else. Its log is the
state-bearing messages of the channel (`STATE_KINDS`), its views are `shown`. Neither
locks, cursors, notices nor runs occur in it.

### Runner (`codex-runner.ts`) and Scheduler (`agent-service.ts`)

`Runner` is one child per agent, its flags, and `Result`, the order in which
`run()` tests how the child ended. The child does what it likes: it ends well or
badly, ignores SIGTERM, or hangs. That it exits (`Exit`, `ForceKill`) is one thing, and
that `run()` and `cancel()` go on is another: they wait for 'close' (codex-runner.ts:239,
291), which comes when nobody holds the child's output any more. A process that the child
started may (`HeldStates`), no signal of the server's reaches it, and `OutputCloses` comes
when it likes or never. `Reap` is 'close'.

`Scheduler` EXTENDS it and adds: `status` and `run` (database), `queue` (the store's
FIFO), `phase[r]` (where `executeRun` of `r` is), `todo[r]` (whom `wakeMembers` has
yet to wake), `exec`, `pending`, `cancelReq` (memory), `click` (the human's
requests). A request to mutate is appended to `queue`; when it is the head it
commits, and its caller runs on to its next await in the same step:

| Action | Code |
|---|---|
| `Post` | the human's message and its wake |
| `StartGranted`, `StartPointless`, `StartRefused`, `StartMissing` | the outcomes of `startRun`: started; nothing unread; refused and deferred; the agent or channel is gone |
| `CommitLaunch`, `Prepared` | `executeRun`: marked running; home rendered (or not), Codex spawned |
| `Settle`, `CommitFinish`, `Lose`, `CommitFail`, `WakeNext` | the child ended; the reply is committed, or lost to a conflict, or the run fails; members are woken |
| `Drain` | the execution ends; `drainPendingWakes` takes the oldest wake |
| `Click`, `Archive`, `CommitClick` | `startAgent`, `stopAgent`, `closeSession`, `deleteAgent` with `cancelExecution` |
| `LaunchFails`, `FinishFails`, `FailFails`, `ClickFails`, part of `StartMissing` | a write fails; `Over` rejects the execution's promise if the run's end was not recorded |
| `Overrun`, `Exit`, `ForceKill`, `OutputCloses` | timeout or output ceiling, the child, SIGKILL, the end of what held its output |
| `Restart` | loss of memory, `initialize` |

When several callers await one execution, `Resume` lets them continue in any order.

### Policy (`policy.ts`) and Authority (`agent-service.ts`)

A policy is a set of statements (effect, actions, resources) and what may be delegated; the
order of the statements matters only to the wording of a reason. Patterns are related by the
constant `Covers`, of which only transitivity is assumed. `Evaluate`, `MayEver`,
`DeriveSessionPolicy` and `GrantOverride` are operators.

`Authority` is the life of those policies. A tool call that uses, after the
decision was recorded, what it read before has two steps (`Authorize`, then
`RequestCapability` or `Spawn`). A click has two or three: `Click`, then
`CommitCapability` and `GrantOnce`, or `ClaimPrincipal` (`ClaimBusy`) and
`CreatePrincipal` (`CreateFails`). `Delete` and `CloseAgent` push a frame on
`closing`; `Descend`, `Cancel` and `CommitClose` walk the tree of sessions and await
each execution. `StartRun`, `FinishRun` and `EndRun` are what is left of a run: it
binds the grants that wait for it, its process ends, its grants are removed.

### Store, abstract AtomicStore (`store.ts`, `initialize`)

State: the file and the temporary file, what memory shows, the queue, and how far the
mutation at its head is (`Take`, `WriteFile`, `RenameFile`, `Publish`). `PersistFails` may
come at either file operation, `TakeThrows` is a mutation that throws, `Crash` comes
between any two steps. `BootReads` finds a file of any version, upgrades and numbers it
(`MigrateV1`, `AssignSequenceNumbers`), and the first mutation adopts old rows
(`AdoptLegacy`); `BootRefused` is a file that is no database. `AtomicStore` is what a caller
may rely on: a change is applied once and for good or not at all, and the caller is
told which unless the server crashes.

### Conversation (`agent-service.ts`) and TraceTree (`TraceView.tsx`)

State: messages with parent, trace and author; runs; the wakes decided on and not yet
queued (`turns`), deferred wakes, chatter counts. `PostUserMessage`, `PostMessage`,
`ReadChannel`, `Reply`, `LoseReply`, `StaySilent`, `Fail`, `QueueTurn` and `Drain` are
the handlers. `ReplyLineage` gives a post its parent and moves its run, on record: `executeRun`
goes on with the run as it was started, so that what follows a failed run (`Fail`) or a silent
one (`StaySilent`) is in the trace it started in (`StartedTrace`); `Woken` combines
mentions, questions, turn taking and the chatter budget. `TraceTree` has the client's
functions: `Anchor`, `ParentKey`, `Attach`, `MessageDepth`, `ItemDepth`.

### Registry (`agent-service.ts`)

State: channels with name, kind, members and `archived`; agents with status, channels and
policy; the registry's lock; requests and how far each is; runs, deferred wakes and pending
approvals as far as deletion looks at them. A request holds what it read before an await. A new
or edited policy is any of `Policies`, those of the founders any of `Inherited`; the channels
chosen with it are added, `#general` is not. `CommitCreate`, `CreateConflict`, `Archive`,
`CommitAgent`, `CommitUpdate`, `RemoveAgent` and `AppendPost` are the mutations; the rest leads
to or from them.

### Integrations (`integration-service.ts`)

State: the status of each integration for everybody and for single agents, the Map of
logins, the processes and their timers, the store's queue of patches. A login asks,
waits for the directory (`PauseEnds`), spawns, is answered with a URL (`UrlFound`), an
exit, a timeout or an abort, and `FinishLogin` patches when its process exits. `LogoutEnds`,
`CallEnds` (the end of a discovery) and `Apply` come whenever they do. A queued patch may
also be rejected (`ApplyThrows`), because the integration was removed or the file cannot be
written; `Rejected` is what its caller does then.

### ContainerRunner (`container-codex-runner.ts`)

State: the Map's entry, each run's client, container and limits, the one promise of a
removal, the calls of `cancel`. The engine creates (`Create`, `NameInUse`), ends and
removes (`RmSucceeds`, `RmFails`) as it likes; `KillClient` is the fallback, `Settle` the
order of tests in `run`. `Boot` is the clean-up of the start script.

### ReviewArtifacts (`review-artifacts.ts`)

State: the workspace, whose files are nodes with a size; the publication and the file it
is at (`Look`, `Open`, `Read`, `Recheck`), the staging directory, the stored copies, the
rows. `Stage`, `Rename` and `Save` are three steps with a crash or failure possible
between them. `Tamper` changes a stored copy, and `Answer` is what a reader is told.

### WebClient (`App.tsx`, `api.ts`), ChannelView, TraceView

`WebClient` has the token, fetches of the overview in flight (the server reads at one
moment, the answer arrives at another), the selection and its correction (`Settle`), and
one request of the human with the fetch that follows; where the server does not answer at
first, all that can be done is to load the page again (`Reload`). `ChannelView` has overlapping
polls of the open channel, the list, the composer and the message being sent.
`TraceView` has one view of one trace: fetch, timer, retry, unmount, while the chain
grows, goes quiet, and may go on again.

## 3. Runs

| Run | Instance | Distinct states | Shows |
|---|---|---|---|
| `lock` | 4 callers, 2 keys, fair | 1,029 | `NoStrandedWaiter`, `NoOvertaking`, the refinement of `Lease`; `LockMovesOn`: every wait and every grant ends |
| `channel_core` | 2 agents, the human, 3 messages, conflict limit 1, windows longer than the channel, a tool call of each under way beside its run, leases that expire at any moment | 2,360,748 | `ReadBeforeAct`, the refinement of `SharedLog`; `StaleUntilServed`: a rejected post stays rejected until its author was shown the channel; `NoticesKeepViews`, `RegenerateEnds` |
| `channel_faults` | 1 agent with 2 tool calls under way beside its run, the human, 3 messages, windows of one, cards, failing writes, restarts, fair | 415,269 | `FaultsLeaveNoTrace`: the numbering is intact and no lock outlives the post it was taken for; `PostsAnswered` |
| `scheduler` | 2 agents, 1 channel, 2 requests of any kind, 2 runs, 2 posts of the human, trace budget 1, restarts | 2,464,833 | `BookkeepingAgrees`: nobody busy without a run, wakes coalesce; `KilledIsCancelled`, `StopWaitsForRun`, `FeedbackKept`, `StoppedStays` |
| `scheduler_ends` | 1 agent in 2 channels, else the same, and any write may fail, fair | 471,766 | `EveryRunEnds`, `EveryClickAnswered`, each unless output is held open for ever |
| `authority` | a principal and its session, 1 identity to come, 1 request at a time, 2 clicks, 2 runs, depth 2, restarts, symmetry | 1,502,676 | `GrantServesOneRun`, `PrincipalOnce`, `ForeverTakesEffect`, `SpawnDelegates`, `ChildrenCloseFirst` |
| `store` | 2 callers and the boot; no file, or one of version 1, of 2 with or without numbers, or of none; 2 clock times; failures and crashes anywhere, fair | 5,126 | the refinement of `AtomicStore`; `HistoryIsSound`: what was confirmed or shown is on disk, what was rejected is nowhere, no message is lost or renumbered; `EveryMutationEnds` |
| `conversation` | four deployments side by side (below), `talk` fair | 607,363 | `ChainsWhole`: every message hangs off an earlier one of a chain nothing caused, and is drawn once, in order and indented below what it answers, in all four; `RoundCompletes`: the round rests only when every other participant was shown the last word; `TalkEnds` |
| `services` | registry, logins, containers, artefacts side by side (below), logins and containers fair | 386,174 | `RegistryConsistent`, `DeletedRests`, `LoginsConsistent`, `LoginsEnd`, `ContainersAccounted`, `TimeIsBounded`, `ArtifactsConsistent` |
| `views` | the app without and with a token, the list, the trace view side by side (below), fair | 70,770 | `CatchesUp`, `ListSettles`, `TraceIsWatchedAndWhole`, `EndIsShown` |
| `busy_uncounted` | as small as the counterexample allows | until found | section 5 |
| `failure_drops_wake` | as small as the counterexample allows | until found | section 5 |

`BookkeepingAgrees`, `FaultsLeaveNoTrace`, `LockMovesOn`, `HistoryIsSound`, `ChainsWhole` and
most properties of `services` and `views` are conjunctions of named parts, each defined and
explained in the component's module.

Why these bounds are enough:

* *Lock.* Four callers put one holder, one that was expired, and two waiters on one
  key, so that hand-over, overtaking and a timeout in the middle of the queue occur;
  the second key shows that keys do not disturb each other. The safety properties and
  the refinement are proved for every number.
* *Channel.* A race needs one post, one loser and one retry: three messages with two
  agents and the human. `channel_core` has windows of nine, more than the channel
  holds, because with smaller ones a cursor may pass what no prompt quoted
  (section 5); `channel_faults` has windows of one. Two tool calls of one agent, its reply and
  the human are four callers at one lock, of runs that are over, current or yet to come; a second
  agent is one more of them. `MaxSeq` counts posts in flight,
  so no caller is blocked by the bound half-way through. The properties about what an
  agent was shown are proved for every length and number of agents.
* *Scheduler.* Two agents wake each other; two runs let an old one end after a new
  one began; two clicks make stop cross start, close or delete. A wake is made only
  while a run is left for it (`Room`), or when it merges with a deferred one (`Merges`),
  so no execution is cut short by `MaxRuns`.
  A trace budget of one makes the budget's test fail for every reply. Two channels of
  one agent, in `scheduler_ends`, defer two wakes at once and drain them one at a time.
* *Authority.* A grant needs two runs, the one that asks and the one it serves; a
  double approval two clicks on one request; a cascade a parent with a session, and
  another spawned meanwhile. Spare identities, requests and clicks are
  interchangeable and no property names one, hence the symmetry.
* *Store.* Two callers and the boot keep two mutations queued behind one in progress;
  two old messages whose times and places in the file differ are what numbering is about,
  and a file that has numbers already is what must not be renumbered.
* *Conversation.* `chains`: cycles need a run that answers twice, and merging chains two
  posts of the human: 2 agents, 4 messages, a tool call a run, questions, failures, all
  budgets 1. `direct`: the same with a direct message and 3 messages. `round`: 3 agents
  taking turns, with questions, one to speak and two to stay silent, budget 1, 4 messages.
  `talk`: 2 agents that answer anything, chatter budget 3; its bound of 20 messages is never
  reached. Only `round` has the channel that `RoundCompletes` is about.
* *Registry.* 1 founder and 1 agent to come, 4 channels, 3 overlapping requests of seven
  kinds, 2 runs: a late commit needs the request, the one that overtakes it, and a third
  that uses what both made. Policies allow `#general` and the one other name, or nothing.
* *Logins.* 1 integration, shared and an agent's own, 2 requests: a login and the retry,
  logout, removal or discovery beside it, with restarts and writes that fail.
* *Containers.* 2 runs under one name, 2 cancellations, 1 stop of the server, an engine
  that may fail.
* *Artefacts.* 2 paths and 2 files of sizes up to 3 with a limit of 3, so that each fits and
  both may not; 2 changes while they are copied; 1 reader.
* *Views.* With 2 fetches in flight one can overtake the other; a third adds only another
  late one. 2 channels and 2 switches let an answer come back to the channel it was asked
  for, and to another. Traces of 3 messages and a run take every shape the drawing tells
  apart: a missing, foreign or circular parent, above and below a run. 2 retries of a
  trace that has not begun to show.

Deadlock is checked where an agent, the human or a restart can always move: `lock`,
`channel_core`, `channel_faults`, `scheduler`, `scheduler_ends`, `authority` (and
`busy_uncounted`). In the others the requests, posts or switches are bounded, and when
all are used up the system really stops.

Each property of each passing run has a mutant in `PROJECT.json`, a mistake a change
of this code could plausibly make, under which the property fails.

## 4. Fairness

Assumed: armed timers fire (Node's event loop); the store's queue runs, and file
operations end; code after an `await` whose promise settled is resumed, `finally`
blocks included. So `Timers` in `LockBackend`, `Fairness` in `ChannelSync` (one condition for
each handler, for each agent's `finishRun` and for the human: its timeout, commit, release or
settling comes) and in `Scheduler` (the store, the steps of
`executeRun`, the timeout and SIGKILL timers) are weak fairness of exactly those steps.

Not assumed: that a lock holder ever releases, that Codex ends or obeys SIGTERM, that a write
succeeds, that the human or an agent does anything, or that restarts stop. In particular
`EveryRunEnds` and `EveryClickAnswered` rest on the two timers of the runner, which end the
child, and not on `OutputCloses`, of which nothing is assumed: what holds the child's output
open for ever is the exception they name. `LockMovesOn` rests on the timers of the lock. In
`scheduler_ends` writes may fail too; then the execution of a run ends though its record may not
say so (section 5).

The others assume as little. `Store`: a file operation is answered, by success or
failure. `Integrations`: the server's steps and its two timers, that a killed process
exits and that a server that went down is started again; not that a login process prints
or exits by itself. `Conversation`: wakes are queued and runs end, which `Scheduler`
shows (only in the deployment `TalkEnds` is about). `ContainerRunner`: the engine makes a
container or refuses, answers a removal by success or failure, and a signalled client
ends; not that Codex ends or a limit is reached. `TraceView`, `WebClient`, `ChannelView`:
intervals fire, and of fetches made again and again not all fail or are overtaken for ever
(strong fairness of the answers: each fetch may fail, but answers get through at times).
`MCViews` states these once for all parts (`Asks`, `Answers`, `Refuses`, `Arrives`,
`Discards`), which is the same, as only the part at hand has a step.

A restart answers the human's request in `Scheduler`, as the connection is closed.

## 5. Known divergences

Two runs expect a violation; `findings` quotes the sentence of the document:

* `busy_uncounted` — a post that times out on the lock comes back as a conflict which
  `performSynced` does not count (agent-service.ts:911).
* `failure_drops_wake` — after a failed run the drain removes the oldest deferred wake
  and then returns because the status is `error` (agent-service.ts:2612).

The others are stated as properties of the modules, marked *Does not hold*. Each was
violated in the model by the recipe in the last column; anyone who changes the code
there can repeat it. A is `agent-service.ts`; documents are named as in the repository.

| Property | At | What happens | What is said | Recipe |
|---|---|---|---|---|
| `StaleUntilServed` with cards | A:959 | a post is rejected, the agent's spawn or approval card (posted without a check) becomes the newest state-bearing message, and the identical retry is accepted unseen: `staleCheck` takes the agent's own newest message for a current view | docs/SYNCHRONISATION.md:22 | `ChannelCore.cfg` with `Cards <- AllCards` |
| `ReadBeforeAct` with restarts | A:281 | `seedReadState` counts the conflict notice, written in the agent's name because it had *not* seen the channel, as something it has read | docs/SYNCHRONISATION.md:17 | `ChannelCore.cfg` with `MayRestart = TRUE` |
| `StoppedIsQuiet` | A:2682 | a stop finds neither process nor execution while the run's start is in the store's queue; the agent is stopped and Codex starts afterwards | README.md:274 | `Scheduler`: 1 agent, 1 click, `Ops <- StopOnly`, trace budget 2, no restart |
| `RunErrorsPersist` | A:2393 | `executeRun`'s first mutation is outside its `try`: if that write fails, the run stays queued and the agent busy with nothing behind them | README.md:278 | `Scheduler`: 1 agent, no clicks, `Faults = {"launch"}`, trace budget 2, no restart |
| `ResolvedOnce` | A:1829 | two clicks on one capability request pass the test outside the mutation, and both resolve it | README.md:216 | `Authority`: `Founders = {p1}`, `Lineage <- Alone`, `Delegations <- JustShell`, `MaxDepth = 1`, `MaxRuns = 1`, no restart |
| `SessionWithinParent` | policy.ts:230 | a session's actions are granted on every resource, although its parent may be allowed only some | docs/MULTI_AGENT_IAM.md:34 | the same with `Authored <- Authors` |
| `ClosesWithParent` | A:1929 | the cascade reads the children once; a session that was being spawned stays open below its closed or deleted parent | README.md:340 | the same with `Authored <- Authors` |
| `SeqKept` with a clock set back | store.ts:145 | the next boot finds the times out of order and renumbers | store.ts:129 | `Store` with `StepsBack = TRUE`, `OldFiles <- NewFile` |
| `TraceHoldsTurns` | A:1006 | a reply moves its run to a newer trace; what the run posted before stays in the old one without it, and so does what follows its failure or its silence (A:2472, A:2090), which uses `executeRun`'s copy of the run | the comment at A:990 | `Conversation`, `chains` with `MaxTools = 2`, nobody asking or failing |
| `TraceBudgetHolds` | A:2157 | deferred and regenerate wakes start runs after the trace's budget is spent | docs/MULTI_AGENT_IAM.md:162 | the same with `MaxPosts = 1`, `MaxMessages = 6`, `MaxTools = 1` |
| `NamesUnique` with such names | A:482 | an agent's DM is made with the name of an existing channel | the comment at A:596 | `Registry`: `Names = {"dm-bob"}`, `Ops = {"create_channel", "create_agent"}`, 2 requests, no runs |
| `LateWriteRefused` | A:776 | a post that waits for its lock is appended to a channel deleted meanwhile | agent-service.test.ts:128 | `Registry`: `Ops = {"create_channel", "delete_channel", "human_post"}`, no runs |
| `OneCallbackPort` | integration-service.ts:150 | two logins both pass the test for a login in progress, which is before an await | the message at :151 | `Integrations`: logins only, 2 requests, no restart |
| `RetryReplaces` | integration-service.ts:199 | the exit of a replaced login takes its successor out of the Map | the comment at :143 | the same |
| `LogoutSticks` | integration-service.ts:281 | a discovery that was under way during a logout writes `connected` | integration-service.test.ts:163 | `Integrations`: login, logout, discover, 3 requests, no restart |
| `EveryRunIsBounded` | container-codex-runner.ts:117 | a run cancelled before its container exists is never removed, not even by its timeout | docs/ARCHITECTURE.md:89 | `ContainerRunner`: 2 runs, 1 cancel, an engine that does not fail |
| `ContainerGone` | container-codex-runner.ts:124 | a removal fails, the fallback ends the client, the container goes on | README.md:275 | `ContainerRunner`: 2 runs, 1 cancel, an engine that may fail |
| `SourceUnchanged` | review-artifacts.ts:105 | a file written in place while it is read is published | the message at :111 | `ReviewArtifacts` as in `services` |
| `CreatedStaysSelected` | App.tsx:163 | the channel just created is deselected by overviews read before | the comment above App.tsx:149 | `WebClient` as in `views`, no token |
| `RejectedIsOwn` | api.ts:54 | a 401 for an old token locks the app and forgets the new one | App.tsx:76 | `WebClient` as in `views`, with a token |
| `OneActiveRun` | A:2159 | after the race of `StoppedIsQuiet` and a start, an agent has two active runs; the newer takes the Map's entry, so that a stop kills the process but does not await the older run | README.md:270 | `Scheduler`: 1 agent, 1 channel, 2 clicks, `Ops` start and stop, trace budget 2, no restart, no faults |
| `TimeBoundsRuns` | codex-runner.ts:291 | `run` and `cancel` wait for 'close', which every holder of the child's output must let come; SIGKILL ends the child only, and a process it started may hold the output for ever, and with it the run and the click that stops it | docs/ARCHITECTURE.md:89 | `SchedulerEnds.cfg` with `PROPERTIES TimeBoundsRuns` |
| `GrowthIsShown` | TraceView.tsx:331 | a view that asks while no run of the chain is live, between a reply and the run it wakes, say, stops asking and never shows what follows | docs/ARCHITECTURE.md:33 | `Views.cfg` with `PROPERTIES GrowthIsShown` alone |
| `GeneralMayPost` | A:492 | an agent joins `#general` whatever its policy allows: only the channels chosen for it are added to the policy | the description at A:292 | `Services.cfg` with the invariant `R!GeneralMayPost`: the founders' policies need not allow it either |
| `NoLockAcrossTurn` | A:909 | a handler that waits at the lock is granted it after its run was cancelled, timed out or failed, and holds it for an agent that has no run, or in the agent's next one | docs/SYNCHRONISATION.md:142 | `ChannelCore.cfg` with the invariant `NoLockAcrossTurn`, without symmetry |
| `OwnMessages` | ChannelView.tsx:137 | the answer to a sent message is appended to the list of the channel that is open by then | the comment at :70 | `ChannelView` as in `views` |

Seen, where no document says otherwise or the constants exclude it: cursors that pass messages
outside the prompt's or the read's window; a cursor ahead of the channel after a failed write; a
removal by name that reaches the next run's container; a one-run grant that reaches further in
the rendered home than in `decide`; an integration that shows `connecting` for ever, because the
login's exit was missed or the write of its failure failed (integration-service.ts:191), or
because a discovery wrote back what it had read; a handler that outlives its run, whose reading
counts as shown to the agent and whose post is checked against the cursor of the agent's next
run. `channel_core` and the proofs state by their constants where the affected properties hold.

## 6. Proofs

All by TLAPS, from the named assumptions of the modules (`NullAssumption`,
`ChannelAssumption`, `PolicyAssumption`, `MatchTransitive`, `AuthorityAssumption`,
`SchedulerAssumption`, `ServicesAssumption`, `StoreAssumption`, `OldFilesAssumption`),
which TLC evaluates on each run that extends them. `ConversationAssumption`,
`TraceViewAssumption` and `OldFilesInOrder` are hypotheses of the theorems that need them, and
TLC evaluates them too, for each deployment. They ask for what the code fixes:
that null values are no names, limits are positive, founders are finitely many, and what is sent
as a trace has a root and finitely many runs.

**LockBackendProofs.** `TypeOK` is not enough for anything, and `NoStrandedWaiter` alone
is not inductive: a hand-over picks the head of the queue, and only
`QueueAgrees` (queues hold exactly the callers that wait, each once) says that this
caller waits for that key; that a release concerns the current entry needs
`GrantAgrees` (an entry is the one unexpired grant on its key). The invariant is the
four together:

    Inv == TypeOK /\ QueueAgrees /\ GrantAgrees /\ NoStrandedWaiter

From it: `LockTypeOK`, `LockQueueAgrees`, `LockGrantAgrees`, `LockNoStrandedWaiter`,
`LockExclusive`, `LockLateRelease` and `LockImplementsLease`, for any callers and keys.
`LockFirstComeFirstServed` is `NoOvertaking`: it needs, of each step that takes a
caller out of a queue, that the others keep their order, which the lemmas about queues
without one of their members state.

**ChannelSyncProofs.** `ChannelTypeOK` and `ChannelSeqsIntact` hold without conditions:
restarts, failing writes, cards and windows of any size. The rest is proved under

    Undisturbed == no cards, no restart, no failing write, windows of at least MaxSeq

that is, outside the cases of section 5 (the theorems about retries, regenerate turns
and the lock, below, ask for less). `ViewInv` is the invariant: with types and
numbering, `Counted` and `HeadExists` (there are as many messages as `lastSeq`, so a
window of `MaxSeq` covers the channel, and a newest one exists), `CursorWithin`,
`WindowCovered` and `OwnCovered` (what the agent's last run had seen, and what the
agent posted, is covered by its cursor) and `CursorCovers` (what the cursor covers was shown). From it:
`ChannelCursorWithin`, `ChannelCursorCovers`, `ChannelReadBeforeAct`,
`ChannelImplementsSharedLog`. No step of the proofs up to here uses the lock: an expired
lease costs fairness, never read-before-act, because the check is in the mutation that
appends.

`ChannelStaleUntilServed` needs only that there are no cards (the first row of section
5); restarts and failing writes may come. `ChannelNoticesKeepViews` needs nothing.
`ChannelRegenerateEnds` rests on `Counting` (a run's conflicts start from those it
inherited, and a lost reply is one more). `ChannelPostsOwnLocks` is about the lock: whoever is
in it is inside one post, and leaves with it, also a handler whose run is over. The invariant
`LockFits` is that of `LockBackendProofs`, taken as an instance with one key, and how far
each handler (`HandlerFits`), each agent's `finishRun` (`ReplyFits`) and the human
(`HumanFits`) are in a post according to where the lock has them; that they are callers of their
own (`CallersDiffer`) keeps one's step from disturbing another. With it
`ChannelFaultsLeaveNoTrace` holds without conditions. That a lock is held only while there is a
run does not hold (section 5).

**AuthorityProofs.** *The engine*: `GrantTakesEffect`, `GrantKeepsAllows`,
`SessionStaysWithinDelegation`, `DelegationShrinks`, for any policies and any transitive pattern
matching.

*Authority*: `TypeInv` is `TypeOK` with `ClickFits` (a click in progress is on a
request of its own kind, still there); `GrantEndsWithRun` is inductive on top of it. `GrantIds`
(a click makes at most one grant, and makes it when it is answered) carries
`AuthorityGrantServesOneRun`: an identity that may come back would let a grant be bound
twice. `ClaimInv` (a claimed request is no longer pending, and one click claimed it)
carries `AuthorityPrincipalOnce`. `AuthorityForeverTakesEffect` and
`AuthoritySpawnDelegates` are properties of one step from well-typed states, by the
theorems about `Policy`. `AuthorityChildrenCloseFirst` rests on `Cascade`: of the
children a frame of `closing` has looked at, those it no longer has before it are closed, or
are the agent of the frame on top of it; a frame that has cancelled its agent's execution has
none before it; and only the last frame can be a deletion.

**SchedulerProofs.** Between the moment a mutation is queued and the moment it commits
anything may happen, so the invariant `IInv` has to say of each mutation in the queue what
its caller is doing (`Queued`), of each run what may be on record in each phase of its
execution (`RunsFit`), and how the Maps belong to runs: an entry of `activeExecutions` is
an execution of that agent that is not over (`EntriesFit`), and such an execution has its
entry unless a newer run took it (`Replaced`, the case of `OneActiveRun`); runs are numbered
in order (`Numbered`), which says what "newer" means; the runner's Map has the runs that
wait for their process (`RunnerFits`); a deleted agent has no record (`Deleted`); and what a
request killed or awaits is what it met (`ClicksFit`). It is inductive whatever writes fail
and whenever the server restarts (`Invariance`), and gives `TypeCorrect`, `WakesCoalesce`,
`KillsAreRecorded`, `FeedbackIsKept` and `StoppedIsStopped`.

`Ends` adds that what is over is recorded as over (`EndsRecorded`), `BusyHasRun` and
`StopWaitsForRun`; it is inductive with `IInv` under

    EndsAreWritten == Faults \cap {"launch", "failed", "cancelled"} = {}

as otherwise `RunErrorsPersist` is broken (section 5). From it: `Bookkeeping`, `StopWaits`,
`RunsAreEnded`. Any other write may fail. The attempt to prove `StopWaitsForRun` as it was
first stated led to the replaced run it now names: a stop awaits the execution that has the
Map's entry, and no other.

**ServicesProofs.** Every step of the four is a step or a stutter of each (`StepOfEach`), so
each has its own invariant. *Containers*, `ContainerInv`: runs start in order, the Map's entry,
the client and the container are those of one active run (`ClientFits`), and who waits in
`cancel()` waits for a run that is flagged (`CancelsFit`); from it `ContainersAreAccounted`.
*Artefacts*, `ReviewInv`: a publication takes each file once (`TakenFits`), what is staged is
what it took, what is renamed or in the database has its name and the names of its files
(`DiskFits`; tampering changes what is in them), and a reader is answered with what was
published (`ReadsFit`). From it, `ArtifactsAreConsistent`: `StoredIsOnDisk`, `ReadsPublished`
and `WithinLimit`. The sizes of a stored artefact are counted as the bytes its files occupy (a
set of pairs, whose cardinality the library's theorems bound), and each file that is taken adds
as many as the publication has added up. *Logins*, `LoginInv`: what a request is about fits the
step it is at and its process (`RequestFits`), what is queued for it fits the step it waits at
(`WritesFit`), the Map has logins (`MapFits`), and what shows `connecting` has a request that
will settle it, or one of the three that never will (`ConnectingFits`), whichever writes fail;
from it `LoginsAreConsistent`. *Registry*, `RegistryInv`: a request's reading from before an
await still holds where it is used (`CallFits`; what would not is asked again by the mutation),
with what a channel, a DM and a run are to an agent (`ChannelsFit`, `DmsFit`, `RunsFit`,
`MembersFit`). From it `MembersAreReal` (`#general` apart, section 5) without conditions, though
the registry's lock may expire: the names of open public channels differ because the mutation
looks again. `DeletionRests` says of a deleted channel that nobody posts, joins or is woken
there again once what was under way is through: each action is shown to keep `Resting`, from
`RegistryInv`, which says what a call may still hold of a channel. `RegistryIsConsistent`
assumes `DmNamesApart` (the names of direct messages are no names of public channels, and
differ), without which `NamesUnique` fails (section 5).

**StoreProofs.** `IInv == Typed /\ Turns /\ Progress /\ Traces`: types; who may be at work
in which phase of the server's life (so that a boot is alone); what the temporary file
and the disk hold at each step of a write (`tmp` is the new database before the rename,
`disk` after it, and either contains all that the disk did); and where a caller's message
may be found given what the caller was told. What was shown, `memory`, is on disk
because it is replaced only after the rename. The lemmas `NumberedAuthors`,
`AdoptedAuthors` and `MigratedAuthors` say that upgrading and numbering keep every
message. From it: `ConfirmedIsDurable`, `RejectedIsForgotten`, `ShownIsDurable`,
`NothingIsLost`, `StoreImplementsAtomicStore`, for any callers, files and clocks.

The numbers are a second pair of invariants. `assignSequenceNumbers` sorts the messages of a
channel by time and counts through them: `At` is the message of a rank, `Numbering` the counter
after each rank. `Ranks` (ranks and messages correspond, in the order of the times),
`Counted` (there is such a counter, whatever numbers the messages carry), `CountsUp` (it grows)
and `CountsAsWanted` (it gives each message the number it has, if those grow already) say what
it computes. `NumberInv` says of each place a database may be in what has happened to its numbers
there: what requests see, and a mutation from the one that adopts old rows on, is numbered.
`NumbersAreUnique` follows with no condition. `NumbersAreKept` is proved under

    ~StepsBack, OldFilesInOrder

(the clock does not go back; an old file has no numbers, as all of version 1, or has them in the
order of its times, which are past), as otherwise a boot renumbers (section 5). Its invariant
`OrderInv` says that in every database numbers follow times and no time is ahead of the clock,
so that a boot finds the order it left. `HistoryStaysSound` is the property of the run,
`HistoryIsSound`.

**TraceProofs.** *The drawing.* `TreesAreWhole`: in every trace, whatever parents and triggers
are missing, of another trace, or in a circle, `Attach` brings each item to the root, so that
each is drawn once. `ClimbIsClosure` says that `Climb`, which follows parents as often as there
are items, is the least set closed under them; `NextComesBack`, that a finite set closed under
parents has an item on a circle, and `Attach` takes exactly those to the root. *The view*,
`ViewIsWatchedAndWhole`: what is shown as running is watched, by a fetch or a timer (what is
shown as over is not, though the chain may go on, section 5), and what is drawn is a trace that
the server sent, drawn whole; the invariant says in which state of the view a fetch is in flight
and a timer is set, and how many retries are left. *The server*, `ChainsStayWhole`:
`ConversationInv` relates messages, runs and the wakes between them. A message hangs off an
earlier one of its trace or begins it (`MessageFits`); a run is triggered by a message of its
channel and trace that is there (`RunFits`), also when `ReplyLineage` moves it to a newer one,
and so is it in the trace it started in, where what a failed run posts goes; and that is its
last word (`FailureIsLast`). It makes `GetTrace` of every chain acyclic, by a rank that falls
from each item to its parent (a message is ranked by its place, a run just after its trigger),
and indents each message below what it answers.

**RoundProofs.** `RoundReachesEverybody` is `RoundCompletes`: a round does not break off
because a silent run, a lost race or a coalesced wake drops the turn. It is proved under

    MaxPosts = 1, MaxTools = 0, MayFail = FALSE

for any agents, channels, members, mentions, questions and budgets. The invariant `RoundInv` adds to
`ConversationInv`, for each channel where an agent spoke last and no budget is spent, `RoundFits`: an
agent is shown the newest message at most once; who was shown it and said nothing passes the turn on;
and who follows one that passed, or the speaker, in `ParticipantOrder` was shown it or is owed a turn,
which is queued or deferred.
`RoundIsClosed` is the argument: at rest nobody is owed anything, so the set of those who were
shown the newest message, with its author, is closed under `NextAfter`, and going on from one to
the next comes to every participant. `SaidInRound` says of every message that its author was a member
and had read all up to it, so that a question is answered where it was asked.
The hypotheses are those of `round`. With two posts, or runs that fail, TLC finds rounds that rest
early: a run of the other chain, or one that ended in an error, is shown the last word and passes no
turn on. Tools broke it in no instance that was checked, and are not covered by the theorem.

**Induction.** The library's induction theorems take an operator, which the provers cannot
instantiate. `Least` and `AllNat` say the same of *sets*: a set of natural numbers that is not empty has
a least element (`WFMin`, a theorem about sets), so one with 0 and every successor is `Nat`.
`Recursion` and `Counted` build from it the function that a recurrence defines.

**Only model-checked.** Liveness (`LockMovesOn`, `PostsAnswered`, `EveryRunEnds`,
`EveryClickAnswered`, `EveryMutationEnds`, `TalkEnds`, `LoginsEnd`, `TimeIsBounded`,
`CatchesUp`, `ListSettles`, `EndIsShown`), which is out of this prover's reach; with it
`WebClient` and `ChannelView`, whose checked properties are all liveness.

## 7. What the models leave out

* *ChannelSync.* An agent has as many tool calls under way as `Slots`. Whom a message addresses, the
  reply's lineage and all text are left out; conflict, denial and system notices are
  one kind. `recordSync` and other rows that only traces read are left out.
* *Scheduler.* Every agent is a member of every channel, and a human message addresses
  one agent. Which members a reply wakes (mentions, chatter, turn taking) is any set of
  those that can be woken; `Conversation` says which. The lock and `read_channel` are
  `ChannelSync`'s. The mutation that removes grants and the recording of the conflict are
  folded into the step they follow. Timeout and output ceiling are one flag. Closing is
  `closeSession` of one agent; its cascade is `Authority`'s.
* *Runner.* A child that cannot be spawned is a run that fails without one; that the human
  cancels between `spawn` and the 'error' event is left out. Which process holds the output,
  and how many do, is not told apart.
* *Authority.* One cascade at a time, and each click is spent once. The statuses
  `stopped` and `error` and membership of channels in `decide` are left out;
  `request_principal` and `close_agent`, which check nothing again after the decision, are
  one step. Policies a human may author stand for what `normalizePolicy` and
  `grantChannels` return. Sessions are spawned with any of the set `Delegations`. The
  rendered Codex home applies a one-run grant with `grantOverride` (agent-service.ts:1253),
  which is not modelled.
* *Store.* A message is its author, time, number and channel; the other tables of the
  database are not told apart. Disk blocks are not modelled: a rename is atomic and what was
  written is there after a crash of the process.
* *Conversation.* Every agent is ready and may read and write everywhere; whom a text
  mentions is a choice; handlers do not interleave.
* *Registry.* No policy denies a channel by name; a policy is the set of names it allows, one
  of `Policies`. *ReviewArtifacts*: links, the tests of
  names, and who may publish. *ContainerRunner*: one agent. *Integrations*: credentials,
  allow-lists and presets. *ChannelView*: mentions, scrolling, the limit of 200 messages.
* *Not modelled*, as they keep no state the parts above rely on: the Codex home,
  workspaces and configuration (they render, create and parse files), HTTP routes, the MCP
  client and the runtime scripts (they pass requests on), the web client's forms and panels
  (`AgentWizard`, `Inspector`), deployment (data). The string work of `mapToolCall` and of
  the exec rules is outside the models of policy.

## 8. Plan

1. *Proofs*: `RoundCompletes` of rounds with tools.
2. *Tool tokens* (agent-service.ts:1189–1213): a token is valid while its run is.
3. *Rendered home*: what a one-run grant lifts there and in `decide`.
4. *Inspector*: drafts of a policy that an overview overtakes.
5. An abstract runner that `Runner` and `ContainerRunner` both refine.
