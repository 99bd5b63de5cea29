# Account Center verification

TLA+ models, model-checking runs and machine-checked proofs for Account Center: a local control plane
that shows AI accounts and connections, and changes the routing or the credentials of an agent runtime
(OpenClaw, Hermes) only through reviewed, claimed and receipted commands.

Paths below are relative to `src/`; `core/` stands for `packages/core/src/` and `cli/` for `packages/cli/src/`.

- [Inventory](#inventory)
- [Modules and how they correspond to the code](#modules)
- [Runs, bounds and fairness](#runs)
- [Proofs](#proofs)
- [What disagrees with the documentation](#divergences)
- [What is not modelled](#not-modelled)
- [Plan](#plan)

## Inventory

### The parts, their state and their operations

| Part | State it keeps | Operations | Hard behaviours |
|---|---|---|---|
| Protected-mutation executor (`core/command-executor.ts`, `core/mutation-contract.ts`) | none; a review is a signed token in the operator's hands | status, guard, preview, apply | expiry between review and apply, retries of one key, a runtime whose answer cannot be trusted, death after the native call |
| Mutation repository (`core/mutation-repository.ts`) | one JSON file and the directory `write.lock` | claim, complete, list | processes racing for a lock nobody waits for, a crash inside it, whole-file writes |
| Guided-auth challenges (`core/auth-challenges.ts`, `core/auth-challenge-store.ts`) | one JSON file and a lock directory | create or reuse, list, view, cancel, complete by proof | expiry during a request, two ends of one challenge, failing writes |
| Guided-auth lifecycle executor, audit store (`core/guided-auth-lifecycle-executor.ts`, `core/audit-store.ts`) | one JSON file of bounded length and a lock directory | probe, durable change, append, list | a durable change without its record, appends that race |
| Listener gates (`cli/server.ts`) | a status, an agents and a pool generation | status, scopes, limits, pool and other protected reads | probes that hang, deadlines, retries, sockets with allowances |
| Native sign-in hand-offs (`core/native-auth-handoff.ts`, `cli/server.ts`) | a map of references, claimed sockets, request tails | preflight, recheck | pipelined requests, peers that leave, expiry, eviction |
| Bounded command runner (`core/runtime-adapters.ts`) | one child process group, timers, captured output | run, terminate | commands that ignore SIGTERM, fork, leave the group, flood or hold their pipes |
| OpenClaw adapter (`core/runtime-adapters.ts`) | none | read status, apply route, apply delete | stale snapshots, aliases and shared e-mail addresses, native commands that do something else |
| Hermes capacity gate (`core/automation-capacity.ts`, `core/hermes-capacity-adapter.ts`, `scripts/export-hermes-automation-capacity.mjs`) | the previous decision, kept by the caller | export | stale evidence, decisions that are lost, damaged state |
| Update Center (`core/update-center.ts`) | an install root and its backups | inspect, plan, execute, roll back | copies that fail halfway, death during a rollback, an artifact replaced after its check |
| Account preferences (`cli/account-preferences-store.ts`) | one JSON file and a lock directory | view, hide, restore | overlapping requests, a lock left by a crash, files of the old schema |
| History and challenge paging (`cli/server.ts`) | none; a cursor in the caller's hands | page | files that change between two pages, answers that overtake each other |
| Control panel page (`cli/server.ts`, the script it serves) | the selected context, the list shown, evidence details, an epoch | load, choose a context, hide and restore, ask for evidence | overlapping loads, a catalog that no longer lists the selection, late answers |
| Command line and its bridges (`cli/index.ts`, `cli/auth-bridge.ts`, `scripts/account-center-mcp.mjs`, `scripts/chatops.mjs`, `integrations/hermes-plugin`) | an input queue, the delete contract read at start | parse, gate, spawn, print, answer | two readings of one message, kills half-way through a mutation, input that ends early |
| Route policy, views, schemas, redaction, rendering | none | pure functions of one status | |

### How they interact

A CLI process or the server calls the executor; the executor reads a status through the adapter, claims
a key in the repository, calls the adapter again to mutate, and completes the operation. The adapter
runs commands through the bounded runner and proves each mutation by a fresh read. The server puts a
gate in front of every status, agent and pool read, and takes the proof of a runtime that a sign-in
hand-off needs from the same status gate. The guided-auth handlers and commands share the challenge file
with each other and the audit file with everything audited. The scheduled Hermes gate starts the export
script and passes it back the decision it kept. The MCP server and the Hermes plugin start the chat
wrapper, which starts the command line; each has a time limit of its own and maps what was printed to an
answer. The page of the control panel reads catalog, status, histories and preferences through the server. All sharing between processes is by files behind lock
directories; all sharing inside the server is by the event loop.

### What makes each part correct

- Mutations: the runtime is invoked at most once under a key; receipts are true, immutable and replayed
  only to the request they are of; nothing runs without a review in its window.
- Challenges and audit: at most one live challenge per key; one request ends a challenge; nothing is lost
  by a whole-file write; the log agrees with the file.
- Gates: one probe per gate however many callers give up; nobody is answered from an older read or
  from another scope's; answers come before the socket is destroyed.
- Hand-offs: references are used once, in time, and evicted oldest first; no request is routed beside one.
- Runner: every run settles in bounded time, leaves no process of its group, and truncates nothing that
  a caller accepts.
- Adapter: `applied` is true of the confirmed agent; a quiet result ran nothing; a delete removes the named
  record.
- Capacity gate: a dated measurement that makes work available is recent; a recovery is announced only after
  its outage.
- Update Center: results tell the truth about the install root; the original files are never lost.
- Preferences: they behave as one set of hidden accounts per scope, however requests overlap, fail and die.
- Paging: pages that follow each other miss no record and show none twice.
- Page: evidence is of the selected context; a page at rest shows what the preferences say of it.
- Bridges: a delete is reported only if this request did it; without the allowance nothing changes the
  runtime; a request that was received is answered.

`PROJECT.json` lists the hazards behind these, each at its line and with the properties that catch it.
Hazards beyond that list, smaller or outside the models: the second termination of a run overwriting the
remembered timer while the first still fires; a script hashed and then run by path; a malformed snapshot
that makes `readStatus` throw instead of falling back; the fresh read after a mutation, which looks at the
exit code alone (`core/runtime-adapters.ts:432`); an account reference, which is the account's position in
the status, so that a stored hidden reference means another account once the list shifts
(`core/public-views.ts:191`); overlapping Hermes exports; two first runs that both create the review secret
(`cli/index.ts:511-521`); the gateway probe command that has no time limit.

## Modules

Each component has one module, and an `MC` module that declares the model values its `.cfg` files use.
`MCLocalServices` is the `MC` module of five components at once.

### `AtMostOnceMutation` and `ProtectedMutation`

`ProtectedMutation` is the life of a protected mutation over any number of processes. A process slot
runs one command at a time; `pc` is where it is in `executeAccountCenterCommand`, `call` its mode, key
and request digest, `snap` the repository file it read, `opId` the operation it claimed, `result` what the
adapter returned, `answer` what it told its caller. `ops` is the repository file, `lock` the directory
`write.lock`: `Free`, its holder, or `Stale`, the directory of a dead process, which nothing removes.
`issued` is every token that was signed; `ran` and `proven` are histories of what reached the runtime.

- `Invoke`, `Refuse`, `Preview`, `Admit`, `Authorize`: the executor up to the repository. A confirmation
  is any token that was printed or an edited one; only a printed one passes (`Verifies`).
- `TakeLock`, `FindLocked`, `ReadRepository`, `RepositoryFails`, `ReleaseToRun`, `ReleaseAndEnd`:
  `withLock`, `read`, `write`. Reading and replacing the file are steps of their own, so an update could be
  lost if the lock failed. `FindLocked` throws at once, as `mkdir` does.
- `ClaimNew`, `ClaimExisting`, `Complete`: the repository's decisions.
- `AdapterBlocks`, `AdapterThrows`, `OwnedDeleteUnavailable`, `NativeStart`, `NativeVerified`,
  `NativeUnproven`: every way an adapter can answer; the details are `OpenClawAdapter`'s.
- `Crash`: a process dies at any label. `Tick`: the clock, which expires reviews.

The request digest, the token's HMAC and the public wording are members of small sets. A process death
during the replacement of the file leaves the old or the new file (`rename`), which is a crash before or
after the step.

`AtMostOnceMutation` is what the lifecycle promises about a key, with no process, file or lock: accepted
for one request, invoked at most once, finished at most once. `ProtectedMutation` implements it with
`phase` and `bound` read off the repository file (`ImplementsAtMostOnce`).

### `GuidedAuth`

Requests of servers and commands over the challenge file and the audit file, each with its own lock
directory. `PollLock`, `GiveUp` and `TakeLock` are the bounded polls of both locks: the challenge lock's
100 attempts of 5 ms and the audit lock's deadline of 1 s with polls of 10 ms are both `Attempts`
polls. `SweepExpired` is the write-back of elapsed challenges, and `Decide...`, `Start...`, `Cancel...`
and `Terminal...` are the outcomes of the store's operations, each reading the clock when the code
does (a cancel reads it twice). `ProbeAudit` and the four audit actions are the lifecycle executor's
order: probe, durable change, append. `ViewReadOnly` is a GET: it reads without a lock and reports an
elapsed challenge as expired without writing that down.

Notes: evidence that is malformed or not bound to the challenge is `NoProof`; answers that commit the
service to nothing are `NoAnswer`; `createWithResult` accepts an `expiresAt`, although today's starts pass
none, and the runs exercise it; the second expiry check of `completeReauthWithProof`, at the time the
request arrived, never fires while clocks do not run backwards; the challenge store's private `write` is
unused; a write whose `chmod` fails after its rename, an error over a file that is already new, is left
out.

### `ListenerGates`

Requests on sockets share three gates. `gate[g]` is the generation callers are given, `running[g]`
the native probes in flight, `age[g]` the ticks since the probe started, `left[r]` the allowance of a
socket. `Arrive` joins the generation or starts one; `Settle` ends a probe and, in the code's order, answers
its waiters and clears the generation; `Deadline` answers `unavailable` and keeps the generation, so that a
retry cannot start a second probe. `ResumeToAgents`, `ResumeToPool` and `ResumeToAnswer` are the
continuations of a handler; `Abort` and an expiring allowance destroy the socket, and the handler goes on.

The event loop runs all promise continuations before the next task. `Quiet` says that none is left, and
everything that is a task of its own waits for it. The agents gate has no deadline; its probe settles by
the runner's limit, the command's 12 s and the grace of 250 ms, which is `SettlesInTime` of
`CommandRunner`. The socket allowance is node's inactivity timer; no byte travels while a handler waits,
so it counts from the request. The branch without OpenClaw is in the module, and the run uses the other one,
which has the gates in a row.

### `NativeHandoff`

The registry (`handoffs`, a set of references numbered as they are issued, which is the Map's insertion order) with `Issue`, `Consume`, `Prune` and `Evict`, and
connections with their claim, the request pipelined behind them and the tail that orders both.
`Validate` claims the connection, `ResolveProven`/`ResolveUnproven` end the status read, `Finish` is the
event of a flushed answer and releases in a later turn of the loop (`Release`), `Close` is a peer that
leaves at any moment. A finish event comes only on an open connection; on a closed one the close event
releases. The slot is reused once its claim is released. What a late finish does to the one-second body
deadline of a pipelined peer is not modelled.

### `CommandRunner`

One run of `execFileRunner`. Processes fork, leave the group (`setsid`), write, close and exit as they
like; `Receive` and `ReceiveTooMuch` capture output in memory up to the limit, `TimeOut`, `Terminate` and
`Kill` are the timers, and `Close` settles the run once the leader has exited and the pipes are at their
end. Every caller passes a timeout. A descendant that leaves the group is not killed, in the model as in
the code; `NoSurvivors` is about the group. Reuse of process ids is not modelled.

### `OpenClawAdapter`

One mutation from its status to its result. The adapter keeps no state, so that one call at a time is
enough; what runs beside it is the world: `Reroute`, `Connect`, `Disconnect` and `PublishSnapshot` are
other surfaces, `NativeRoutes`, `NativeDeletes` and `NativeFails` are the native script, which does what it
was asked, nothing, or the same to another agent, and then claims anything. `Normalize` is the
canonicalisation of accounts, orders and aliases (of an order, what it lists and which comes first), `RouteTarget` and `DeleteTarget` the resolution of what the
operator named, `Proves` the check of the script's evidence, and `FreshRead` the proof: a status of the
moment, possibly of another agent, compared with what was confirmed. A status read falls back to a snapshot
of any age. The owned delete script is external and honest: it acts on the exact id it is given, or on the
alias that folds to it. The e-mail address of a record is constant.

### `AutomationCapacity`

One scheduled export after another: `Start` reads the kept state, `ReadRuntime` and `ReadStatus` run
concurrently while `Turn`, `Publish` and `Tick` change the world and rewrite the status file, `Decide`
evaluates the scope and derives the alert, `Accept` is the gate that sends the alert and keeps the state, `Drop` a decision that is lost,
`Damage` and `Repair` a state file that does not parse and is set aside. `Normalized` dates what is read as
the code does: the status at the moment of reading, whatever stamp the file bears, the usage figures by their
own date, else by the health check's, else at the moment of reading too (`core/runtime-adapters.ts:557`, `:577`,
`:1011`). A read is one step, whichever source of `readStatus` it is from. The runtime's proof is dated when it
is evaluated, like the stand-in for an unreadable status. The pairing is either verified or not
(no connection, several, or no single verified account are one case to the code); one account is measured.
The gate is external: it keeps the state of the decisions it accepts and nothing of the malformed-state
answer. Exports do not overlap.

### `UpdateExecutor`

`executeUpdatePlan` over `LocalFilesystemUpdateAdapter`: files are copied to the backup, removed and
restored one at a time, in any order, and each copy can fail or die with the process. `root` is the install
root, `backups` the backup directories in order, `before` the root when the execution began. The artifact
path is replaced by others at any time (`ReplaceArtifact`). Restart and health are answers of the host.
Executions are not concurrent: the executor is exported and called by one caller at a time. A directory without
files counts as absent: its backup, an empty directory to the code, would hold nothing.

### `HiddenAccounts` and `AccountPreferences`

`AccountPreferences` is the preferences file under its lock directory, for any number of requests: `file` is
its schema and content, `holder` the lock, `at`, `call`, `found` and `reply` where a request is, what it
asks, what it read and what it is told. `FindLocked` fails at once, as `mkdir` does; `ReadToShow`,
`ReadToChange`, `Write`, `Throw` and `Release` are the steps of `withLock` and `setAccountState`; `Crash` is the
death of the process, or an `rm` that fails. `Parsed` is what `read` makes of a file: the second schema as it
is, the first as hiding its accounts in one scope alone. A write that throws after its rename has taken effect
and is told of as failed.

`HiddenAccounts` is what callers can rely on, with no lock and no file: each call takes effect at one instant,
on its own scope, and a call that failed did so once or not at all. `AccountPreferences` implements it
(`ImplementsHiddenAccounts`), with `stage` read off the step and the reply of a call.

### `ControlPanel`

The page's own state: `selected` and `offered`, the loads in flight (`load`), the list shown with the context
it is of and the context named above it (`shown`), evidence requests with the epoch they were made in
(`request`, `epoch`, `detail`). `ReadScopes`, `AnswerBatch` and `RenderWorkspace` are the three moments of a
load: the catalog answers, the batch asked for in the context selected then is answered, and all is rendered
under the context selected *now*; both renderings go through `RenderSelector`, which moves the selection
when the catalog no longer lists it. `ClickVisibility` names the context selected at the click. The preferences
behind it change at one instant, as `HiddenAccounts` allows.

Notes: one visibility change is in flight at a time; the first entry of a catalog is any of its entries;
challenge details are kept under no epoch and are left out.

### `HistoryPaging`

A log that grows, the server's `Page` over its newest `Window` records, and the page's rows and cursor, which
loads and the filter form replace and "load older" appends to. A page is the set of the records on it
(`Following` is what comes after a cursor, `PageEnds` the record a page with a next cursor ends with), and `rows`
the sequence of pages shown. Requests are answered and rendered in any
order. Records do not change: an operation that completes between two pages of a list filtered by outcome is
outside the model. `Window` is 100 for audits, although the handler asks for 1,000 (`AuditStore.list` caps
it), and without effect for the other stores, which list everything.

### `CommandBridge`

One request at a time from a surface (the MCP server, the Hermes plugin, or the wrapper run directly) to an
answer. A message is what the surfaces and the parser can tell apart of it: its verb, whether it begins with
`/auth delete` in plain text, its options, and whether it carries a review, a token and a key.
`Invocation` is the parser's mapping; `ExplicitlyDryRun`, `PreviewDelete` and `NeedsAllowance` are the gate's
reading of the same message. `phase` follows the request through `gate`, `wrapper`, `command`, `mutated` and
`exited`; `Kill` ends the process at any of them, while a native command goes on. `contract` is the delete
contract on disk, which may be edited at any time, `loaded` what a long-running surface read when it started.
`did` records what the request changed. What happens inside a mutation is `ProtectedMutation`'s and
`OpenClawAdapter`'s: here it changes the runtime or not, and is verified or not. Redaction of other output is
left out.

### `MCLocalServices`

Five components that share no state, in one run: the preferences, the page, the paging, the bridges and
the update executor. `component` says whose behavior it is; the variables of the others do not move. Nothing is
shown about their composition, which would be that of independent parts.

### `MCRuntimeAdapters`

In the same way, the two adapters that decide on a status somebody wrote: a behavior is one of
`OpenClawAdapter` or one of `AutomationCapacity`, whose formulas are named `CapacityInit`, `CapacityNext` and
`CapacitySpec` for that. `MCOpenClawAdapter` and `MCAutomationCapacity` are the instances of the runs about one.

## Runs

Every run is exhaustive within its bounds. `bound` constants appear as such in each module's `CONSTANTS`.

| Run | Checks | Bounds and why they are enough |
|---|---|---|
| `mutation` | `NoLostUpdate`, `RunsAtMostOnce`, `ReceiptsAreTruthful`, `AnswersMatchReceipts`, `ConfirmationWindow`, `ImplementsAtMostOnce`, `ReceiptsAreImmutable`, `CommandsEnd` | two processes, one key, a route and a delete request, one crash, a review that expires at the first tick: a race, a retry with the same or another request, a crash at every label and an expired confirmation all occur |
| `guided_auth` | `OneRequestEndsAChallenge`, `AuditsAgree`, `OneLiveChallengePerKey`, `EndedChallengesStay`, `AuditKeepsNewest` | two requests, two polls of a lock, and two instances over the same variables (`instance`): in one, two challenges, a log of one record, so that the second append is at the limit, and one crash; in the other, two ends of one challenge by proof, and a log that keeps both their records |
| `listener_gates` | `OneProbePerGate`, `PoolsAreOfTheirScope`, `AnswersHaveHeadroom`, `NoStaleAnswer`, `HandlersReturn` | two requests of any kind and two scopes; a tick is one deadline, so that the allowances keep the code's order (one phase, one deadline and headroom, three stages and headroom) |
| `native_handoff` | `EvictsOldest`, `AcceptedOnceInTime`, `NoPeerBesideHandoff`, `ClaimsAreReleased` | two connections, a registry of two, three references issued: a third evicts, two rechecks race for one |
| `command_runner` | `SettlesInTime`, `NoSurvivors`, `AcceptedIsComplete`, `RunsSettle` | the leader and two descendants, two streams, a limit of one chunk, time for timeout, grace and one tick more |
| `runtime_adapters` | `AppliedHeld`, `QuietResultsRanNothing`, `DeletesTheNamed`; `DatedEvidenceIsRecent`, `ResumedAfterBlocked` | OpenClaw: three records, two of one e-mail address and one under an alias; two agents, one with an order and one without; one change by another surface. Hermes: staleness of one tick in three ticks of time, so that evidence twice and three times as old occurs; one change of the world, any number of exports, failing reads at each, one damaged state; that the world changes once only is made up for by the proof, which has no such bound |
| `local_services` | `ImplementsHiddenAccounts`; `DetailsFollowTheSelection`, `QuietPanelIsCurrent`; `PagesFollowOn`; `AppliedMeansDeleted`, `UnallowedRequestsChangeNoRuntime`, `EveryRequestIsAnswered`; `ResultsAreTruthful`, `OriginalsSurvive` | preferences: two requests, two scopes, two accounts, any first file, one crash. Page: two contexts, one account, one choice, three loads of which two overlap. Paging: five records of two kinds, a window of three and pages of one, so that the window can drop the record a cursor names. Bridges: every message, surface and configuration, two requests, so that one waits while one runs. Update: three executions over two files with two deaths: a death in a rollback, an execution over the torn root, and another death |
| `delete_alias_collision` | `CollisionsFailClosed`, violated | two records that fold to one id |
| `capacity_recovery` | `RecoveryIsAnnounced`, violated | no time passes: a failed read is enough |
| `stale_capacity` | `StaleCapacityBlocks`, violated | three ticks, one change |
| `stale_panel` | `ChangesStayInTheScopeShown`, violated | as in `local_services` |
| `denied_delete` | `DeletionsAreNotDenied`, violated | as in `local_services` |

Requests and loads are interchangeable in `guided_auth` and `local_services`, whose properties are invariants and
step formulas that name no request of their own (symmetry). `command_runner` and the OpenClaw adapter stop when
their one call is over, and the bounded components of `local_services` and the two runs beside it when their
input has ended, their loads are used up or their lock is a dead process's; these runs do not check for
deadlock, every other run does. `TypeOK` and `OneOperationPerKey` are parts of the proved invariants.

### Fairness

- `mutation` (`CommandsEnd`): a process that runs is scheduled. Nobody has to invoke anything,
  and the lock of a dead process is never released: commands end because nothing waits for it.
- `listener_gates` (`HandlersReturn`): continuations run (weak fairness of `Resume`); the event loop keeps
  coming back to its clock, its timers and the runner's exit events however many requests arrive,
  which is strong fairness of `Tick`, `Deadline` and the settling of the agents probe, since arriving
  requests disable those for the length of their continuations again and again. No fairness is assumed of a
  status or a pool probe: that handlers return nevertheless is the point.
- `native_handoff` (`ClaimsAreReleased`): a connection's own steps happen, since bodies have a deadline of
  one second and the status gate has its own (`HandlersReturn`). Peers owe nothing.
- `command_runner` (`RunsSettle`): the runner's event loop and the clock go on. The command owes nothing.

## Proofs

TLAPS proves the following for every value of the constants, from the assumption named in each module.
Most say only that bounds are numbers and that the special values are not members of the sets they are added
to. `GuidedAuthAssumption` adds that the log and the polls have a limit of at least one, and
`ListenerGatesAssumption` the one fact about times that the code's constants are chosen for, that an allowance
exceeds what the stages of its read may take together: 12.5 s of a status (`cli/server.ts:50`) in its 13 s,
and those with 12 s and 250 ms of the agents (`:77`) and the deadline of the pool in the 38 s of a pool read
(`:133-142`). `AnswersHaveHeadroom` is false without it. `OpenClawAdapterAssumption` adds that folding an id that
is already canonical changes nothing (`canonicalProfileId`, `core/provider-family.ts:8-26`).

**`ProtectedMutation_proofs`**: any number of processes, keys, requests, crashes.
`TypeCorrectness` (`TypeOK`), `UpdatesAreNotLost` (`NoLostUpdate`), `KeysAreUnique` (`OneOperationPerKey`),
`AtMostOnce` (`RunsAtMostOnce`), `ImmutableReceipts` (`ReceiptsAreImmutable`).
`RunsAtMostOnce` is not inductive: that nothing ran yet under the key of a process about to invoke the
runtime depends on who else may hold that key, which depends on the file, which depends on the lock. The
invariant `IInv` spells out this chain. `LockHeld`: whoever is between `mkdir` and `rm` is who the
directory belongs to, so at most one process is. `NoLostUpdate`: then what it read is still the file.
`FreshIds` and `OneOperationPerKey`: then a claim that finds no operation of its key makes the only one.
`OwnsPending` and `OneOwner`: a process at work finds its own pending operation, and no other process works
under its key. `NotYetRun`: then nothing ran under that key before. `CallIsApply` ties a process at work to a
key and a request. The step is proved by one lemma for each part.

Also there: what operators are told, on top of `IInv`. `TruthfulReceipts`
(`ReceiptsAreTruthful`), `AnswersAreBacked` (`AnswersMatchReceipts`), `ConfirmedInWindow`
(`ConfirmationWindow`). `RInv` adds that a result in a process's hand is of the one invocation under its key,
or of none (`ResultIsOfRun`, `ProvenRan`): it cannot be overtaken, since `OneOwner` keeps every other process
from invoking the runtime under that key before the result is stored. Answers stay backed because receipts are
immutable; a token is in its window because it was signed for a lifetime from some earlier moment
(`TokensAreRecent`).

And the refinement: `Refinement` (`ImplementsAtMostOnce`). A claim maps to the abstract
acceptance, a native invocation to the abstract one, a completion to the finish, and every other step to
none. The mapping reads the state of a key off the one operation that `OneOperationPerKey` allows it; that
an applied finish follows an invocation is `ResultIsOfRun` and `ProvenRan`.

**`GuidedAuth_proofs`**: any number of requests, keys, expiries, crashes, and any bound of the log.
`OneLive` (`OneLiveChallengePerKey`), `OneEnds` (`OneRequestEndsAChallenge`), `Agreement` (`AuditsAgree`),
`EndedStay` (`EndedChallengesStay`), and `NewestKept`, which is what `AuditKeepsNewest` checks of each instance.
Both files are written whole, so everything rests on `LocksHeld`, as above; but what a request holds
between reading and writing differs from the file by then, and the clock runs on. `Holding` says what it
may be: a set that is still `Tidy` at the present time and `Keeps` what is in the file. Since the log is written
after the challenge lock was released, a second half is about debts: a record that is owed is of a challenge
that has ended as the record says, in the file or in what its holder is about to write (`View`), is not in the
log and is owed by nobody else (`Owed`); whoever was told of an end can point to it (`Told`). A crash forgets
debts, which is why the log may lack a record and never has two.

**`ListenerGates_proofs`**: any requests and scopes. `OneProbe` (`OneProbePerGate`), `PoolsOfTheirScope`
(`PoolsAreOfTheirScope`), `Headrooms` (`AnswersHaveHeadroom`), `NoStale` (`NoStaleAnswer`, whose
two parts are that asking a gate is never itself answered with success, and that waiting is only in the step in
which the probe settles). A probe is in
flight exactly as long as its gate has a generation (`ProbeOfGeneration`), although a deadline answers the
waiters earlier; and whoever waits does so for a generation that is still to be resolved
(`WaitersAreServed`). Scopes need `PoolAnswers`: between the end of a pool read and the last continuation of
its waiters, nobody can start the next one. `Headroom` is a budget: an open socket has more left than its
generation and all later stages may take (`After`).

**`CommandRunner_proofs`**: any descendants, timeout, grace and output limit. `InTime` (`SettlesInTime`),
`NobodySurvives` (`NoSurvivors`), `Complete` (`AcceptedIsComplete`). `Deadlines` names what keeps an
unsettled run from lasting: its timeout is armed and ahead, or a SIGKILL is, or its leader is gone, its pipes are
destroyed and only the close is left. `Terminations` and `SettledForGood` tell a run that was terminated from one
that settled by itself, and `Conserved` balances what was written with what is in the pipes and captured.

**`AutomationCapacity_proofs`**: any staleness limit, any changes, exports and damage.
`RecoveryFollowsOutage` (`ResumedAfterBlocked`): every blocked state that is kept, being compared or just
decided without an alert is one whose outage was the last alert (`OutageWasAnnounced`).
`DecisionsAreRecent` (`DatedEvidenceIsRecent`): capacity in a record that dates its usage figures was there
at that date or since (`Backed`, of the file and of the status an export read), which reading does not change, so
that its age bounds the age of the evidence; a proof on the table was obtained during this export
(`ProofIsOfThisExport`). Nothing is proved of undated records, and nothing can be: see `stale_capacity`.

**`NativeHandoff_proofs`**: any connections, any bound and lifetime of references. `OldestGo` (`EvictsOldest`),
`OnceInTime` (`AcceptedOnceInTime`), `PeersStayOut` (`NoPeerBesideHandoff`). `Registered` ties the registry to
the history: what it holds was issued, expires as it was issued and is unused. The bound is a fact about `Evict`
(`EvictBound`): each reference that is kept has another number of newer ones, below the bound. A pipelined request
is rejected because it queued behind a claim that was set when its predecessor was validated (`ClaimOfRequest`)
and that outlives it (`PeersSeeTheClaim`).

**`OpenClawAdapter_proofs`**: any accounts, aliases, agents and changes by others, any native script.
`AppliedIsHeld` (`AppliedHeld`), `QuietRanNothing` (`QuietResultsRanNothing`), `NamedAreDeleted`
(`DeletesTheNamed`). What a script claims is worth nothing on its own: `Confirmed` says that what is left for a
fresh status to show is the reviewed change, and `VerifiedIsTrue` that a status which passes `Verified` is of
the confirmed agent and shows it, through the order, its fallback and the pinned profile. `Resolved` carries the
target from the status that was read to the native command. `NamedAreDeleted` has a hypothesis, that no two
records share a canonical id (`OneRecordPerId`): without it the property is false, as `delete_alias_collision`
shows.

**`LocalServices_proofs`**: the components that `local_services` runs. They share nothing, and so do their
proofs.

*The update executor*: any installation, any number of executions and deaths.
`OriginalsAreKept` (`OriginalsSurvive`) and `TruthfulResults` (`ResultsAreTruthful`). A process may die while
the root is half removed, so neither property is inductive: `UpdateInv` adds what each phase knows of the
root (`RootFollows`), that the last backup is a part of it while it is copied and all of it afterwards
(`BackupIsBefore`), and that from the first write to the root on, some backup holds the originals
(`InBackup`). The later backups of a torn root do not matter, since no backup is ever overwritten.

*The preferences*: any number of requests, scopes, accounts and crashes. `PreferencesKept`
(`ImplementsHiddenAccounts`). What makes the write of a whole file safe is an invariant of the lock: whoever is
between `mkdir` and `rm` is its holder, so that what a request read is still the file when it writes. A step
then maps to the abstract step of its own request, and one that moves no stage (taking the lock, reading to
change, releasing after a failure) to a stutter. A crash that leaves its lock only makes later calls fail,
which the abstract specification allows.

*The bridges*: any number of requests. `AppliedIsTrue` (`AppliedMeansDeleted`), `GateIsKept`
(`UnallowedRequestsChangeNoRuntime`) and `NoneUnanswered` (`EveryRequestIsAnswered`). None is inductive:
`BridgeInv` adds that a request that has not reached its command changed nothing (`Silence`), that a change is one the
message asks for (`DidAsAsked`), that the applied text was printed by a delete that was done
(`PrintedMeansDeleted`), that what passed the gate without an allowance was read as a dry run by the gate and
the parser alike (`GateHolds`), and that a server that has left has nothing in progress (`LeftIsLeft`).

*The page*: any contexts, accounts, loads and evidence requests. `DetailsFollow` (`DetailsFollowTheSelection`)
and `PageIsCurrent` (`QuietPanelIsCurrent`). `PanelInv` adds where a selection and a request can come from:
what is selected was so since the last choice (`SelectionIsRecent`), and so was what a request of this epoch asks
for (`RequestsAreRecent`). As long as nothing has overlapped there is one load at most (`OneLoad`), and what
it asked for and was told is of the context selected and as the preferences have it (`BatchIsListed`,
`LoadIsCurrent`).

*The paging*: any queries and kinds of records, any window, page size and growth of the log. `PagesFollow`
(`PagesFollowOn`). The list, and every answer that is on its way to it, is a `Stretch`: nothing that matches is
missing between two of its rows, its cursor is its last row, and without a cursor only what is out of the window
is left. An answer to "load older" that nothing has overtaken begins where the rows end (`Continues`), also
when it is empty, because the window has moved past the rest. `StretchesStay` says that a growing log
changes neither, `PageIsStretch` that the server's answers are such, and `StretchesJoin` that the two make one.

Each invariant's step is proved action by action, and temporal reasoning is left to the last step of each
theorem.

Every safety property that a passing run checks, invariant or action property, is thus proved as well, for
every value of the constants (`DeletesTheNamed` under its hypothesis). Only model-checked are the liveness
properties `CommandsEnd`, `HandlersReturn`, `ClaimsAreReleased` and `RunsSettle`: fairness and `ENABLED` are beyond
the prover.

## Divergences

Five runs show the code doing other than what the repository says of it.

- `delete_alias_collision`: two credential records that fold to one canonical id are said to fail closed
  (`core/runtime-adapters.ts:688-690`); the code omits the later ones only, so that the first wins, and
  a delete can remove a record whose e-mail address was not the one named.
- `capacity_recovery`: while the status is unreadable or the pairing unverified, the export speaks under
  a stand-in reference that takes the connection's place in the kept state, so that the connection resumes
  without the notification that `docs/SHARED_ACCOUNT_AGENT_CONNECTION.md:89` promises.
- `stale_capacity`: stale capacity data are said to block (`docs/SHARED_ACCOUNT_AGENT_CONNECTION.md:67-69`,
  `core/automation-capacity.ts:48-49`). The stamp of a status file is looked up as one nested path,
  `at.generatedAt.updatedAt` (`core/runtime-adapters.ts:557`, `:1070-1076`), which no file has; the status is dated
  when it is read, and so is a record without a date. Both sides of the comparison are then the moment of reading,
  and work runs on a file of any age. A record whose health check only is dated passes with old usage figures
  in the same way (`:1011`), and the pairing of a file has no date at all.
- `stale_panel`: the page says that changes stay in the runtime and scope it names (`cli/server.ts:1442`).
  The list stays on the page after another context is chosen, and its buttons act in the context selected by
  then (`cli/server.ts:1526`, `:1532`): a click changes the preferences of a context the page does not name.
- `denied_delete`: the fixed text for an unproven delete says that no account was deleted
  (`scripts/account-center-mcp.mjs:16`, `cli/owned-delete-contract.ts:13`). It is also the answer when the
  command was killed after its native delete (`scripts/account-center-mcp.mjs:174-176`), and when the delete could
  not be verified afterwards (`cli/index.ts:458-463`). For other commands the text is "attempted but unproven".

Others were met while modelling and are reproduced by the models without a run of their own:

- The operation of a process that died or threw stays pending, and its key is never usable again
  (`docs/AGENT_OPERATIONS.md:20`, `core/mutation-repository.ts:94`).
- An invocation can end without a receipt, when `complete` finds the lock taken or the adapter's
  read throws (`docs/ARCHITECTURE.md:30`, `core/command-executor.ts:127`, `:141`).
- A receipt can say that the runtime was reached when nothing ran: the owned delete script is missing
  (`core/mutation-repository.ts:38`, `core/runtime-adapters.ts:379`, `:421`).
- A cancel of a challenge that elapses during it is written as expired and reported as cancelled
  (`core/auth-challenge-store.ts:74`, `:82`); the audit record of a cancel can be missing
  (`docs/SECURITY.md:26`); an expiry that a GET reports is not durable (`docs/RELEASE_GATE.md:16`).
- A scopes read awaits agent discovery after a slow status, beyond its socket's allowance
  (`cli/server.ts:134`, `:245`, `:569`).
- The artifact is checked and copied by path, so that what is staged need not be what was checked.
- The fresh read after a mutation looks at the exit code and not at the timeout flag.
- An empty route order reads as all accounts, so that removing the last entry is never verified
  (`core/runtime-adapters.ts:1035-1037`).
- A preferences comment says a hidden account can always be restored (`cli/account-preferences-store.ts:21`);
  the lock of a crashed process prevents that until it is removed by hand.
- The MCP server lets a `/auth add ... --dry-run` through as a dry run (`scripts/account-center-mcp.mjs:26`);
  the command line's `startReauth` knows no dry run and records a challenge (`cli/index.ts:721`).
- Challenge details carry no epoch, unlike audit evidence, so that a late answer is shown under another
  context (`cli/server.ts:1532`).
- The audit page asks for 1,000 records and gets 100.
- The wrapper compares the first token of a message with `delete`; it is always `/auth`
  (`scripts/chatops.mjs`), so that its own delete answer is used only when the contract or the tokens are bad.

## Not modelled

- Route policy, views, schema checks, redaction, rendering: pure functions of one value; the route policy
  is in the plan as operators. The commands that only read (`doctor`, `list`, `limits`, `history`, ...) and the
  framing of HTTP requests (headers, sizes, origins) have no order of steps.
- Signature and canonical JSON of update manifests, HMAC of reviews: library work; the models take the
  outcome of the check.
- The idempotency store, the fixture and generic-command adapters, readiness evidence, gateway liveness and
  provider probes, the blocked-delete receipt helper and the maintenance scripts: unused by the program, or
  one call deep. A bridge that kills the command line is a `Crash` of `ProtectedMutation` and a `Kill` of
  `CommandBridge`.
- Hostile file systems, reuse of process ids, clocks that run backwards.

## Plan

The order puts what changes the runtime first, then what shares files, then what shares the event loop,
then what runs beside it.

| Step | Modules | State |
|---|---|---|
| 1 | `AtMostOnceMutation`, `ProtectedMutation`: abstract promise, lifecycle, refinement | checked and proved |
| 2 | `GuidedAuth`: challenges and audit | checked and proved |
| 3 | `ListenerGates`, `NativeHandoff`: the server | checked and proved |
| 4 | `CommandRunner`, `OpenClawAdapter`: the runtime's edge | checked and proved |
| 5 | `UpdateExecutor`, `AutomationCapacity` | checked and proved |
| 6 | `HiddenAccounts`, `AccountPreferences`: abstract promise, file under its lock, refinement | checked and proved |
| 7 | `ControlPanel`, `HistoryPaging`: the page and its lists | checked and proved |
| 8 | `CommandBridge`: from a message to the command line and back | checked and proved |
| 9 | `RoutePolicy`: eligibility and choice as operators, against a reference | open |

Abstract specifications to state beyond `AtMostOnceMutation` and `HiddenAccounts`: a challenge register that each
store operation updates in one step, implemented by `GuidedAuth`; a status service with at most one probe,
implemented by each gate.

Theorems to prove next: that the gates implement the status service and the challenge store the register, once
these are stated; then what `RoutePolicy` chooses.
