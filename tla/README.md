# Rolekit in TLA+

Rolekit runs a *role* (a prompt, an output schema, requested capabilities) on an
*executor*: the Pi, Pi RPC, Cursor or Codex command-line agents, or any adapter a
caller registers.  This directory specifies the parts of it in which several things
happen at once, model-checks them with TLC, and proves every safety property it checks
with TLAPS.

Source paths below are relative to `src/` of the repository.  `PROJECT.json` maps
every definition to the lines it stands for.

## 1. Inventory

### The system and how its parts interact

```
 caller ── run()/cancel() ──> Rolekit (core/rolekit.ts)
   │  AbortSignal                │  prepare, probe, admit, execute, cancel; emitEvent
   │  onEvent callback <── RunEventEmitter (core/events.ts)
   │                             ▼
   │                   ExecutorAdapter: CliAdapterBase (adapters/cli/base.ts)
   │                     │                                    │
   │           runCliProcess (cli/process.ts)      PiRpcAdapter.executeCli
   │             pi, cursor, codex                     │
   │                     │                         PiRpcClient (pi-rpc/rpc-client.ts)
   │                     └── terminateProcessTree (cli/termination.ts) ──┘
   ▼
 runCli (cli.ts) ── config/loader, config/resolver ── composition.ts
```

Everything is one JavaScript thread: code runs without interruption from one `await`
to the next, and concurrency is the interleaving of such sections with timers, child
process events, promise continuations and abort signals, plus the operating-system
processes outside.

| Component | State | Operations | What is hard | What makes it correct |
|---|---|---|---|---|
| `Rolekit.run` (`core/rolekit.ts`) | `#activeRunIds`; per call the plan, admissions, probe, `cancelPromise`, abort listener | `run`, `cancel`, `register*`, `compile` | aborts between any two awaits; late answers; throws on every path; run ids reused | one holder per run id; aborts never missed, never overridden; no probe after a static denial, execution only after both admissions |
| Event stream (`core/events.ts`) | `#sequence`, `#terminalEmitted` | `emitStarted`, `emitAdapter`, `emitTerminal` | emission may throw half way; adapters emit at any time | growing numbers, started first, one terminal event that agrees with the result |
| Plan and finalization (`core/execution-plan.ts`, `execution-contract.ts`, `response-validation.ts`, `digest.ts`) | the plan and the receipt, documents in their callers' hands; snapshots of them while digests are awaited | `createExecutionPlan`, `finalizeExecution` | plans and receipts edited, resealed, and edited again during the awaits; combinations of status and defect | what is accepted could have been created; a completed result is earned; the result is that of the call |
| Data contracts (`core/json.ts`, `schemas.ts`, `validation.ts`, `capabilities.ts`, `errors.ts`) | none | parse, snapshot, redact | text | pure functions |
| CLI runner (`adapters/cli/process.ts`) | output buffers, timer, listener, `terminalError` | `runCliProcess` | abort, timeout, output limit, exit and spawn errors race | settles once with the first cause, nothing left unkilled |
| Termination (`adapters/cli/termination.ts`) | none (the process table) | `terminateProcessTree` | POSIX: group gone, unreachable, stubborn, forking; Windows: three helpers under one deadline, any of which fails, hangs or reports success too early | what is left after the grace is killed; success means that nothing is left |
| Pi RPC client (`adapters/pi-rpc/rpc-client.ts`) | `#pending`, `#failure`, `#closing`, `#closed`, output counter | `request`, records, failures, `close` | answers out of order, late or wrong; bursts of failures; concurrent `close` | each request settles once, with its own answer; the first failure is final |
| Pi RPC adapter (`adapters/pi-rpc/pi-rpc-adapter.ts`) | dialogue position, `settled`, `terminalError`, abort listener | `executeCli`, probe | abort during each step; two closers | an answer only after the whole dialogue; no process left |
| CLI adapter base (`adapters/cli/base.ts`) | `#inflight` by run id | `probe`, `admit`, `execute`, `cancel` | two executions of one run id; cancel before the entry exists | cancel reaches what it names |
| Pi, Cursor, Codex adapters | Codex: temporary files | one `runCliProcess` call and parsing | Codex: cleanup on every path | no temporary file left, primary error kept |
| Configuration loading (`config/loader.ts`) | chain of visited files, effective and declared entries | `loadRolekitConfig` | cycles and diamonds over differently spelled paths, order of overriding, files that fail half way | only trees load, nothing is left out |
| Configuration binding (`config/resolver.ts`, `config/secrets.ts`) | the opaque handle, compiled bindings, the registry | validate, compile, probe, resolve | role specs edited between calls, an environment that changes, adapters that copy secrets about, into descriptors too | exact selection, validation that predicts compilation, secrets that stay private and arrive |
| Command line (`cli.ts`, `composition.ts`) | `receivedSignal`, the controller, exit code | `runCli` and its ten commands | a signal at any await or during rendering, failing output | exit code and envelope agree; nothing is started after a signal; every interrupted command ends |
| Conformance kit (`testing/*`) | test harness | | | states what adapters owe (section 7) |
| Scripts, generated schemas | | build | | |

The hazards, each at its line and with the properties that cover it (or why none
does), are listed under `hazards` in `PROJECT.json`.

### What is modelled

| Module | Models | Composes |
|---|---|---|
| `RunContract` | what `run()` promises: the abstract specification | |
| `RunEvents` | `RunEventEmitter`, as operators on a record | |
| `RolekitRun` | `Rolekit.run` with all its awaits and error paths | `RunEvents`; implements `RunContract` |
| `MCRolekitRun` | symmetry for TLC | `RolekitRun` |
| `RolekitRunProofs` | theorems about `RolekitRun` | `RolekitRun` |
| `ProcessTree` | the process group and `terminateProcessTree` on POSIX | |
| `CliProcess` | `runCliProcess` | `ProcessTree` |
| `CliProcessProofs` | theorems about it | `CliProcess` |
| `CliAdapter` | `CliAdapterBase` with the Pi, Cursor and Codex executions | the contract of `CliProcess` |
| `CliAdapterProofs` | theorems about it | `CliAdapter` |
| `PiRpcClient` | `PiRpcClient` | `ProcessTree` |
| `PiRpcRun` | `PiRpcAdapter.executeCli`, the RPC part of `probe`, and their abort listeners | `PiRpcClient` |
| `PiRpcProofs` | theorems about the client and about what runs on it | `PiRpcRun` |
| `WindowsTermination` | `terminateWindowsProcessTree` with the process tree it acts on | |
| `WindowsTerminationProofs` | theorems about it | `WindowsTermination` |
| `PlanFinalize` | plans, their integrity, `finalizeExecution` | `RunEvents` (the statuses) |
| `MCPlanFinalize` | symmetry for TLC | `PlanFinalize` |
| `PlanFinalizeProofs` | theorems about it | `PlanFinalize` |
| `ConfigLoad` | `loadRolekitConfig` | |
| `AdapterConfig` | classification, redaction and resolution of options, as operators | |
| `ConfigBinding` | validation, compilation, inspection, probing and resolution of bindings | `ConfigLoad`, `AdapterConfig` |
| `MCConfigBinding` | documents, profiles, schemas and adapters for TLC | `ConfigBinding` |
| `ConfigBindingProofs` | theorems about the walk, the calls and the secrets | `ConfigBinding` |
| `CliCommand` | `runCli` and its commands | `RolekitRun` |
| `CliCommandProofs` | theorems about it, and that it refines `RolekitRun` | `CliCommand`, `RolekitRunProofs` |

## 2. Plan

Written in the order of importance; all but the last two are done.

1. `RolekitRun` against `RunContract`, with proofs.
2. `ProcessTree` and `CliProcess`.
3. `PiRpcClient`.
4. `PiRpcRun`, which composes the client, the process tree and the abort listener.
5. `CliAdapter`: `#inflight` and cancellation by run id, probes, temporary files.
6. `WindowsTermination`: the listing, `taskkill`, the fallback and their one deadline.
7. `CliCommand`: `runCli` with its signal handlers, on top of `RolekitRun`.
8. `PlanFinalize`: integrity of plans and judgement of responses, with proofs.
9. `ConfigLoad`, `AdapterConfig` and `ConfigBinding`: from files to the options an
   adapter runs with, with proofs.
10. `OneShot`, an abstract specification (accepted, first cause, settled once, nothing
    left) that `CliProcess` and `PiRpcRun` implement, and which `CliAdapter` uses in
    place of its `running` phase; an RPC session that `PiRpcClient` implements.
11. The compilation of a task target (`compileTaskExecutionTarget`): host and adapter
    admission on top of `ConfigBinding`.

Every safety property of the passing runs has its theorem (section 6).  Theorems still
worth adding belong to the two items left: that `CliProcess` and `PiRpcRun` implement
`OneShot` and `PiRpcClient` the RPC session, step by step, and what admission may see of
a handle.

## 3. The modules and the code

### RolekitRun

One action is the code between two awaits of one call; `pc[c]` names the await the
call is suspended at.  The table lists them in order.

| `pc` | suspended at (`core/rolekit.ts`) | left by |
|---|---|---|
| `idle` | not called | `Refuse`, `StartThrows`, `StartDenied`, `StartAborted`, `StartProbing` |
| `planTerminal` | the plan of a run denied or aborted before the probe | `TerminalPlanned`, `Throws` |
| `probing` | `adapter.probe` | `ProbeSettles`, `Throws` |
| `planRuntime` | the plan of a probed run | `RuntimePlanEnds`, `RuntimePlanExecutes`, `Throws` |
| `executing` | `adapter.execute` | `ExecuteSettles` |
| `awaitCancel` | `cancelPromise`, in the `finally` of execute | `CancelAwaited`, `Throws` |
| `finalizing` | `#finalizeTerminal` | `FinalizeSettles`, `TerminalEventThrows`, `Throws` |
| `returning` | the terminal event is out, `run()` resumes | `Return` |
| `throwing` | the terminal event could not be emitted | `Throws` |
| `settled` | | |

- `activeRunIds` is `#activeRunIds`; `listener` the registered
  `requestAdapterCancellation`; `cancelRequest` the life of `cancelPromise` (`queued`
  until the microtask calls `adapter.cancel`, `called`, `settled`); `executed` the
  calls whose adapter holds `context.emitEvent`, for ever.
- `admission` is the verdict of the static admission and `runtimeAdmission` that of the
  runtime admission, which the code computes from the probe; each is given once and
  kept.
- `Start…` claims the id and emits the started event in one action, since the code
  does it without an await.  `StartThrows` includes every throw before the first
  await; nothing of it but the events is visible afterwards.
- `Decided` is the check after `execute`: an aborted signal overrides the answer and
  the error alike.
- `Normalized` stands for `finalizeExecution`: a completed response may turn into a
  failed one, an invalid response always does.  Which responses do is the subject of
  `PlanFinalize`.
- The adapter is nondeterministic: any status, an invalid response, or a throw, at any
  time, with events before, during and after execution.  An event that fails
  validation throws to the adapter before the counter moves, which is a stutter.
- Callbacks the code makes inside a section may abort a signal or start another call.
  The section reads no shared state afterwards that it has not read before, except the
  signal after the started event, so these effects are the same as separate actions
  just before or after.

### RunEvents

An emitter is the record of the class's fields and the events delivered.  `Emit` takes
the number first and may then throw (`ok = FALSE`): the gap is modelled, because the
property about numbers is about exactly that.

### ProcessTree, CliProcess

`ProcessTree` is the operating system and `terminateProcessTree`.  Processes fork,
exit, or ignore SIGTERM (`stubborn`); the group may be out of reach
(`groupReachable`), in which case only the leader is signalled.  Each caller of
`terminateProcessTree` is a *terminator* with its own SIGTERM, grace and SIGKILL.
`CliProcess` is `runCliProcess`: `Enter`, `ResolveFails`, `ResolvedAborted`,
`SpawnThrows` and `Spawn` up to the running child; `Data`, `Timeout`, `Abort`,
`ErrorEvent`, `CloseEvent` its handlers; `TerminationSettles` the continuation of
`terminateWith`.  Bytes are units; a chunk of two units against a limit of two makes
the partially kept chunk happen.

### CliAdapter

A *use* is a `probe()` or an `execute()` of one adapter object.  An execution's phases
are the awaits of `executeCli`: making the temporary directory, writing the schema
(Codex), running the command, reading its output file (Codex), removing the directory;
then `ReleaseEntry` is the `finally` block that deletes the `#inflight` entry if it is
still this execution's.  A probe makes one or two directories, runs `--version`,
`--help` and two processes for each behavior check, and removes the directories.  Every
step may fail; `prepareEnvironment` may throw too, which rejects the probe
(`ProbeUnmade` and `ProbeThrows`; in the second case the directories go first).  `kind` is `codex` or `plain` (Pi and Cursor): they differ in the files
they use and in what a failing removal does to an earlier failure.  The `running`
phase keeps of `runCliProcess` what `CliProcess` checks: it settles (`Settles`), it does
not resolve once aborted (`FirstCauseWins`), and it rejects with the abort only if there
was one.

### PiRpcClient, PiRpcRun

`PiRpcClient` keeps `#pending` as a set of ids; the map's entries are `command`,
`outcome` and the timer, which runs while the id is in the set.  `Fail` is `#fail`,
used as the code uses it by the timeout, bad output, stdin errors and process errors.
`close()` is three awaits (`ExitAwaited`, `TerminationAwaited`, `CloseReturns`) for
each caller.  The output limit counts in units coarser than a record.

`PiRpcRun` adds the dialogue of one client, started for a `use`.  An execution
asks what its `script` says, waits for `agent_settled` and asks a final `get_state`; a
probe only asks, and ends with an `abort` request of its own (`Certify`).  Both have an
abort listener and a `finally` block that closes the client.  The listener of an
execution asks pi to abort first and closes afterwards; that of a probe closes at once
and nobody waits for it, and a probe whose signal is already aborted calls it and throws,
so that two `close()` calls start in one step (`BeginAbortedProbe`).  A probe does not
look at its signal again: one whose last answer arrives after the abort is available.  `DialogueReady` expresses
that promise continuations run before the next timer or event, so that, for example, a
timer cannot fire between an answer and the code that awaited it; further records of
the same chunk can, and are allowed to.

### WindowsTermination

`stage` is the await of `terminateWindowsProcessTree`: the three helpers in turn, then
`waitForWindowsPidsExit`; `outcome[h]` is the `HelperOutcome` of a helper.  A helper is
a process of its own: `Query` is one step of the PowerShell listing, which goes from
parents to children while the tree forks and exits; `KillBy` one kill of `taskkill` or
of the fallback, which may be denied.  A helper completes with success or failure
whatever it has done of its work, or the timer of `runHelperUntilDeadline` ends it.
`expired` is the deadline, which all of them share; a helper started after it times out
at once.  `Verified` is the only way to return; `WaitEnds` kills what it still sees and
throws in any case, as the code does.

`standing` is a history variable: the processes that have been linked to the child by
living processes for as long as the listing ran.  Only they are promised anything: a
process whose parent exits before it is queried cannot be found by its parent's id, and
one forked after its parent was queried is nobody's to find.

### CliCommand

A command is the sequence of its awaits (`Script`), and an action the code from one of
them to the next; a signal is captured between two.  The command `run` has `Rolekit.run`
as its last await: the module extends `RolekitRun` with one call, one signal (the
controller's) and the bundled adapters' properties (`CompositionAssumption`), and every
step of the call is a step of the command.  `Checked` are the awaits that
`assertCommandActive` precedes.  `Fails` and `Returns` are the two ways `executeCommand`
settles, both looked at again after a signal; `Written` is the return after the only
write, which looks once more.

A second signal changes nothing but nothing forces the process down either: while a file
is read, only the end of the read ends the command.

### PlanFinalize

A plan is a record of the fields the code compares, with injective digests; `normal`
stands for the canonical order and form of role and task.  `CreatedPlan` is
`createExecutionPlan`, which copies everything before its first digest, so the plan is
made in one step.  Then anything may happen to it: `EditContent`, `EditRun` and
`EditReceipt` change single fields, `Reseal` computes every digest anew.  `Call` takes
the snapshots, and the awaits are the six digests in the code's order, with what is
compared after each (`Holds`).  `Judge` and `JudgementFails` are the rest, which has no
await; `Outcome` is `normalizedOutcome` on the response's status and defects.

Two facts of the code show in the model and are no findings.  The response object is
read only after the awaits, unlike plan and receipt, so an edit of it during them is
seen (`Judge` chooses it then).  A denied plan whose receipt says blocked, with a
response that is trusted but invalid, finalizes as failed.

### ConfigLoad, AdapterConfig, ConfigBinding

`ConfigLoad` walks as `visitConfig` recurses: `activeChain` is the stack of calls, and
the two kinds of await (the canonical path of an entry, the content of a file) are where
the disk answers, with anything.  `extended` and `document` record these answers for the
properties.

`ConfigBinding` adds the calls on the loaded handle, one at a time, with edits of role
specs and of the environment at every await between them.  `loadResolvedRole` awaits the
spec and then each prompt fragment; a role has one fragment here, and either may be
edited while the other is awaited (`SpecGoesOn`, `NextPart`).  What a profile contains
and what is registered under the id it names is chosen when the code first looks at it,
and kept, so that the choices made do not multiply.

`published` collects every value that leaves towards a digest, the options and prepared
options of a handle, a probe or the public context of a run.  `described` collects what
the descriptors of compiled handles say.  The two are kept apart because the code treats
them differently: `adapter.inspect`'s descriptor (`config/resolver.ts:718`, `767`) is
checked for its form and its id only, and nothing redacts it.  `DigestAccepts` are the
checks of `digestExecutorProfile` that options can fail; they run before its await.

`AdapterConfig` flattens options to their leaves.  A leaf's schema says whether it can
be classified, and whether it is secret by itself or by the branch its value selects.  A
value is a text that is or includes a string, an `$env` reference, an interpolation, or
a marker.  `Prepare` is an adapter, which may show any option, embed it in a longer
text, move it elsewhere, name a model with it or describe itself by it, forget to declare
what is secret, or throw.

## 4. Runs

| Run | Instance | Shows |
|---|---|---|
| `rolekit_run` | 2 calls, 2 run ids, 1 shared signal, clock may fail, up to 3 events per call; 1.5 million states | the safety properties of `run()` and its refinement of `RunContract` |
| `rolekit_run_live` | 2 calls competing for 1 run id, working clock | every aborted run settles; every started stream is closed |
| `cli_process` | a command and one descendant, any of them stubborn, group reachable or not | first cause, resources, no survivors, settlement |
| `cli_adapter` | 2 uses, one run id, one behavior check, both kinds | cancellation by run id, temporary files, aborted probes, every use answers |
| `pi_rpc_client` | 2 requests of 2 commands, 1 descendant, 1 output unit, `close()` at any time | correlation, first failure, nothing hangs |
| `pi_rpc_run` | an execution (3 requests and an abort) or a probe (3 or 4 requests), 2 concurrent closers; 1.8 million states | answers are earned, no process left, every execution and probe settles |
| `pi_rpc_run_aborted` | executions only | finding 1 |
| `pi_rpc_run_tree` | executions with one descendant | finding 2 |
| `windows_termination` | a child and two more processes, already there or forked, any of them protected | success only when nothing is left, nothing spared, one deadline |
| `cli_command` | the ten commands, any number of signals of both kinds, one run | exit codes, no work after a signal, interrupted commands end |
| `plan_finalize` | 2 role ids, 2 contract bodies, 2 path sets, 2 times, every pair of defects, 2 edits and a reseal before the call, 1 edit after | integrity, earned completion, result as called |
| `config_binding` | 3 files, 1 role, 2 profiles, 1 secret and 1 plain option, 2 calls, 1 change; 4 schemas, adapters that differ from a careful one in up to 2 respects; 4.7 million states | trees only, exact binding, validation predicts compilation, secrets |

### Properties

Each is commented in its module.  In short:

- *Run ids.* `RunIdExclusive` (exactly the calls in flight hold ids, one each),
  `ImplementsContract` (refinement).
- *Cancellation.* `AbortReachesAdapter` (no abort missed), `CancelStaysInRun` (a
  pending `adapter.cancel(runId)` never outlives its run, so it cannot hit a later run
  of the same id), `CancelledNeverCompletes`, `AbortedRunsSettle`.
- *Admission.* `GatedExecution` (no probe once the static admission denied, no execution
  without the static admission, an available probe and the runtime admission).
- *Events.* `StreamOrdered`, `TerminalEventAgrees`, `StartedStreamsClose`.
- *Commands.* `FirstCauseWins` (and an aborted command never resolves),
  `ResourcesBounded` (output budget, timer, listener), `NoSurvivors`, `Settles`.
- *Windows.* `VerifiedMeansGone`, `NothingSpared`, `TerminationEnds`.
- *Adapters.* `EntryKept` (an execution is cancellable exactly as long as it should be),
  `AbortIsHonoured` (by executions and probes), `CleanupHonest` (directories removed,
  primary failure kept), `UsesEnd`.
- *RPC.* `RequestsMatched`, `FailureIsFinal`, `FailedTreeTerminated`, `NothingHangs`.
- *RPC execution.* `AnswerIsEarned`, `NoProcessLeft`, `RunEnds`.
- *Plans.* `AcceptedPlansAreCreated`, `CompletedIsEarned`, `ResultAsCalled`.
- *Configuration.* `LoadedIsATree`, `BindingIsExact` (against a definition of precedence
  on the finished graph, where what is below a file is what every set that contains it
  and is closed under `extends` contains), `ValidatedRolesBind`,
  `SecretsStayPrivate`, `RunGetsItsSecrets`.

  `SecretsStayPrivate` is about adapters that do with the options they are prepared with
  what `Prepare` and `Description` allow; one that encodes a secret, or remembers one
  from a run, is beyond what any check of the code could notice.  Of digests, options,
  probes and contexts it says that neither secrets nor environment values nor the
  sentinel reach them.  Of descriptors it says less, because the code does less: an
  adapter that puts an option into its `displayName` or `adapterVersion` puts the sentinel
  into the handle, and in the model it does.  It never puts the secret there, since
  adapters are inspected with sentinels only.
- *Command line.* `ExitCodeHonest`, `NoWorkAfterSignal`, `InterruptedCommandsEnd`.

For each property a *mutant* in the modules, an operator beside the one it changes,
makes a plausible mistake (a dropped check, a missing reset, an unawaited promise)
under which TLC finds the property violated: the properties depend on the code.

### Bounds, and why they are enough

Safety does not rest on the bounds: every invariant and action property of the passing
runs is proved without them (section 6).  They matter for liveness, for deadlock, and
for the mutants.

- *Calls, ids, signals.* The conflicts are between two calls with equal ids, or with
  one signal, so two calls suffice to produce each; a second id lets them also be
  independent.
- `MaxSequence` stops adapter events below 3; with the lifecycle events this gives
  streams with adapter events before and after the terminal event and with gaps.
- *Descendants.* One: a descendant differs from the leader only in that the code does
  not see its exit, and one suffices to survive.  Names are reused, so any number can
  be forked one after the other.
- *Uses.* Two: an older and a newer execution of one run id, or an execution and a
  probe.  One behavior check gives an accepted and a rejected process after the two
  that must succeed.
- *Requests.* Two make crossed, late and duplicate responses; four are the
  longest probe, or a dialogue without configured commands and an abort.  In an
  execution, `set_model` and `set_thinking_level` (`ConfiguredCommands`) only lengthen
  the script and are left out of the instance.
- `MaxOutput` 1 in the client: output below, at and above the limit.  In `PiRpcRun` 0:
  records that fit and one that does not.
- `Descendants` is empty in `pi_rpc_run`, which is about the leader; with a descendant
  the tree property fails (finding 2).
- *Windows.* Two processes besides the child make a chain of three, a fork during the
  listing, and an orphan whose parent exits before it is queried.
- *Command line.* Nothing is bounded but the run: `runCli` makes one call.
- *Plans.* Two edits and any number of reseals: an edit that has to agree with another
  one (a role and its contract, a plan and its receipt) is the least that integrity
  could miss.  `MaxLateEdits` 1: the result is compared with the call's, and one
  difference shows.
- *Configuration.* Three files make every shape (chain, fan, cycle, diamond, duplicate
  entry); a file declares the role or not and at most one profile.  What profiles,
  schemas and adapters do to secrets does not depend on the graph, so the full choice of
  them (`Profiles`, `Registrations`) is taken with one file and one profile, and
  `FewProfiles` and `FewRegistrations` with more; likewise `FewFragments`, under which a
  prompt fragment is good when first read and may be edited later.  An adapter that throws
  differs from the careful one in nothing else, since it is refused whatever else it does;
  two other respects are what it takes to show an option and not mark it, or to move it
  and embed it.  `MaxCalls` 2: each property relates a
  call to at most one earlier call.

### Fairness

Weak fairness is given only to what the runtime owes: continuations of resolved
promises run, timers fire (request timeout, execution timeout, grace periods), and a
process that received SIGKILL, or SIGTERM without ignoring it, ends.  Executors owe
nothing: they may be silent for ever.  In `RolekitRun` adapters owe an answer only
after their signal is aborted, and `adapter.cancel` settles, which the bundled
adapters provide (their probe and execution settle by `Settles` and `RunEnds`, and
their `cancel` only aborts a controller); without an abort, `run()` may wait for its
adapter for ever, and nothing is claimed.

On Windows only the clock and the code's own continuations are fair: neither the helpers
nor the tree need ever do anything.  In `CliCommand`, reads of files and writes of output
end, and adapters owe an answer, to a probe or an execution, once the controller is
aborted.

## 5. Deadlock

Every run but one checks deadlock: each specification has a `Done` step that is enabled
only when the calls, the command or the execution have settled, so a state in which work
is left and nothing can happen is reported.  `config_binding` may stop: a load that
failed leaves nothing to do, nor do `MaxCalls` calls.

## 6. Proofs

Each theorem holds for every value of the constants (any number of calls, ids, files,
processes, requests, documents), from the assumptions the modules name.  Few
properties are inductive as they stand; the inductive invariants are named below, and TLC
checked them on small instances before they were proved.

### `RolekitRunProofs`

| Theorem | States |
|---|---|
| `TypeCorrect`, `RunIdsExclusive` | `TypeOK`, `RunIdExclusive` |
| `CancelInvariant`: `CancelStays`, `AbortReaches`, `CancelledNotCompleted` | `CancelStaysInRun`, `AbortReachesAdapter`, `CancelledNeverCompletes` |
| `GateInvariant`: `ExecutionGated` | `GatedExecution` |
| `EventInvariant`: `StreamsOrdered`, `TerminalEventsAgree`, `StreamsClose` | `StreamOrdered`, `TerminalEventAgrees`, `StartedStreamsClose` |
| `RunImplementsContract` | `Spec => ImplementsContract` |

`RunIdExclusive` is inductive with `TypeOK`: only `Claim` adds an id, after finding it
free, and every way out of the active phases goes through `Release`, which removes the id
of exactly one call; exclusiveness is what makes removing it harmless to the others.  The
three cancellation properties are not inductive: that a cancelled response stays
cancelled depends on the signal having been aborted when the request was queued (signals
are never un-aborted), on a call having a listener exactly while it executes with a
signal not yet aborted, and on `CancelAwaited` waiting for the request.  `CancelInv`
states these together, and the three follow.  `GateInv` relates the phase to the probe
and to both verdicts in the same way: from `probing` on the static admission was granted,
from `executing` on the runtime admission too.

`EventInv` is about the one thing the code never locks: an adapter may emit at any time,
after the call has settled too.  It says that the stream of a call whose adapter was
handed the context stays opened for ever, that the emitter's `#terminalEmitted` flag and
the terminal events delivered agree, and which terminal event has been delivered in which
phase.  The lemmas `StartedEffect`, `AdapterEffect` and `TerminalEffect` say what one
emission does, thrown or not; each action then needs only its own.

The refinement maps `held[c]` to the run id of an active call, `revoked[c]` to a cancel
request having been made and `settled` to `result`; the lemmas `RefuseStep`,
`AcceptStep`, `SettleStep`, `RevokeStep` and `StutterStep` say which contract step each
group of actions takes, and the invariants supply the guards (`Accept`: nobody else holds
the id; `Settle`: a revoked call does not complete).

### `CliProcessProofs`

| Theorem | States |
|---|---|
| `RunInvariant`: `Bounded`, `NobodySurvives` | `ResourcesBounded`, `NoSurvivors` |
| `FirstCause` | `FirstCauseWins` |

`RunInv` ties four things that separate callbacks change: the terminal error exists
exactly once the tree is being terminated, a promise is settled with it only when that
termination is over, what a termination leaves has been killed (`Cleared`, and it stays
so, since nothing forks once all that lives was sent SIGKILL), and an abort of a running
command is itself a terminal error.  The two formulas of `FirstCauseWins` need different
arguments: the first is an action property of `RunInv`; the second is an invariant of
every suffix that begins with an aborted, pending command (`AbortedUnresolved`).

### `CliAdapterProofs`

| Theorem | States |
|---|---|
| `AdapterInvariant`: `CleanupIsHonest` | `CleanupHonest` |
| `EntryIsKept` | `EntryKept` |
| `AbortsAreHonoured` | `AbortIsHonoured` |

`AdapterInv` says that an `#inflight` entry names an execution of its id that has not
answered, and what an answer says about directories and failures.  `AbortIsHonoured` is
about what never happens *after* a state, so the proof names the set of states the
aborted use can still reach (`Cancelling`, `Unproven`), shows with `CancellingStays` and
`UnprovenStays` that no step of any use leaves it, and that none of its states is the
forbidden answer.

### `PiRpcProofs`

| Theorem | States |
|---|---|
| `ClientInvariant`: `RequestsAreMatched`, `FailedTreesTerminated` | `RequestsMatched`, `FailedTreeTerminated` |
| `FailureStays` | `FailureIsFinal` |
| `DialogueInvariant`: `AnswersAreEarned`, `NoProcessIsLeft` | `AnswerIsEarned`, `NoProcessLeft` |

The client is proved on its own (`Spec`, any requests, callers of `close()` and process
tree) and then in use.  `ClientInv` relates the settlement of `completion` to the
`close` event, each phase of each `close()` to the termination it began, and terminations
that are over to what they left.  `RunStepOfClient` shows that a step of an execution or a
probe is, for the client, one or two of its own steps or none (an aborted probe closes
twice in one step, `CloseBoth`), so `ClientInv` and the action properties carry over
without being proved again.  `DialogueInv` then says which request the dialogue is at;
`AnsweredInv` that everything before it has been answered, which holds later because the
client never unsettles a request (`FailureIsFinal`).

### `WindowsTerminationProofs`

| Theorem | States |
|---|---|
| `NothingIsSpared` | `NothingSpared` |
| `VerifiedIsGone` | `VerifiedMeansGone` |

The first invariant (`IInv`) says that nothing is captured that was not born, that at
most the helper of the current stage runs, and that after the wait nothing captured is
spared.  The second (`GoneInv`) is about the listing while the tree changes under it:
what stands is linked to the child by what stands, and the standing children of every
process already queried are listed.  When the listing ends its frontier is empty, the
listed processes and the child are closed under standing children, and so contain
everything that stands (`ListingIsComplete`).

Reachability is defined without recursion, so that this can be proved: `Linked(S)` is
what every subset of `S` that is `Closed` contains.  The lemmas `LinkedClosed` and
`LinkedIdempotent` are all that is needed of it.

### `CliCommandProofs`

| Theorem | States |
|---|---|
| `CommandRunsARun` | `CliSpec => Spec`: the command refines `RolekitRun` |
| `CommandInvariant`: `ExitCodesAreHonest` | `ExitCodeHonest` |
| `NoWorkIsBegun` | `NoWorkAfterSignal` |

`CommandRunsARun` makes every theorem about `Rolekit.run` a theorem about the run in a
command; `ExitCodesAreHonest` uses it: that exit code 0 of `run` means a completed call
whose adapter executed rests on `GateInv`.  `CommandInv` adds
where the command is in its script, that a received signal has aborted the controller the
run listens to, and what is about to be rendered.

### `PlanFinalizeProofs`

| Theorem | States |
|---|---|
| `AcceptedPlansCreated` | `AcceptedPlansAreCreated`, for any edits, before and after the call |
| `ResultsAreAsCalled`, `CompletedEarned` | `ResultAsCalled`, `CompletedIsEarned` |

One invariant (`IInv`) has the document well formed through every edit and, for each
await, the comparisons already made (`RoleSealed`, `TaskSealed`, up to `PlanSealed`); the
lemma `SealedPlansAreCreated` rebuilds the role and the task from a sealed plan and shows
that `CreatedPlan` of them is that plan.  The other (`JInv`) ties the snapshots to the
state of the call and the result to the snapshots.

### `ConfigBindingProofs`

| Theorem | States |
|---|---|
| `LoadedTree` | `LoadedIsATree`, for any set of files |
| `HandleInvariant`: `BindingsAreExact`, `ValidatedRolesCompile`, `RunsGetTheirSecrets` | `BindingIsExact`, `ValidatedRolesBind`, `RunGetsItsSecrets` |
| `NothingSecretLeaves` | `SecretsStayPrivate` |

- *The tree.* `LoadInv` splits the visited files into those on the chain and those
  declared, without repetition; says that the entries found so far lead each to a
  different visited file; and that every declared file was followed to its last entry.
  The step that matters is `Visit`: only because a file is neither on the chain nor
  declared does its new chain remain the only one.
- *The order.* What the walk leaves is the declaration made last; what the documentation
  promises is the one that prevails in the finished graph.  `OrderInv` connects them: each
  file of the chain is the newest entry of the one before it (`ChainLinked`), every file
  declared so far was reached through an entry already followed to its end
  (`ChainReaches`), and what is kept prevails among the declarations so far
  (`NewestPrevails`).  The key lemma, `CurrentOverrides`, is that the file about to be
  declared then overrides all earlier ones; that later entries cannot undo this is
  `OverridesKept`.  Below-ness is again defined by closed sets (`AtOrBelow`).
- *The calls.* `BindInv` says what each call has looked at when it is suspended, and that
  what was looked at and accepted (`Fits`) stays so: profiles and registrations are
  chosen once (`HandleStays`), only role specs change under a call, and `edited` records
  it.  `ValidatingInv` is the loop invariant of validation: what is no longer to do fits.
- *The secrets.* `SecretInv` says that every text that left is one that no annotation
  makes secret (`PublishedInv`), and that every text of a descriptor is such a one or the
  sentinel (`DescribedInv`, `OpenTexts`).  It holds step by step, through a preparation by any adapter
  (`PreparedWithin`) and redaction (`PublicWithin`); `NothingLeft` is the final search for
  sentinels, without which it would fail, and `SecretIfAny` shows that an accepted
  value is treated as a secret exactly if some annotation that applies to it says so.

### Assumptions

Those not obvious from their form:

- `TerminatorAssumption`, `TerminatorsAssumption`, `ClosersAssumption`: who calls
  `terminateProcessTree` and `close()`; they are the call sites of the code.
- `CompositionAssumption`: the bundled adapters have `cancel`, the CLI uses the system
  clock and subscribes to no events.
- `ProfilesAssumption`, `RegistrationsAssumption`: a profile is a host's or an adapter's
  (whose options are read as they stand: no text of them is part of a longer one),
  an adapter has one of four hooks; the schemas of the code say so.  `UnseenAssumption`
  keeps the value for "not looked at yet" apart from the others.
- `TextsAssumption`: the public texts of options are not also environment values or
  secret texts of another option, and the sentinel, which an option may contain, is
  neither an environment value nor a secret.  In the model a text stands for where it
  comes from.  Without the assumption `SecretsStayPrivate` is not true of any program: a
  user who writes a password into a public option as well has published it.

### Only model-checked

Liveness (`AbortedRunsSettle`, `Settles`, `UsesEnd`, `NothingHangs`, `RunEnds`,
`TerminationEnds`, `InterruptedCommandsEnd`), which is beyond this prover, absence of
deadlock, and the two violations of section 7.  Not proved either is what operators say
of recursively defined data; the modules with theorems have none.

## 7. Findings

1. `pi_rpc_run_aborted`: an abort while the final `get_state` is awaited
   (`adapters/pi-rpc/pi-rpc-adapter.ts:1012`) does not stop `executeCli` from returning
   the executor's own answer, while the conformance kit says that an aborted execution
   must return a cancelled response (`testing/conformance.ts:444`).  `Rolekit.run`
   repairs it when the aborted signal is the caller's (`CancelledNeverCompletes`).
2. `pi_rpc_run_tree`: when `pi` exits within the closing grace, `close()` does not
   terminate the group, and a descendant is left unsignalled, while
   `docs/architecture.md:60` says that cancellation terminates the subprocess tree.

## 8. Not modelled

- Text and data: the rules of the response and contract schemas, JSON snapshots,
  prompts, output parsing, the transformation of output schemas (Codex), option parsing,
  error messages and the formatting of text output.
- Of the configuration: `compileTaskExecutionTarget` with host and adapter admission
  (it changes no state, and gives an adapter only the redacted options of the handle),
  duplicate registrations, `x-rolekit-path` options, what a descriptor says besides its
  free texts, configured texts that include the sentinel without being it, roles with
  several fragments (read one after the other as the one is), and literals that coincide with public values (excluded by `TextsAssumption`), or that JSON
  escapes, in the search for secrets.
- `register*`, `compile` and `Rolekit.cancel`: synchronous registry operations, and a
  call of `adapter.cancel` with the id as given.
- Processes that leave their group (`setsid`) and reuse of process ids (also on
  Windows): out of the code's reach.
- The temporary directory of a Pi RPC execution or probe, made and removed as Pi's
  (`CliAdapter`) around the dialogue of `PiRpcRun`.
- The flush of a last partial line when a stream ends after the output limit was
  exceeded: the client has failed by then and the failure is final.
- The conformance kit, which tests adapters and has no part in a run, and the scripts
  that build the package.
