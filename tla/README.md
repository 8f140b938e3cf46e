# Verification of the BIRD route-import coordinator

This directory holds TLA+ models of the route module's BIRD import coordinator,
`src/modules/route/coordinator/service.go`. It has TLC configurations that
model-check them, abstract specifications of the import registry and of an
import's stream discipline, which the coordinator is shown to implement, and TLAPS proofs of the type invariant,
the safety invariants, the action properties and the refinement. The other
files under `src/` are a DSCP module wrapper, protobuf service definitions and
meson build files (see "Not modelled").

## 1. Inventory

### Components and their state

| Component | Code | State it keeps |
|---|---|---|
| Setup entrypoint | `SetupConfig`, `setupConfig` (55–124) | A fresh `grpc.ClientConn` per call, and the static prelude's progress |
| Import registry | `processBirdImport` (138–219), `ModuleService.imports`, `importsMu` | Map from key to `*importHolder` |
| Update forwarder | `onUpdate` closure (159–182) | Reads `holder.currentStream` and the import's ctx |
| Flush forwarder | `onFlush` closure (184–191) | None (a unary RPC on `streamCtx`) |
| Import supervisor | `runBirdImportLoop` (225–314) | `streamActive`, the outer backoff, and `lastRunAttempt` |
| Stream reconnector | `reconnectStream` (319–355) | Ticker; writes `holder.currentStream` |
| BIRD export reader | `bird.Export` (not in `src/`) | Opaque. Calls the callbacks from inside `Run(ctx)` |
| Route service / RIB | gRPC server (not in `src/`) | Reads stream messages and serves `FlushRoutes` |
| Process shutdown | closes `quitCh` (not in `src/`) | `quitCh` |

### How they interact

1. A `SetupConfig` call dials its own connection and inserts and flushes its
   static routes.
2. With BIRD sockets configured, it opens the first `FeedRIB` stream with a new
   cancellable `streamCtx`. This happens **before** it takes `importsMu`.
3. Under the mutex it cancels and closes the predecessor for the same key,
   stores itself and spawns `runBirdImportLoop`.
4. The loop runs `export.Run(ctx)`. The reader calls `onUpdate` (Send on the
   current stream) and `onFlush` (unary `FlushRoutes`) sequentially.
5. A callback error stops the reader, and the loop classifies the error with
   `errors.Is`:
   - nil, or a `context.Canceled` error: the loop returns. Its deferred
     cleanup cancels the ctx and closes the connection.
   - any other error: the loop calls `CloseAndRecv` on the stream (unless the
     error carries `errStreamClosed`), backs off, checks ctx, quit and
     connection Shutdown, and reconnects through a ticker.
6. A superseded import learns of its replacement only through its cancelled
   ctx and its closed connection.

### What makes it hard

- **Concurrency.** Setup calls for the same key run concurrently. The initial
  `FeedRIB` runs outside the lock, so install order can differ from call
  order.
- **Concurrency with cancellation.** A replaced import keeps running until it
  reaches a blocking point that watches ctx. Cancellation can land between the
  `ctx.Done()` check and `Send`. The Send then fails with a gRPC status that
  is *not* `context.Canceled`, and the loop takes the retry path.
- **Failure.** Streams break, RPCs fail, and the reader fails on the BIRD side.
  Every error path must leave the stream slot consistent.
- **Ordering.** Sends are not acknowledged, and `FlushRoutes` goes on another
  HTTP/2 stream.
- **Liveness.** Every blocking point must watch the right signals (ctx and
  quit), or a cancelled import never stops.

### What makes each component correct

- **Registry:** a superseded import is cancelled and its connection closed
  (spec §3 invariants 1–2, §8 "replacement-idempotence"). A released import
  gets no update through.
- **Supervisor and reconnector:** never leak an open stream when the slot is
  overwritten. Never close a stream twice: the loop's own `CloseAndRecv` must
  skip a stream that `onUpdate` closed on cancellation (§4.2, §5, the
  `stream-closed` sentinel). A cancelled import terminates. quit stops every
  import (§5).
- **Forwarders:** no successful Send after cancellation (§8). A flush commits
  everything sent before it (§5, "barrier").
- **Setup:** a failure after dialling releases the connection (§7). Of two
  submissions for a key, the second's import is the one left active (§8).

The hazards these properties target are listed, each at its line, under
`hazards` in `PROJECT.json`.

## 2. Modules

### `BirdImport.tla`: the coordinator (core)

**Constants.**
- `Keys`: the instance keys.
- `Holders`: one per `SetupConfig` call. The call's connection, context,
  stream slot and supervisor are all indexed by it.
- `NoHolder`: the "absent" value of the registry.
- `MaxStreams`: a bound on the `FeedRIB` streams one holder opens.
- `MaxInflight`: the stream's flow-control window, in messages.

The assumption `ConstantsAssumption` constrains them.

**Variables and what they stand for in the code.**
- `registry`: `m.imports`.
- `quit`: `quitCh` closed.
- `setupPc` / `key`: the progress of a `SetupConfig` call and its key.
- `connSt`: the `ClientConn`. `"closed"` is the `Shutdown` state, which only
  `Close` produces.
- `ctxDone`: `streamCtx` cancelled.
- `supPc` / `streamActive`: the supervisor goroutine's location and its
  local variable.
- `curSt` / `streams`: the stream in `holder.currentStream`, and how many
  streams the holder opened.
- `inflight`: messages Sent and not yet read by the RIB.
- `rdPc` / `runErr`: inside `onUpdate` (between the ctx check and the Send),
  and what `Run` returned.
- `overtaken`: auxiliary variable that records the history fact the flush
  property is about.
- `lastCall`: auxiliary (history) variable. Per key, it holds the holder
  whose `SetupConfig` call started last. Only `SetupConfigCall` writes it,
  and no guard reads it.

**Actions.** There is one action per operation, and each covers the whole
handler. The line ranges are in `PROJECT.json` under `map`.
- Setup: `SetupConfigCall`, `StaticPrelude`, `InitialFeed`, and `Install`
  (the whole critical section, atomic under the mutex).
- Supervisor: `Preflight`, `ReconnectAbort` / `ReconnectTick`,
  `HandleRunResult` and `Backoff`. The `defer` cleanup is `Terminate`, taken
  in the same step as each `return`.
- Reader: `UpdateCheck`, `UpdateSend`, `Flush`, and `ReaderStops` (the
  reader's own nil / ctx.Err() / BIRD error).
- Environment: `Deliver`, `StreamBreak` and `Quit`.

**Serialised callers.** `SerialSpec` is `Spec` with `SetupConfigCall`
replaced by `SerialSetupConfigCall`. That operator adds one guard: no earlier
call for the same key is still between dialling and the mutex. It is the
environment a caller that serialises `SetupConfig` per key provides. It
is used to show under which condition the code meets §8 (finding 4).

**Refinement mapping.** `InstalledSet` is the set of holders whose supervisor
was spawned. `ReleasedSet` is the installed holders whose context is cancelled
and whose connection is closed. `Registry == INSTANCE ImportRegistry WITH
entry <- registry, keyOf <- key, installed <- InstalledSet, released <-
ReleasedSet`, and `RegistryRefinement == Registry!Spec`.

A second mapping goes to the stream discipline. `StreamLive` is true for an
import whose context is not cancelled and whose connection is not closed.
`Stream == INSTANCE ImportStream WITH slot <- curSt, pending <- inflight,
live <- StreamLive, opened <- streams`, and `StreamRefinement ==
Stream!Spec`.

**Stream property.** `CloseAndRecvOnce` uses `LoopClosesStream(h)`, the
condition under which the loop calls `CloseAndRecv` itself (lines 277–289).
Run returned an error that is neither a cancellation nor carries
`errStreamClosed`. The property says that the current stream is then not
closed already.

### `ImportRegistry.tla`: what the registry promises

This is the abstract specification of `m.imports` under `importsMu`. It has
no goroutines, streams or setup steps. Its state is the entry per key, each
import's key, the set of installed imports and the set of released ones.

It has two actions:
- `InstallImport(h)`: the critical section at lines 196–216. `h` becomes its
  key's entry, and the previous entry is released in the same step.
- `ReleaseImport(h)`: the deferred cleanup at lines 231–235. An installed
  import releases itself, for good.

Its invariant `LiveImportIsEntry` says that every installed import that is
not released is its key's entry. So no key ever has two live imports.

### `ImportStream.tla`: what an import's streams promise

This is the abstract specification of `holder.currentStream` and the RIB end
of its streams. It has no setup, registry or supervisor steps. Per import, its
state is the stream in the slot (none, open, broken or closed), the updates in
flight on it, whether the import is live, and how many streams it opened.

It has six actions:
- `OpenStream`: a live import whose slot holds no open stream stores a new
  one. This is the initial `FeedRIB` (lines 149–156) and `reconnectStream`
  (lines 343–352).
- `SendUpdate`: a live import sends on its open stream within the window.
  This is `onUpdate`'s Send (lines 170–182).
- `CloseStream`: `CloseAndRecv` on a stream that exists and is not closed
  yet. This is `onUpdate`'s cancellation path (lines 163–168) and the loop's
  own close (lines 288–293).
- `ReleaseStream`: the import's context is cancelled or its connection
  closed, for good. This is the replacement, the cleanup at lines 231–235,
  the failed initial `FeedRIB`, and a static-only setup.
- `DeliverUpdate` and `BreakStream`: the RIB reads, and the stream fails.
  These are modelled from the spec.

The refinement says four things at once:
- no stream is opened over an open one;
- a released import opens no stream and sends nothing (spec §3 invariant 2);
- no stream is closed twice;
- a release is never undone.

**Error values.** `RunErrs` models the errors `Run` can return, and
`IsCanceled` and `IsStreamClosed` model `errors.Is`. This shows something
about the code: the only error carrying `errStreamClosed` is joined with
`ctx.Err()`. It is therefore classified as cancelled first (line 282), and the
`errStreamClosed` test at line 288 never decides anything.

**Abstractions.**
- Routes, prefixes and targets are not represented: a route is one Send.
- Backoff intervals, the ticker and the 10-minute idle reset become
  nondeterministic wake-ups. No property depends on durations.
- A failing `FeedRIB` tick is a stutter.
- The YAML parse error path changes no state and is left out.

### `MCBirdImport.tla` and configurations

`MCBirdImport.tla` declares model values for the keys and holders, and a
holder symmetry. It uses the symmetry only in runs that have no
liveness property.

| Run (cfg) | Expect | Instance | What it shows |
|---|---|---|---|
| `safety` (`MCBirdImport_safety.cfg`) | pass | 1 key, 3 holders, 2 streams each, window 2 (≈3.4M states, 2 min) | `TypeOK`, `SupersededImportReleased`, `NoStreamLeakOnReconnect`, `RegistryRefinement` |
| `streams` (`MCBirdImport_streams.cfg`) | pass | 1 key, 2 holders, 4 streams each, window 2 (≈147k states) | `CloseAndRecvOnce`, `StreamRefinement` |
| `serial_calls` (`MCBirdImport_serial.cfg`) | pass | 1 key, 3 holders, 2 streams, window 1 (≈1.9M states), `SerialSpec` | `SecondSubmissionWins` when the caller serialises calls per key |
| `liveness` (`MCBirdImport_live.cfg`) | pass | 1 key, 2 holders, window 1 | `CancelledImportTerminates` under `FairSpec` |
| `flush_barrier` (`MCBirdImport_flush.cfg`) | violation | 1 key, 2 holders | `FlushIsBarrier` fails: Send A, then FlushRoutes is served while A is in flight |
| `setup_conn_leak` (`MCBirdImport_setupleak.cfg`) | violation | 1 key, 2 holders | `SetupFailureReleasesConn` fails: initial `FeedRIB` fails, conn stays open |
| `quit_running_reader` (`MCBirdImport_quit.cfg`) | violation | 1 key, 2 holders | `QuitStopsImports` fails: a supervisor in `Run` outlives quit |
| `concurrent_call_order` (`MCBirdImport_order.cfg`) | violation | 1 key, 2 holders | `SecondSubmissionWins` fails: call 1, call 2, call 2 installs, call 1 installs and replaces it |

The safety and streams runs use `VIEW ViewWithoutCallOrder`, which is every variable except
`lastCall`. No guard or assignment of another variable reads `lastCall`, so
states that differ only in it have the same futures. None of the run's
properties mentions it. Without the view, the history variable triples the
states of that run.

**Why the bounds are enough.**
- *Three holders on one key* cover every pattern that matters for the
  replacement protocol:
  - two calls racing between their `FeedRIB` and the mutex, in both orders;
  - a third call superseding an already superseded (or already terminated)
    holder;
  - a replaced supervisor in any of its locations.
- *Keys are independent*: the registry is per key and nothing else is
  shared. A second key only multiplies the states. The proof covers any
  number of keys.
- *Two streams per holder* let the reconnect path run, including the slot
  overwrite that `NoStreamLeakOnReconnect` is about.
- *Two holders with four streams each* (the streams run) let a replacement
  cancel an import that is sending, and let one import go through three
  reconnect cycles, each closing its stream on one of the paths. Three
  holders at that depth take more than 8 minutes (10.8M states). They add
  nothing: the stream discipline is per import.
- *A window of 2* lets a Send block on flow control and lets a flush overtake
  more than one message.

CHECK_DEADLOCK is FALSE because the system really does go quiet: once the
bounded set of `SetupConfig` calls is used up, and every supervisor has
returned or is waiting in a reader that has nothing to read, no step is
enabled. The real process idles in that state.

**Fairness (`Fairness`, used by `FairSpec`).**
- Weak fairness of each supervisor's steps: the goroutine is scheduled, and
  its timers and tickers fire.
- Weak fairness of `UpdateSend`: a Send that can complete or fail does so.
- Weak fairness of the reader's steps while its ctx is cancelled: the spec
  (§5) requires `Run` to honour cancellation promptly.

A healthy reader gets no fairness, because BIRD may have nothing to export.
Neither do the RIB or `SetupConfig` callers.

**Mutants.** Every property of a passing run is broken by a plausible bug in
the code, written as an operator next to the definition it replaces:
- `InstallKeepsPredecessor`: the replacement branch is lost.
- `HandleRunResultNoClose`: no `CloseAndRecv` before retrying.
- `ReconnectAbortQuitOnly`: `reconnectStream` stops watching ctx.
- `UpdateSendUnbounded`: Send no longer blocks on the window.
- `UpdateCheckNoSentinel`: on cancellation, `onUpdate` closes the stream and
  returns the close error alone, without `ctx.Err()` and the sentinel. The
  loop then closes the stream a second time, which breaks
  `CloseAndRecvOnce`. `HandleRunResultNoClose` also breaks
  `StreamRefinement`: `reconnectStream` opens a stream over an open one.
- `InstallFirstWins`: the store happens only when the key is absent.
  `InstallKeepsPredecessor` also breaks `RegistryRefinement`: the registry
  moves to the new import without a release of the old one.

### Findings

1. **Flush is not a barrier** (`service.go:186`). The Sends in `onUpdate` are
   not acknowledged, and `onFlush`'s `FlushRoutes` is a separate unary RPC.
   The RIB can therefore commit before it has read earlier updates. Spec §5
   says the flush is a barrier.
2. **Connection leak on initial stream failure** (`service.go:150`).
   `processBirdImport` cancels its context but does not close `conn`. Spec §7
   says "connection closed". The static-prelude failures (lines 108 and 113)
   leak the connection the same way, but the spec does not say otherwise
   there.
3. **quit does not stop a running reader** (`service.go:276`). `quitCh` is
   polled only at the loop's selects. `export.Run(ctx)` watches ctx only, and
   quit never cancels it. Spec §5 lists quit as a source of cancellation that
   must abort the reader.
4. **The earlier of two concurrent submissions can win** (`service.go:213`).
   The store into `m.imports` is unconditional. So the import that survives
   is the one whose call took `importsMu` last. An earlier call with a slower
   static prelude or first `FeedRIB` replaces the import of a later call,
   and the older configuration keeps running. §6 says a second call for the
   same `(config-name, instance)` "tears down and replaces the prior
   import", and §8 that "two identical `SetupConfig` submissions converge to
   a single active supervisor (the second)". The
   `serial_calls` run and the theorem `SerialSecondSubmissionWins` show that
   the code meets §6 and §8 exactly when its caller serialises calls per key.

## 3. Proofs (`BirdImportProofs.tla`)

- `TypeCorrect`: `Spec => []TypeOK`. It rests on the lemmas `InitTypeOK` and
  `TypeStep`, with one step per action. Actions with several outcomes are
  proved per changed variable, and `HandleRunResult` per branch of its error
  classification.
- `SupersededReleased`: `Spec => []SupersededImportReleased`, for every set
  of keys and holders and every bound. The invariant alone is not inductive.
  `Install` makes the old entry superseded, and a step of an arbitrary holder
  could in principle reopen a connection. The strengthening `IInv` adds:
  - `RegistryConsistent`: the registry holds only installed holders, under
    their own key. Without it, `Install` could release a holder that is not
    the predecessor.
  - `SetupBeforeSupervisor`: a call that has not reached the mutex has no
    supervisor. This rules out `SetupConfigCall` (the only step that opens a
    connection) acting on an installed holder.

  `IInv` was first checked by TLC as an invariant (2 keys, 3 holders, 7.8M
  states). Then `Init => IInv`, `IInvInductive` and `IInv =>
  SupersededImportReleased` were proved.

**Action properties.**
- `NoStreamLeak`: `Spec => NoStreamLeakOnReconnect`. It rests on
  `StreamSlotInv`:
  - `reconnectStream` runs only with `streamActive` false;
  - at the loop's blocking points, a false `streamActive` means the stream
    is not open;
  - no stream exists before the initial `FeedRIB`.

  The invariant needs `IInv` (a holder still in setup has no supervisor).
  Its key step is `HandleRunResult`. The retry path always runs
  `CloseAndRecv`, because the sentinel that would skip it only occurs joined
  with `ctx.Err()`, which ends the loop.

**Refinement.**
- `RegistryRefined`: `Spec => RegistryRefinement`. `Init` maps to the
  registry's `Init`, and `RefinementStep` maps every step, as follows:
  - `Install` is `InstallImport`;
  - each `Terminate` is `ReleaseImport`, or a stutter when a replacement
    released the import already (lemma `RegistryRelease`);
  - every other step leaves the mapped state unchanged (lemma
    `RegistryStutter`).

  This needs `SetupLive`: a call on its way to the mutex has a live context
  and, once it has dialled, an open connection. Otherwise `Install` could
  install an import that is already released.
- `LiveImportIsEntryHolds` (in `ImportRegistry.tla`) proves the abstract
  invariant from `RegistryTypeOK`, where an entry is an installed import.
- `OneLiveImportPerKey`: `Spec => []Registry!LiveImportIsEntry` combines the
  two results.

**Serialised callers.** `SerialSecondSubmissionWins`: `SerialSpec =>
[]SecondSubmissionWins`. The strengthening `SerialInv` adds two facts: a call
on its way to the mutex is its key's latest call, and `lastCall` of a key is
a holder of that key. Its `IInv` part is reused, because every `SerialNext`
step is a `Next` step (`SerialNextIsNext`).

**Closing a stream once.** `CloseOnce`: `Spec => []CloseAndRecvOnce`. The
property alone is not inductive. The strengthening `CloseInv` follows the
slot around the loop:
- before the supervisor exists, no stream has been closed;
- `Run` is entered only with `streamActive` true;
- at the top of the loop and in `Run`, a true `streamActive` means the stream
  is not closed;
- `reconnectStream` and the backoff sleep run with `streamActive` false.

`CloseInvStep` has one step per action. The key steps are the two that close.
`onUpdate`'s cancellation path leaves `Run` with the sentinel joined to
`ctx.Err()`, which the loop classifies as a cancellation. The loop's own
close sets `streamActive` false until `reconnectStream` stores an open stream.

**The stream discipline.** `StreamRefined`: `Spec => StreamRefinement`.
`StreamStep` maps every step, as follows:
- the initial `FeedRIB` and `ReconnectTick` are `OpenStream`;
- a successful Send is `SendUpdate`;
- the two closes are `CloseStream`;
- `Deliver` and `StreamBreak` are the abstract RIB steps;
- the failed `FeedRIB`, the static-only setup, `Install` (for the predecessor)
  and `Terminate` are `ReleaseStream`, or a stutter when the import was
  released already (lemma `StreamRelease`);
- every other step is a stutter (lemma `StreamStutter`).

The step rests on `StreamRefInv`, the conjunction of `IInv`, `SetupLive`,
`StreamSlotInv`, `CloseInv` and `StreamInv`. Each conjunct is needed:
- `StreamSlotInv`: `reconnectStream` finds no open stream;
- `CloseInv`: the loop's close finds a stream that is not closed;
- `SetupLive`: the initial `FeedRIB` is made by a live import;
- `StreamInv`: nothing is in flight on a stream that is not open; no stream
  exists before the initial `FeedRIB` and none is missing after it; an
  undialled connection is not closed.

`IInv`, `StreamSlotInv` and `SetupLive` were first checked by TLC as
invariants (2 keys, 3 holders, 8.7M states). `CloseInv` was checked at 20.9M
states (2 keys, 3 holders, window 1), and `StreamInv` with all the others at
5.4M (1 key, 3 holders).

**Checking the proofs.** `tlapm BirdImportProofs.tla` proves every
obligation from scratch in about 5 minutes. Leaves that need case analysis
over many primed variables, but no arithmetic, name `Zenon`, so Z3 is never
run on them only to time out. Leaves whose Z3 proof takes several seconds
name `SMTT(30)`.

**Only model-checked:** all liveness properties, because TLAPS does not handle
liveness under fairness or ENABLED.

## 4. Future work

1. **Stream history.** Streams as a per-holder sequence, in place of the
   single slot of `ImportStream`. That would state the stream discipline over
   every stream an import ever opened. Use SequencesExt, with no RECURSIVE,
   so that it can be proved.
2. **Update ordering.** Model route identities (a small set) to check §8's "in
   reader order until the stream fails" and "reconnection preserves target".
3. **Liveness extensions.** Every holder's connection is eventually closed
   once it is superseded. A serialised caller's latest import eventually runs
   while its environment is healthy.

## 5. Not modelled

- The DSCP module (`src/unnamed/part_000`, lines 1–80) is shared-memory
  attach and detach: sequential I/O with no state a property could tell
  apart.
- The protobuf definitions (pdump, NAT64) and the meson files
  (`src/unnamed/part_000` from line 81, `src/unnamed/part_001`, and the text
  after line 355 of `service.go`) describe interfaces and builds, not
  behaviour.
- `bird.Export` and the RIB service are not under `src/`. They are modelled
  only as the environment their contracts in the spec describe.
