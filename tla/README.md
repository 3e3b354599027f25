# OXP in TLA+

This directory models the parts of OXP in which several actors share state: the
`oxp-runtime` process (Rust, `runtime/`), the hosts that drive it over stdio or run
components themselves (`hosts/`, `packages/host-core`, `packages/host-runtime`), the
store a host keeps extensions in, the development server (`oxp dev`), and the
registry (`apps/web`). TLC checks the models on small instances; TLAPS proves some
of the results for every value of the constants. Every definition is mapped to
source lines in `PROJECT.json`.

## Inventory

| Part | State | Operations | Interacts with | What is hard |
|---|---|---|---|---|
| Reader loop (`runtime/src/rpc/server.rs`) | handler set, exit flag, position in a frame | read a frame, spawn a handler, reap one, drain, exit | stdin, handlers, writer | a pending read is cancelled by a finished handler; drain order |
| Writer (`server.rs`) | channel of 64 messages | write, fail, stop | handlers, workers, stdout | back pressure; stdout failure |
| Handlers (`dispatch.rs`, `lifecycle.rs`, `extension.rs`) | one task per frame | initialize, load, activate, command, event, deactivate, unload, shutdown, exit | `state::Inner`, workers | snapshots used after an await |
| Workers (`wasm.rs`) | queue of 16 calls, the component | receive, run an export, import, return, stop | handlers, host RPC | unload with calls queued or running |
| Host RPC (`host_rpc.rs`) | `pending_callbacks` | allocate, send, answer, time out | workers, response handlers | timeout against a late answer |
| Framing (`rpc/codec.rs`) | header line, announced length, body | read a frame | `select!` of the reader loop | cancellation in mid-frame |
| Host clients (`RpcClient.kt`, `rpc-client.ts`, `init.lua`) | next id, pending map | request, dispatch, time out, fail all | callers, runtime | ids of two directions; death against registration |
| Runtime service (`runtime-rpc-service.ts`, `OxpRuntimeService.kt`) | process, client, instances | ensureStarted, load, call, unload, dispose | clients, process | client visible before `initialize`; death and restart |
| Component host (`activator.ts`, `jco-backend.ts`, `extension.ts`) | map of active components, directories, backend | install, activate, deactivate, uninstall, disposeAll | store, component loader | awaits between check and set; a component that throws or hangs half-way |
| Store (`host-core/src/store.ts`) | `installed.json`, `trust.json`, directories | install, uninstall | installer, file system | read-modify-write around awaits, torn files |
| Installer and grants (`installer.ts`, `grants.ts`) | `grants.json`, the prompt | finishInstallWithConsent, set, clear | store, user | decisions that outlive upgrades, refusals and crashes |
| Dev server (`cli/src/commands/dev.ts`) | debounce timer, build flags, served bundle, sockets | watch, rebuild, broadcast, shut down | project files, windows | changes during a build; a window that connects late |
| Dev window (`dev-session.ts`) | session, directory, view, commands | attach, reload, error, end | dev server | renders that overlap, late messages |
| Registry: packages (`publish.ts`) | Extension, Version, PublisherKey rows, blobs | publishVersion, createExtension | database, blob store | no transaction; duplicate publishes |
| Registry: names (`namespaces.ts`, `orgs.ts`, `sso-provision.ts`) | User, Organization, NamespaceHandle, Membership, OrgInvite rows | sign up, claim, release, create organisation, members, invitations | database | check-then-create over read-committed rows |
| Registry: accounts (`device-auth.ts`, `two-factor.ts`, `email-tokens.ts`, `api/v1/auth`) | ApiToken, DeviceAuth, link and recovery-code rows | device login, login, rotate, revoke, prove, follow a link | database | things that may be used once |
| Bundle, schema, SDK, other CLI commands, pages | none shared | pure functions, rendering | | |

What makes each part correct: the runtime answers every request once, loses no
reply, and leaves nothing in flight when it exits; the reader hands over what the
host wrote; a client settles each request with its own answer; the service knows its
processes and their instances; the component host accounts for each component it
made; the store never widens what a user granted and lists what was installed; a dev
session shows the last change; the registry lists only what can be installed, keeps
what was published, and lets a handle, a link or a login be used once. `hazards` in
`PROJECT.json` lists, line by line, where this could go wrong.

## Modules

| Module | Models | Against |
|---|---|---|
| `RpcContract` | abstract: what a runtime promises about answers | |
| `Runtime` | the whole `oxp-runtime` process on parsed frames | implements `RpcContract` |
| `FrameChannel` | abstract: frames sent are frames received | |
| `FrameReader` | `read_frame` under the `select!` of `serve_stdio` | implements `FrameChannel` when chunks hold whole frames |
| `RpcClient` | the JetBrains client and its VS Code mirror | composed with `RpcContract` as the runtime |
| `HostStore` | store, trust pins, grants and installer over files | |
| `RegistryRows` | tables, blobs, requests, the frame of a handler | |
| `Namespaces`, `Accounts`, `Publishing` | the handlers of the registry, by the tables they write | |
| `Registry` | the three together | |
| `ComponentHost` | RuntimeManager, jco components, the commands of VS Code | |
| `RuntimeService` | the service that owns the runtime process in VS Code | |
| `DevServer`, `DevWindow` | the two ends of a dev session | composed in `DevSession` |
| `VsCodeHost` | what runs in a VS Code window: the three above side by side | |
| `MC*` | instances for TLC | |
| `RuntimeProofs`, `RuntimeCallbackProofs`, `RuntimeContractProofs` | theorems about `Runtime`: types, ids and replies; host calls and the drain; `RpcContract` | |
| `FrameReaderProofs`, `RpcClientProofs`, `HostStoreProofs`, `RegistryProofs`, `VsCodeHostProofs` | theorems about the module of that name, and those it is made of | |

`Runtime` and `RpcClient` meet in `RpcContract`: the first is checked to implement
it (`ImplementsContract`, also a theorem), the second uses its actions for the runtime's side.

### Runtime

Frames are numbered as they are read, and the number names the handler task. A
handler that loads an extension names its worker. Correspondence:

| Code | State | Actions |
|---|---|---|
| `serve_stdio` | `reader`, `nread`, `frame` | `Read*` (read and spawn), `CheckExit`, `CloseInput`, `Drained`, `Exit` |
| `Dispatcher`, handlers | `pc`, `target`, `number`, `holds` | `Reject`, `Initialize`, `Shutdown`, `ExitNotice`, `LoadBegin`, `LoadInstantiate`, `LoadInsert`, `Snapshot`, `SendCall`, `SetActivated`, `Unload`, `StopWorker`, `Ignore`, `TakeCallback`, `Deliver`, `Respond` |
| `state::Inner` | `handshake`, `instances`, `activated`, flags, `pending`, `nextCallback`, `counter` | one critical section is one action |
| worker task of `wasm.rs` | `worker`, `queue`, `serving`, `used`, `callId`, `channel`, `ran` | `Receive`, `Abandon`, `Import`, `Notify`, `Allocate`, `CallHost`, `Answered`, `Timeout`, `Return` |
| outbound channel, writer | `outbound`, `writer`, `written` | `WriterWrite`, `WriterFail` |

An await point separates actions; code between two awaits, or under the mutex, is
one. What a component computes is a choice of ok or error; payloads are reduced to
what handlers look at. `should_exit` uses `try_lock`, so `CheckExit` may miss the
flag. Component traps and engine failures appear as errors of an export.

### FrameReader

stdin is a sequence of tokens (header halves, line ends, body units). `cuts`, chosen
at the start from `Cuttings`, says where a chunk may end. A poll of `read_frame`
takes what has arrived; between polls a handler that finishes cancels it (the
`biased` branch), and the locals are lost. Only the position in the buffer survives.
When chunks hold whole frames the reader is checked against `FrameChannel`; anywhere
else what it hands over must at least be frames of the host, whole, in order and none
twice (`NeverMisreads`). It may lose some. One cancelled read makes it refuse the rest
of the frame, with an error; two, one after a header and one after its body and before
the next frame, make it skip a frame and go on as if nothing had been there.

### RpcClient

`Client` selects the variant. JetBrains runs callers, reader and handlers on
threads: `Register` (the map entry) and `Send` (the write) are separate steps, a
deadline may win over an answer that nobody picked up, the reader fails what is in
the map at the end of the stream and leaves the entries to their callers. VS Code
runs each callback to its end, clears its map, and takes any frame with an id for
an answer. `Free` keeps other client steps out between `Register` and `Send` there.

The runtime calls only from a component inside an export (`InsideExport`): a load has
been answered, an `activate`, `command` or `deactivate` has been accepted, and the
worker does not wait for an earlier call. An event enters an export too, by a
notification that leaves no request open; it comes from what the component has
rendered, so it needs no more than that. `MayAsk` keeps the order of the services
above the client: `initialize` is request 1, and an export needs the answer to a load.
In Java, a thread that finds the client in the few statements between its assignment
and that request could load first; that is left out. `GiveUp` is the deadline of a
call: at 30 seconds or more it is not before that of a request made earlier (10 or 15
in VS Code, 30 in Java), so timers are taken to fire in their order.
The Neovim client is not an instance (no timeout, nothing failed at exit).

### HostStore

An operation is `finishInstallWithConsent`, `Store.uninstall` or `Grants.clear`.
Each file is read at one step, changed in `buf`, and written by `Truncate` and
`Fill`: a file cut between the two reads as empty, as `catch { return [] }` makes
it. `Abort` ends an operation at any step: a failed write, `UNSAFE_PATH`, or the
death of the host, which keeps nothing in memory. Two operations may interleave,
in one host (commands are async) or in two that share the directory. `consented`
is history: the installs whose prompt was answered with a grant.

### Registry

A request is a job (`job`, a record of what it asks for), a place (`at`) and what it
has read and still uses (`read`). One call of the Prisma client is one step: a query
is a snapshot, a `create` either inserts or throws on a unique constraint, an array
`$transaction` is one step, and the writes of an interactive one become visible
together (read committed). `Go` moves a handler from one await to the next; `CutOff`
ends one anywhere. `overlapped` remembers whether a handler has taken a step while
another was under way: the properties that the code keeps only for handlers one at a
time have `~overlapped` as their hypothesis and say so. `Accounts!Later` lets time
pass between handlers: sessions and rotated tokens expire, proofs go stale.

| Code | Actions |
|---|---|
| `publishVersion`, versions route | `PublishToken` ... `PublishAnswer`, in the order of the source |
| `createExtension` | `ReserveCheck`, `ReserveCreate` |
| sign-up, `findOrProvisionSsoUser` | `SignUp*`, `Sso*` |
| `claimNamespace`, `releaseNamespace` | `Claim*`, `Release*` |
| `createOrganization`, `removeMember`, `changeMemberRole` | `Org*`, `Member*` |
| invitations | `Invite*`, `Redeem*` |
| device login | `LoadPending`, `Approve`, `Deny`, `PollCheck`, `PollReread`, `PollMint` |
| tokens | `Login`, `MintCount`, `CreateToken`, `Rotate*`, `Revoke`, `Logout*` |
| two factors, links | `Authenticate2fa`, `Enroll`, `Proof*`, `Disable2fa`, `ResetInvalidate`, `Link*` |

### VS Code host

`ComponentHost` has one record per command of the host (`cmd`, `stage`, `held`),
named also as the component it makes. Between two stages is one await. `life`,
`alive` and `released` say what has become of each component: activated, left in
order or failed; marked dead or not; its directory removed or not. `installed` and
`dirs` abstract the store: a record and the directory of each version.

`RuntimeService` has one record per call of the service. `client` is the process the
service has a client for (`proc`, `rpc` and `starting` are set and cleared
together); frames and answers are sets, since handlers of the runtime run at once.
`Die` and `Exit` separate the end of a process from the event that reports it.

`DevServer` names a bundle by the version of the sources it was made from. `Edit`,
`Reported` (chokidar), `Rebuild` (the 100 ms timer), `ReadSources` and `BuildEnds`
are the steps at which a change could be missed; `pendingRebuild` is the flag of the
source. `DevWindow` renders a bundle in the steps `Wipe`, `Write`, `Show`; `raced`
remembers that a render overlapped with another or with the end of the session.
`DevSession` connects them by `wire`, the messages under way. The three parts of
`VsCodeHost` share no state, so each behaviour exercises one (`part`).

## Runs

| Run | Question | Bounds, and why they are enough |
|---|---|---|
| `runtime_safety` | safety of a session, and `RpcContract` | five frames: initialize, load, and three that may call, answer, unload, load again, shut down or exit; one host call per export; queues of 2. Two handlers can contend for one worker while an answer, a timeout or an unload comes. |
| `runtime_liveness` | answers, drain and worker stop under fairness | four frames, queues of 1 so that they fill, a counter of period 1 so that a second load displaces the first |
| `runtime_shutdown` | `shutdown` answered last (fails) | three frames |
| `frames` | the reader implements `FrameChannel` on whole frames; otherwise it hands over whole frames, in order, none twice | four frames with both line ends and header orders, so that one can be skipped with others before and after it; cuts between frames, and anywhere |
| `frames_split` | complete frames are never refused (fails) | cuts between header and body |
| `host_store_races` | consent under interleaving, torn files and crashes | two operations at once, two extensions of one publisher, two keys, two sensitive permissions and an ambient one, an upgrade that asks for more |
| `host_store_serial` | decisions, pins, index and files agree | three operations, each possibly cut off: one to set up, one to disturb, one to repair |
| `host_store_refusal` | a refused install changes nothing (fails) | two operations |
| `client_jetbrains` | correlation, no lost answer, no hang | three requests and three calls: initialize and two loads, whose answers can be late or overtake each other, or a load and an activation (3), in which the component makes calls 1, 2 and 3, the last with the id of the request that is open |
| `client_vscode` | correlation (fails) | four requests and four calls: what a component calls meets an open request of the same id only after three calls have timed out, which takes longer than the activation waits, so the request it meets is a command (4). A constraint keeps to sessions that run a component after initialize and the loads were answered |
| `registry` | what the tables keep, overlapping and one at a time | three requests at once, drawn from some two hundred workloads that each bring handlers on the same rows together; two versions, four users, one organisation with two owners, an alias, two recovery codes, a device session, a reset link. Every handler meets a rival between each of its reads and writes, and each may be cut off. |
| `hosts` | components, processes and dev sessions accounted for; changes reach the window | three commands on two extensions; three calls and two processes, so that one dies and is replaced; two versions of the sources and three reloads, so that a change comes in each phase of a build and the window connects before or after it |

The runs that fail are the findings of `PROJECT.json`, each with the line of the
repository that says otherwise:

- `shutdown` is answered while requests are in flight, against the specification;
- a header whose body comes in a later chunk is lost when a handler finishes, and the
  reader fails on the body (or, after a second one has finished, skips the frame);
- a bundle refused for its key has already replaced the stored grant;
- the VS Code client settles a request with a call that has the same id: requests 1
  (`initialize`) and 2 (`extension/load`) are answered; 3 (`extension/activate`)
  expires after 10 seconds while the component waits 30 for each of its calls 1 to 3,
  which the client drops; its call 4 then settles request 4, a command of the user
  that is waiting for the same worker.

### Known to fail

Some properties have a hypothesis that the code does not establish. It is needed:
TLC finds a counterexample for each when it is removed.

- `Serial` in `host_store_serial`: two operations at once violate `OneKeyPerPublisher`
  (two first installs both find no pin), `IndexKeepsInstalls` (each index write drops
  the other's record), `LatestDecisionStands` and `FinishedInstallStands`. The code
  does not lock the directory. `Intact` is needed too: a `trust.json` that was cut off
  reads as "no pins".
- `~overlapped` in `OneShot`: two polls of one device login both mint a token
  (`token/route.ts:60` says that a duplicate poll cannot); a recovery code proves two
  tokens; a link is followed twice.
- `~overlapped` in `NamespacesKeepOwners`: two owners leave at once; an alias is
  released while a version is published under it.
- `~overlapped` in `LatestIsHighest`: of two publishes at once the lower version may
  be the latest. A publish cut off before its last write leaves the old one, and
  repeating it is refused as a duplicate.
- `~overlapped` in `ComponentsAccounted`: two activations at once leave one component
  that nobody disposes of; a deactivation, an uninstall or `disposeAll` misses an
  activation that is under way.
- `~raced` in `ShownIsWhole`: two renders at once mix the files of two bundles.
- `counter <= IdWrap` in `NeverRebound`: instance ids keep 8 bits of the counter, so
  the 257th load of an extension takes over the id of the first.

Seen while modelling, without a run of their own: handles are checked against the
users only at sign-up, so a user may take the handle of an organisation or an alias
(`namespaces.ts:13` speaks of collision protection for free); two keys may be registered for one
handle; a path that does not match the manifest is answered with an error after the
version was published; a revoked invitation that is being redeemed is accepted; the
limit of tokens is checked before the insert; a component that timed out is dead to
the host but not cut off from its imports (`jco-backend.ts:21` says it is); an update
of an active extension leaves the old component running; the Neovim client leaves
pending requests unanswered when the runtime dies; a file edited before chokidar has
scanned the project is not rebuilt; a window that connects after a failed build is
not told of the failure.

## Fairness

`Runtime`: weak fairness of each task, worker and of the writer. Tokio polls a
woken task eventually and its mutex is fair; the writer's step assumes that the
host reads stdout, or that the write fails; `Timeout` is the worker's own timer;
that an export returns is bounded by `MaxImports` (no fuel limit in `wasm.rs`: an
assumption about components). Nothing is assumed about the host: it may never
answer, and stdin may stay open.

`RpcClient`: weak fairness of the client's threads, of the host's handlers (a
modal dialog that is never closed would break it), and of a runtime that lives.
The latter is `EveryRequestAnswered` of `Runtime`. No timer is assumed to fire.

`DevSession`: weak fairness of the watcher's report, the debounce timer, the end of
a build (a build hook that never ends would break it), the binding of the port,
which tries the next one when one is taken, the delivery of messages and the renders.
Nobody need edit, connect, or stop anything.

`FrameReader`: weak fairness of the reader task, which is polled when data comes or
a handler ends, and of the handlers; the host need not write or close anything.

`HostStore`, `Registry` and the other parts of `VsCodeHost` state safety only: an
operation may stop anywhere.

## Proofs

TLAPS checks the theorems below for every value of the constants that satisfies the
named assumptions of the modules. They state every invariant and action property of
the passing runs, the refinement of `RpcContract`, and the safety of `FrameChannel`.
The assumptions say that

- capacities, periods and other bounds are naturals, and not zero where the code has a
  constant (`Runtime`: `BoundAssumption`, `CapAssumption`, `WrapAssumption`;
  `RpcClient`: `BoundAssumption`; `HostStore`: `OpsAssumption`; `ServiceBound`,
  `EditsAssumption`, `FilesAssumption`, `VersionsAssumption`);
- functions have their domains, and what is asked for names things that exist
  (`HashAssumption`, `ScriptAssumption`, `ClientAssumption`, `PublisherAssumption`,
  `SensitiveAssumption`, `OfferedAssumption`, `ComponentCommands`, `ServiceCalls`,
  `NamesAssumption`, `AccountsAssumption`, `PublishAssumption`);
- the value that stands for "nothing" is none of the others (`ComponentNone`,
  `NoneAssumption`);
- the rows a registry starts from are ones its handlers could have written
  (`RowsAssumption`: an organisation has an owner, members have accounts);
- the host writes complete frames, one after the other, each body as long as
  announced (`FrameReader`: `LengthAssumption`, `InputAssumption`,
  `CuttingsAssumption`, `FramesAssumption`, `OrderAssumption`). Where the chunks end,
  and when reads are cancelled, is not assumed.

Each proof has the same shape: an inductive invariant, a lemma that `Init` implies it,
a lemma per action that keeps it, and the property as its consequence.

### The runtime

| Theorem | Inductive invariant, and why the property alone does not do |
|---|---|
| `RuntimeProofs!TypeCorrect` | `TypeInv`: the types, with `ServingInv` (a worker inside an export serves a frame; one that waits has asked) and `KindInv` (only a load instantiates, only a response delivers), without which the questions of host calls have no type |
| `RuntimeProofs!NeverReboundHolds` | `IdInv`: `BornInv` (which tasks have a number and a worker), `NumberInv` (a number is handed out once), `BoundInv` (the map binds an id to the worker the id was made for). Two loads have different numbers, so within a period of the counter different ids, even if the hashes of their extensions collide |
| `RuntimeProofs!NoLostReplyHolds` | `ReplyInv`: a handler that awaits is served by its worker or has one place in its queue (`AwaitInv`), and whatever a worker serves or has queued is a handler that awaits it (`HolderInv`). `HandleInv` is needed for a worker not to be abandoned while a handler is about to call it. Lemmas `EnqueuedPlaces` and `Dequeued` say what the two queue operations do to places |
| `RuntimeProofs!ActivatedMeansRanHolds` | `CallingInv`: a handler in a call has the handle of a worker made for its instance id, and if it is about to set the flag that worker's `activate` returned Ok. `OneWorker` then says that the instance that has the id when the flag is set is that worker's |
| `RuntimeCallbackProofs!CallbacksMatchWaitersHolds`, `AnswerMatchesQuestionHolds` | `CallbackInv`: an id of a host call stands for one question, wherever it occurs: in the map, at a worker, on the wire, in an answer (`PairInv`); a sender that a response handler holds is for a question that cannot be asked again (`HoldInv`); an entry whose answer was taken or delivered is not in the map (`HoldInv`, `TakenInv`). Without `HoldInv` a handler that took a sender, lost the race with the deadline and delivers late might wake the next call |
| `RuntimeCallbackProofs!QuietAfterDrainHolds` | `DrainInv`: when the reader joins the writer every handler has finished; with `HolderInv` nobody is served, and with `NoLeakedCallback` the map is empty |
| `RuntimeContractProofs!ImplementsContractHolds` | `ContractInv`: only a frame that gets an answer comes to a control point that answers (`RoleInv`); an answer is given by a handler that has ended and is in one place, the channel or stdout (`OneAnswerInv`); a handler that has ended has left its answer there unless stdout failed (`KeptAnswerInv`); the message that stops the writer is behind every answer (`LastInv`). Each step then is an `Accept` (the read of a frame), an `Answer` (the write of a response), a `Break`, a `Close` (the exit), or a stutter |
| `FrameReaderProofs!FrameReaderTypeCorrect`, `NeverMisreadsHolds` | `Inv`: the line and the body that are being read are the tokens taken last (`LineInv`, `BodyInv`); a length that is remembered was announced right before, in the frame that is being read (`AnnouncedInv`); what is left in the stream is later than what was handed over (`OrderInv`). A cancelled read leaves the reader anywhere, so nothing can be said of where it is before it has a length |
| `FrameReaderProofs!KeepsToChannelHolds` | `EdgeInv`: while chunks hold whole frames, a reader that waits is between two frames and has read nothing of the next, so a cancelled read loses nothing, and the frames it has taken are those it has handed over. The last token of a body then is a `Receive`, the arrival of a chunk a `Send`, and every other step a stutter |

### The hosts

| Theorem | Inductive invariant |
|---|---|
| `RpcClientProofs!ClientTypeCorrect`, `PendingNeverStale` | `TypeInv`, which needs that a frame on stdout is a response or a call that was made; `CallerInv`: an id not yet given out has no caller, an entry of the map has one, and a caller without entry has an outcome. Both clients |
| `RpcClientProofs!AnswersNeverConfused`, `AnswerNeverLost` | of the threaded client. `SentInv`: the runtime has seen only what was written; `AnswerInv`: an answer that was given is on stdout, has settled its own request, or finds its caller gone, and only a request without an answer is told that the channel is closed |
| `HostStoreProofs!StoreTypeCorrect` | the types, with what kind of operation is at which step |
| `HostStoreProofs!ConsentBackedHolds`, `ShownBeforeInstalledHolds` | `ConsentInv`: every grant on disk, in a buffer or decided is backed by an answered prompt, and what a prompt was answered for is what is installed. Files are read and written at different steps, so what a buffer holds must be backed too (`BufferInv`) |
| `HostStoreProofs!FinishedInstallStandsHolds` | `SerialInv`: of operations one at a time the last is the only one that may run (`OrderInv`), a torn file is its own or was left by one cut off (`TornInv`), and what it has done so far is there whatever it found (`ProgressInv`, one conjunct per file) |
| `HostStoreProofs!OneKeyPerPublisherHolds`, `IndexKeepsInstallsHolds`, `LatestDecisionStandsHolds` | while no file is torn, also: every record has the key pinned for its publisher, in the file and in the buffer that replaces it (`KeysInv`); the buffer of one operation keeps the records of the others (`KeptInv`); no grant stored or about to be exceeds the last decision that was stored (`LatestInv`) |
| `HostStoreProofs!IndexedFilesPresentHolds` | while no operation is cut off, also: a record has its files unless the operation that will replace it is writing them (`FilesInv`) |
| `VsCodeHostProofs!ComponentsAccountedHolds` | `ComponentInv`: what the map has can be called whatever overlaps (`MapInv`), what a command tears down the map has let go of (`CommandInv`); while commands do not overlap, what a command has found is still so, and a component is in the map, disposed of, or in the hands of a command (`SerialInv`) |
| `VsCodeHostProofs!RuntimeAccountedHolds` | `ServiceInv`: a call that waits, and the call that loaded a listed instance, talk to the process the service has a client for (`CallersInv`), and only that process may be running |
| `VsCodeHostProofs!ShownIsWholeHolds` | `SessionInv`: unless renders have raced, one render at most is under way, it is of the last bundle, and the directory holds what it has written (`QuietInv`) |
| `VsCodeHostProofs!HostTypeCorrect` | the types of the three parts; `BuildInv` orders the versions a server knows |

### The registry

| Theorem | Inductive invariant |
|---|---|
| `RegistryProofs!VersionsInstallableHolds`, `PublishedOnceHolds` | `PublishInv`: what the steps of a publish so far have left behind (`Keyed`, `Rowed`, `Stored`, `Listed`), that no other handler takes any of it away (`Grows`), and that two requests do not insert one version (`OneInserts`) |
| `RegistryProofs!RegistryTypeCorrect` | `RowsInv`: what a handler has read and writes later has the type of the row it goes to (`NameReads`, `AccountReads`), as accounts, organisations, sessions and links never go away |
| `RegistryProofs!ClaimedOnceHolds` | `ClaimInv`: a handle that was won is taken, or was released. It holds of handlers that overlap in any way: the unique constraint decides |
| `RegistryProofs!NamespacesKeepOwnersHolds`, `LatestIsHighestHolds`, `OneShotHolds` | handlers one at a time. `SerialInv`: no two are under way. `OwnersInv`, `LatestInv`, `OneShotInv` (`LoginsInv`, `CodesInv`, `LinksInv`): the last look of a handler at the rows still holds when it writes |

`OneWorker` and `NeverRebound` have the hypothesis that the counter has not passed
its period; the properties of `HostStore`, `Registry` and `VsCodeHost` named here with
"one at a time", "while" or "unless" have that as a hypothesis (`Serial`, `Intact`, no
operation or publish cut off, `~overlapped`, `~raced`). Without it they are false (see
above).

## Model-checked only

- Liveness (`EveryRequestAnswered`, `DrainTerminates`, `UnloadedWorkerStops`,
  `EveryRequestSettles`, `CallsAnswered`, `ServedInTime`): proofs of leads-to under
  weak fairness need `ENABLED`, which the prover does not handle.
- The liveness of `FrameChannel` in `ImplementsChannel`: that a frame that has arrived
  is handed over in the end. Its safety is the theorem `KeepsToChannelHolds`.
- The four runs that fail are counterexamples, which need no proof.

## Plan

What would be worth adding, in this order:

1. the JetBrains runtime service, which does on threads what `RuntimeService` does on
   one, and the Neovim client;
2. billing and the claims of reserved handles in `Registry`.

## Not modelled

Most of the repository's lines are pages, documentation data, examples, command-line
formatting and editor user interfaces: they render what other parts decide and keep
no state that two actors share, so there is nothing a model of them would check. Of
the rest:

- Pure functions that the models take as given: bundle hashing, signing and packing,
  WIT extraction, permission strings, schema validation, scopes. They appear as a
  verified bundle, a covered flag, a set of sensitive permissions, a valid request.
- `permissions.rs` only logs; `surfaces.rs` and `streams.rs` hold constants. The wasm
  engine is external.
- JetBrains' runtime service and dev session, which mirror those of VS Code on
  threads; Neovim's client, which has no timeouts; the Piye host, thin over host-core.
- In the VS Code host: command invocation (no caller), the permission gate of each
  import, the bridge to the page, view reopening, the launch of a development host.
- In the registry: rate limits (one synchronous list), billing webhooks, claims of
  reserved handles by domain, storage backends and keys, two-factor actions of the
  dashboard, and times finer than "expired" and "fresh".

Components and their status are listed in `PROJECT.json`.
