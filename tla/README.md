# Verge Browser: specification and proofs

TLA+ modules for the parts of Verge Browser whose correctness depends on the
order of things: the sandbox lifecycle of the API server over Docker, with its
readiness waiters, health checks, crashes and restarts; the tickets and sessions
that open a sandbox to a client; the WebSocket proxies; what runs inside a
container, which is the installation, the profile and the control of Cloak, and
the Camoufox worker; and two clients, the session page with its clipboard and the
DSH plugin with its session proxy and its handoff of a page from a program to a
person and back. TLC checks the modules on small instances; TLAPS proves the
safety properties for every instance.

Paths below are relative to the repository; `app/` stands for
`apps/api-server/app/`.

## The system

A sandbox is a Docker container with a browser, a display and a session
service, and a directory on the host with the browser profile and the user's
files. One API server process (FastAPI on one asyncio event loop) creates,
pauses, resumes, restarts and deletes sandboxes and proxies their traffic.

| Component | State it keeps | Operations | Hard because | Correct when |
|---|---|---|---|---|
| Docker adapter (`app/services/docker_adapter.py`) | none; Docker holds containers by name and id | run, rm, inspect, ps, exec | every call may fail, time out after it took effect, or leave half of it behind | its answers are never trusted further than they reach |
| Record and registry (`app/models/sandbox.py`, `app/services/registry.py`) | `_items` in memory, one `meta.json` per sandbox | put, get, remove, all, load_from_disk | records are shared mutable objects that outlive their registration | memory and disk agree; aliases are unique |
| Lifecycle service (`app/services/lifecycle.py`) | `_readiness_tasks`; everything else in the records | create, update, pause, resume, destroy, restart_browser, readiness loop, health checks | an operation goes on after an await on a record others changed meanwhile | a record tells the truth about its container; profiles survive |
| Routes (`app/routes/sandboxes.py`, `app/deps.py`) | the records a request looked up | the HTTP operations, response enrichment | a health check inside a read writes the registry | a read never undoes a write |
| Startup and loops (`app/main.py`) | none | load, reconcile, health loop, prune loop, shutdown | Docker and disk may disagree after a crash | orphans are removed, live containers adopted |
| Tickets (`app/auth/tickets.py`, `app/services/cdp_access.py`) | consumed one-time tickets | issue, verify, consume, prune | expiry, pruning and restart race the second use | a one-time ticket opens one session |
| Sessions (`app/routes/session.py`, `app/services/session.py`) | session table with expiry | exchange a ticket, proxy HTTP and WebSocket | two pump tasks end in either order | a session ends with its ticket |
| CDP and browser commands (`app/routes/browser.py`, `app/services/browser.py`) | none | version, viewport, screenshot, CDP proxy, commands | the sandbox changes under an open proxy | only running sandboxes are driven |
| Clipboard and files (`app/services/clipboard.py`, `app/services/files.py`) | none; the container has a clipboard and files | read, write, upload | a write that is given up on goes on in the container | what is acknowledged is there |
| Cloak runtime (`apps/runtime-common/cloak_*.py`, `install_cloak.py`) | installed builds, the profile's identity, files of the last launch | install, prepare, launch, stop, start, status | crashes between two files; controllers that overlap | a profile keeps its identity; a stop that is confirmed is real; a diagnosis is of the right launch |
| Camoufox runtime (`apps/runtime-common/camoufox_*.py`) | one browser behind a socket | stop, commands | a stop waits behind commands, its caller gives up, the worker is killed | a container goes only when its profile is closed |
| DSH plugin (`packages/dsh-plugin/src`) | handoff state, attached page, cached session | attach, commands, handoff, proxy | a person and a program share one page; requests overlap on one cached session | the program never acts during a handoff; a rejected session is replaced once |
| Session page (`app/static/vnc_session.html`) | transfer, dialog and connection | paste, copy | clicks overlap transfers | one transfer at a time; a text is pasted as it is, or kept |
| SDKs, CLIs, admin console | none that matters | wrap the HTTP API | | |

The server's components share the records: the lifecycle service, the read
handlers and the health loop all hold references to the same Python object, and
the code between two `await`s is the only unit of atomicity. Docker calls are
synchronous subprocesses, so a whole pause or delete is one step of the event
loop, while create, resume and restart are split at the awaits of
`_wait_until_ready`.

Tickets and sessions share nothing with the lifecycle but the existence of a
sandbox; the DSH bridge talks to the server over HTTP and to the browser over
CDP; a WebSocket proxy, once its access is granted, sees only its two ends; and
what runs inside a container is reached with `docker exec`, whose answers
`DockerHost` and `Lifecycle` take as outcomes. Where components do interact through
state, one module holds both: the lifecycle with Docker and with the process, the
sessions with the tickets, the plugin's session proxy with the server's
sessions, a Cloak profile with the installer, the Camoufox worker with its callers
and with the server that stops it, the session page with the server's clipboard.

## The modules

| Module | Models |
|---|---|
| `DockerHost` | Docker as the adapter sees it: one container per name, the outcomes of run, rm, inspect and ps, what happens behind the server's back |
| `Lifecycle` | the records, registry, meta.json files, readiness waiters and the six operations; EXTENDS `DockerHost` |
| `SandboxCustody` | abstract: what is promised of a Cloak or Camoufox sandbox: it is absent, idle, running, or a stray container, and its data are kept or not |
| `ApiServer` | the process: startup, reconciliation, health loop, reads, crashes; `Spec`, `LiveSpec` and the properties; EXTENDS `Lifecycle`, implements `SandboxCustody` |
| `ApiServerMC` | instances for TLC |
| `ApiServerProofs` | type correctness |
| `RuntimeProofs` | live containers are recorded, profiles survive, no orphans, names are free |
| `RecordProofs` | records against containers, registry against disk, aliases, custody, pauses, who watches a start; EXTENDS `RuntimeProofs` |
| `Tickets` | signed tickets, their verification, the memory of used ones and its pruning |
| `Sessions` | what tickets open: session exchange, session table, cookies, CDP connections, the prune loop, restarts; `Spec`, `LiveSpec`; EXTENDS `Tickets` |
| `SessionsProofs` | type correctness, access within the grant, one use and one session per one-time ticket |
| `PageControl` | abstract: who owns a page and whether the program drives it |
| `HandoffBridge` | the attached browser of the DSH plugin, call by call; implements `PageControl` |
| `BridgeProofs` | the bridge's invariants and the implementation |
| `CloakInstall` | installers of Cloak builds on the shared volume |
| `CloakProfile` | one profile: prepare, launch, lost files and dying containers; `Spec`; EXTENDS `CloakInstall` |
| `CloakProfileProofs` | what `current.json` names, the identity of a profile |
| `CloakControl` | stop, start and status of one Cloak browser over supervisor, and the diagnosis files |
| `CamoufoxWorker` | the worker, its callers, and the server's removal and restart of the browser |
| `ContainerMC` | what runs beside the server, for TLC: `CloakProfile`, `CloakControl`, `CamoufoxWorker` and `SessionProxy`, one at a time |
| `ControlProofs` | theorems about `CloakControl`, `CamoufoxWorker`, `SessionProxy` and `ContainerMC`; EXTENDS `CloakProfileProofs` |
| `MessageRelay` | abstract: what a WebSocket proxy promises |
| `WebSocketRelay` | the three proxies: a handler and its two tasks; implements `MessageRelay` |
| `SessionProxy` | the DSH plugin's session proxy over the server's sessions |
| `ClipboardPage` | clipboard transfers of the session page |
| `ClientsMC` | what clients reach sandboxes through, for TLC: `Sessions`, `HandoffBridge`, `WebSocketRelay` and `ClipboardPage`, one at a time, with the fairness of the first three |
| `RelayProofs` | theorems about `WebSocketRelay`, `ClipboardPage` and `ClientsMC`; EXTENDS `SessionsProofs` and `BridgeProofs` |

Definitions whose comment begins with "Variant:" are not part of a model: each is
a plausible mistake in the definition that follows it, and shows that the
property it is paired with in `PROJECT.json` can fail.

### Lifecycle: state

| Variable | Code |
|---|---|
| `daemon`, `ctr` | the Docker daemon answers; the container that bears the name `verge-sandbox-<id>`, with its id and `State.Running` |
| `up` | the process runs and `lifespan` has reached its `yield` |
| `reg`, `meta`, `profile` | `registry._items`; the sandboxes whose `meta.json` exists; those whose profile directory holds data |
| `status`, `cid`, `alias` | the fields of the record object, which live on when `reg` no longer contains the sandbox |
| `pc` | where a readiness waiter is suspended: `new` (task created), `version` (`browser_version`), `session` (`_session_ready`), `sleep` (`asyncio.sleep(1)`), `final` (the last `_session_ready` after the deadline) |
| `on`, `creating` | the sandbox an inline waiter (a create, resume or restart request) waits for, and whether it is a create, which goes on to enrich its response |
| `held` | the records a GET has looked up and not enriched yet |
| `deleted` | history: sandboxes whose DELETE was acknowledged |

The background probe of a sandbox, `_readiness_tasks[s]`, is the waiter named
`s` itself: the code never has two of them. Inline waiters live in the slots
`Call`; nothing can cancel them.

### Lifecycle: actions

Each operation of the service is one action up to its first await (`Create`,
`Update`, `Pause`, `Destroy`, `Resume`, `RestartBrowser`), with the 409 and
failure paths as disjuncts. The readiness loop is five actions, one per await,
plus `ProbeRaises`. `RemoveRuntime` and `CreateContainer` are relations between
the container before and after and the answer the caller acts on, so that a
removal that happened but timed out, or a run that failed and left its container,
is an outcome like any other. `HealthTick`, `Enrich`, `Startup`, `Crash`,
`CrashInCreate` and `CrashInDestroy` belong to the process; `ContainerExits`,
`OperatorRemoves` and `DaemonFlips` to the host.

`Crash` also stands for an orderly shutdown, which cancels the tasks and leaves
the disk and Docker as they are. Only the two crash points that leave Docker and
the disk in a state no completed step leaves are separate actions.

### Lifecycle: faults

Every fault of the environment is a name in the constant `Faults`, so that a run
says under which faults its properties hold. `FaultNames` in `DockerHost` lists
them.

### Tickets and sessions

| Variable | Code |
|---|---|
| `clock` | the wall clock, in half seconds |
| `ticket` | what was signed for each ticket id; it outlives the server, whose secret is configuration |
| `consumed` | the keys of `TicketStore._consumed` |
| `session`, `opening`, `cookies` | `_sessions`; those whose xpra entry page is being fetched (`proxy_http`); the session ids browsers hold |
| `spent`, `uses` | history: how often this server process, and how often any, accepted each one-time ticket |
| `access`, `restarts` | history: what the last step let through, restarts |

The handlers are synchronous up to their first await, so each is one step, but
they read the clock several times: `verify_ticket` compares the exact time with
the expiry, `consume` prunes by whole seconds of a second reading, and
`_create_session` takes further ones for the rest of the ticket's lifetime and for
the session's expiry. Half seconds are the coarsest unit that tells the exact clock
from whole seconds. An action draws each reading from `Later` of the one
before, so that up to `MaxStall` half seconds pass inside a handler.
`TicketRefused` and `SessionRefused` are steps because refusals prune. A session is
a record with the ticket that opened it, which the code does not keep: it is there for
the properties.

### The handoff bridge

| Variable | Code (`packages/dsh-plugin/src/browser.ts`) |
|---|---|
| `state` | `this.state` |
| `tool`, `stage`, `aborted` | per unanswered call: its tool, the await it is suspended at, whether its `AbortSignal` fired |
| `handle`, `attached` | `this.mcp` and `this.browser` are set; Playwright is connected, which can end without the bridge's doing |
| `driving` | a page command was sent, and its sender still waits for it or is still connected |
| `closing` | `lifetime` aborted, `close()` finished |
| `handed`, `doubt`, `unhanded` | history: what happened since the last successful resume |

Tools are told apart by what they do to the bridge: the three control tools,
those that act on a page (`act`: the `browser_*` tools over CDP; on Camoufox the
six commands of line 229), and all others (`look`). `call()` chains each call to
`tail`; here `TailSettled` lets any waiting call go next, which includes the order of
the code. `Throws` is the catch of `call()`; `Listener` is what an abort does to a
CDP command at once. That a Camoufox command goes on at the server after its
answer was lost is outside `driving`: the plugin's README leaves it to the user to
confirm that remote work has stopped. A close of the CDP handles is taken to end
the connection, also when it reports an error.

### Cloak: installation and profile

| Variable | Code |
|---|---|
| `release`, `current` | `releases/<id>` on the shared volume; the build that `current.json` names |
| `inst`, `outcome` | per installer, the build and how far it is (`install_cloak.py: install`); what it reported |
| `saved`, `seedFile` | `verge-profile.json`; `.cloakbrowser-seed`, which exists empty before it is written |
| `box`, `plan` | how far `start_all.sh` and the launcher of `cloak_runtime.py` are; the identity they work with |
| `wrote`, `data`, `tampered` | history: installers that wrote `current.json`; the identity the browser's data belongs to; a file of the profile was lost or changed |

An installer stages a build, looks whether its release is there, renames or
reuses, removes the staging directory, and writes `current.json` last; it may fail
or die at each of these steps (`InstallFails`, `InstallerDies`), and another may be
at any other step. `PrepareKeeps` and `PrepareChooses` are the two ways through
`prepare_profile`; the seed file is created, written, and followed by the record in
steps of their own, between which the container may die. `LaunchReads` and
`Executes` are apart, because the build may be damaged in between. `Faults` names
what operators may damage: a build, the record, the seed, the whole profile.

### Cloak: control

| Variable | Code (`cloak_control.py`; files of `cloak_runtime.py`) |
|---|---|
| `proc` | supervisor's process information: state, which spawn it is, exit code |
| `stage` | what the spawned process does: shell, launcher, browser |
| `launchFile`, `errorFile`, `denied` | the spawns that wrote `cloak-launch.json`, `cloak-error.json`, `cloak-denial-<id>.json` |
| `cmd`, `at`, `seen`, `answer` | per controller: its command, how far it is, the process information it read last, its last answer |
| `cleared`, `launched`, `overlapped` | history: spawns that a start found down before it removed files; spawns that became the browser; whether a start was asked for while another one ran |

The server runs one controller at a time but gives up on a slow one, which
goes on. So controllers overlap, and each of `getProcessInfo`, `Browser.close`,
`stopProcess`, the reading of the files, their removal and `startProcess` is a step.
`ControlFails` is a controller that fails anywhere. Starts overlap too: the server gives
up on one after eight seconds (`docker_adapter.py:267`), the sandbox becomes DEGRADED,
and a restart that is asked for again finds the browser down, confirms the stop and
starts it (`lifecycle.py:261-275`, `cloak_control.py:73-79`), while the first start is
still on its way. `overlapped` remembers that this happened, for the properties that
hold without it. A launch can fail before or after it recorded itself (`LaunchFails`):
`main` of the launcher catches a failing `execve` as well.

### Camoufox

| Variable | Code (`camoufox_worker.py`, `camoufox_control.py`, `services/lifecycle.py`) |
|---|---|
| `worker`, `life`, `running`, `serving`, `result` | the last worker, how far it is, whether its loop goes on, the caller it serves and with what result |
| `browsers` | workers whose browser has the profile open: a killed one leaves its own |
| `sock` | the worker that bound `camoufox.sock` last; the file outlives it |
| `want`, `call`, `peer`, `heard` | per caller (`docker exec camoufox_control.py`): its command, how far it is, whom it is connected to, its answer |
| `op`, `stopper` | the removal or restart the server is at, and the caller that is its stop |

The worker accepts one connection at a time. A caller that timed out (`gone`) has
left its command to be read; its answer raises in `sendall`, outside the `try`, which
ends the worker and its browser (`SendsReply`). `context.close` may raise with the
browser open (`ServesStop`). The server looks at supervisor, asks the worker to stop,
and acts when the stop is acknowledged, or when supervisor's program is down and neither
a worker nor a browser that a killed worker left is found (`Looks`; the `pgrep`s of
`docker_adapter.py:362-365`). `ProfileClosedFirst` is about that look too.

### WebSocket proxies

| Variable | Code (`routes/session.py`, `routes/browser.py`) |
|---|---|
| `route`, `handler`, `failed` | which of the three handlers, how far it is, whether it ends with an exception |
| `link` | per end: the connection, and how it ended |
| `task`, `taken`, `hand` | per way: the task, how much it received, what it is sending |
| `sent`, `fwd`, `read` | per way: what the source sent, the task sent, the sink read |

The xpra handler connects upstream before it accepts the client; the others
accept first. `asyncio.wait(FIRST_COMPLETED)` returns with one task or both
(`WaitReturns`); the handler cancels the other, reads the results and closes. A
message that an end sent is received even after that end has closed, and a send
waits while the sink has `Window` messages unread.

### Session proxy of the plugin

| Variable | Code (`packages/dsh-plugin/src/session.ts`) |
|---|---|
| `table`, `tickets`, `crashes` | the server's sessions and tickets of this proxy; restarts |
| `page` | xpra or VNC, which differ in what the entry page does with a ticket |
| `cached` | `SessionProxy.session` |
| `kind`, `phase`, `key`, `refresh`, `reply`, `response` | per request: page, asset or upgrade; the await it is at; the cookie it uses; whether it may still replace it; what it was answered |
| `rejected` | history: the cookies that were rejected for a request |

Expiry is a step that may come at any time. The server tells an expired session
(401, once, because it drops it) from one it does not know (403), as
`_validate_session` does; any other request prunes (`OthersPrune`).

### Session page and clipboard

| Variable | Code (`app/static/vnc_session.html`, `services/clipboard.py`) |
|---|---|
| `vnc`, `busy`, `dialog`, `box` | the connection, `transferBusy`, `fallbackMode` while the dialog is open, its text |
| `step`, `via`, `text` | per transfer: its await, button or dialog, its text |
| `local`, `remote`, `late` | both clipboards; writes the server gave up on |
| `wanted`, `calm`, `keys` | history: what is still to be pasted; nobody else wrote since; the last Ctrl+V |

Every `await` of the three handlers ends a step, and everything a person can do is
possible between two steps. Two transfer slots are there so that a second one could
begin; `busy` must prevent it.

### What is abstracted

Container ids are recycled once neither the name nor the record holds them,
because the code compares an id only with the one the record keeps. Sandbox ids
are drawn again only when nothing refers to them (`Unused`, `NotHeld`), for the
same reason. Image names, proxies, sizes, metadata texts, time stamps and the
fields of responses are left out. Refusals that change nothing (404, 422, the
409s of availability checks) are steps not taken. A reader may interleave
between any two records of a list, where the code awaits only at records that
have a container.

Of Cloak, downloads, signature checks, launch arguments and the wording of diagnoses
are left out; of Camoufox, what commands do to pages. Messages are numbers in the
relay; pings, `max_queue` and frame types are left out. HTTP bodies and headers
other than the session cookie are left out of the proxies. Focus and wording of the
page are left out.

## Runs

| Run | Question | Result |
|---|---|---|
| `cloak` | one Cloak sandbox, two inline waiters, one reader, every fault but a failing container list | `TypeOK`, `StatusMatchesContainer`, `LiveIsRecorded`, `RegistryMatchesDisk`, `KeepsCustody`, `PausedUntilResumed` hold; 44 thousand states |
| `mixed` | a Camoufox and an xpra Chromium sandbox that want the same alias, with crashes | `AliasUnique`, `NoOrphanContainers`, `RegistryMatchesDisk` hold; 395 thousand states |
| `settle` | an xpra Cloak sandbox under `LiveSpec`, with removals and `docker run` all-or-nothing and a daemon that answers | `StartingSettles`, `StartingWatched`, `ResumeFindsNameFree` hold; 41 thousand states |
| `deleted` | can a deleted sandbox come back? | it can: `DeletedStaysDeleted` is violated |
| `paused` | does a paused sandbox stay resumable? | no: `PausedStaysResumable` is violated |
| `unlisted` | is a profile safe when listing containers fails at startup? | no: `ProfileKeptUnderBrowser` is violated |
| `clients` | what clients reach sandboxes through: a ticket of every kind, mode and lifetime over two sandboxes and two restarts; two overlapping calls of any tool on either engine; one WebSocket through each proxy; two clipboard transfers | `TypesOK`, `OneTimeOnce`, `OneSessionPerTicket`, `AccessWithinGrant`, `UsedTicketsDrain`, `PersonUndisturbed`, `DoubtBlocks`, `ClosedLetsGo`, `KeepsPageControl`, `CallsAnswered`, `NothingLeftRunning`, `LastMessagesPassed`, `FailureTold`, `RelaysInOrder`, `GoneReleases`, `TextKept`, `PastesItsText` hold; 195 thousand states |
| `reused` | is a one-time ticket never accepted again? | it is, after a restart: `NeverReused` is violated |
| `failed_handoff` | does a failed handoff block automation? | not always: `FailedHandoffBlocks` is violated |
| `runtime` | what runs beside the server: two installers and a profile, two controllers of one browser that overlap at will, a Camoufox worker with two callers, two requests through the plugin's session proxy | `TypesOK`, `CurrentIsReleased`, `FailureLeavesCurrent`, `IdentityKept`, `PreparedStaysUsable`, `StopConfirmed`, `DiagnosisCurrent`, `DenialToldAlone`, `ProfileClosedFirst`, `ExpiredTwice` hold; 4 million states |
| `denial_lost` | is a license denial told until a start removes it? | not if two starts overlap: `DenialTold` is violated |
| `rejected` | does the plugin replace a rejected session, however it was rejected? | no: `RejectedTwice` is violated |

`clients` and `runtime` each hold four components that share no state and have no
property in common. Interleaving them would multiply their states and show nothing
more, so the variable `part` says which of them moves in a behaviour; the theorems
`ClientsAreSafe` and `ContainerIsSafe` show that each is there what it is alone.

### What the properties say

- `StatusMatchesContainer`: STOPPED means no container id, RUNNING means one.
  The readiness loop checks the display of the container the record names *now*
  before it writes RUNNING; without that check (the mutant) a waiter that wakes
  up after a pause declares a sandbox without container RUNNING.
- `LiveIsRecorded`: for Cloak and Camoufox, whatever runs under the sandbox's
  name is what the record names, as long as the record can be reached. It is what
  makes pause, delete and resume able to stop the browser, and the reason why a
  failed stop or removal must raise 409 before the id is forgotten.
- `KeepsCustody`: the server implements `SandboxCustody`. A running browser is never
  lost from sight while its sandbox can be reached; data are deleted only when nothing
  runs, not even in a crash in the middle of a delete; a sandbox that no record on disk
  and no request can reach stays gone; and a container that a dying create left
  behind is never taken for a sandbox. `ProfileKeptUnderBrowser` is the part about
  data, and the one that `unlisted` violates.
- `PausedUntilResumed`: a STOPPED record keeps its status until somebody resumes or
  restarts the sandbox. Pause must cancel the background probe before it writes STOPPED,
  and what cannot be cancelled must find no container to declare ready. Requests that
  wait inline are left out; `paused` is about them.
- `RegistryMatchesDisk`: a restart finds every sandbox the server answers for,
  and, where directories can be removed, none that was deleted. The second half is empty
  in `cloak`, where `rmtree` may fail; `mixed` checks it, and `RegistryOnDisk` proves both.
- `AliasUnique`: among sandboxes that were not deleted. A deleted sandbox that
  comes back (`deleted`) may bring back an alias given away since.
- `NoOrphanContainers`: while Docker does what it is told, startup repairs what a
  crash between two steps left behind.
- `ResumeFindsNameFree`: a resumable Cloak or Camoufox sandbox is not locked out
  by its own container's name. It does not survive a `docker run` that fails late and
  leaves its container (`docker_adapter.py:218`), which `settle` excludes.
- `StartingWatched`: whenever a sandbox reads STARTING, a waiter that has not yet given
  up is there for it, or its container is gone and the health loop will say so. Each
  cancelled, overtaken or crashed waiter must leave another, or another status.
- `StartingSettles`: that waiter, or the health loop, decides.
- `OneTimeOnce`: each server process accepts a one-time ticket at most once, although it
  forgets the use as soon as the ticket expires. Pruning with `>` for `>=` would
  forget it in the last second of its validity. That no two processes do is
  `NeverReused`, which the documents promise and `reused` shows to fail.
- `OneSessionPerTicket`: no two sessions that exist came from one one-time ticket.
  After a restart the ticket may be used again, but the first session is gone.
- `AccessWithinGrant`: every session request and CDP connection let through goes
  back to a ticket of that sandbox and kind. A session may outlive its ticket by a
  second at most (the least lifetime), plus the stall of its handler.
- `UsedTicketsDrain`: the loop empties the memory although no ticket comes.
- `PersonUndisturbed`, `KeepsPageControl`: once the session link is answered, nothing
  the bridge began earlier reaches the page, and it is connected to nothing.
- `DoubtBlocks`: whatever the catches, the abort listener and later calls do to the
  state, a command whose outcome is unknown blocks automation until a resume.
- `ClosedLetsGo`: a connection that was being made when `close()` began is dropped.
- `CallsAnswered`: the promise chain never waits for itself.
- `CurrentIsReleased`, `FailureLeavesCurrent`: however installers overlap, what new
  profiles will use is complete, and an installer that reports a failure has not
  changed it: the write of `current.json` comes last, after the removal of the
  staging directory, which may fail.
- `IdentityKept`: no launch shows another build or seed than the profile's data was
  made with. A lost record or seed must lead to a refusal, never to a new identity.
- `PreparedStaysUsable`: the record is on disk only with the seed and the release it
  names, wherever the container died.
- `StopConfirmed`: the spawn a controller calls stopped has ended, although supervisor
  refuses `stopProcess` for one that is on its way down and other controllers
  stop and start meanwhile.
- `DiagnosisCurrent`: a reported failure is not of an earlier spawn. If starts overlap,
  this is said only of a process that became the browser: one start can spawn after
  the launch of the other has failed, without removing its error, and what is reported
  until the new launch has removed it is that of the failed one.
- `DenialTold`: until a start has found it down and removed its files, an answer that
  calls a denied browser down comes with an error, also when it has exited with 0, and no
  stop is called graceful over a denial. The documents say so without exception, and
  `denial_lost` finds one; `DenialToldAlone` is the same while starts do not overlap,
  whatever stops and diagnoses do.
- `ProfileClosedFirst`: Camoufox's container is removed, and another worker started,
  only when nothing has the profile open, whoever gave up on which stop before.
- `NothingLeftRunning`, `GoneReleases`: the handler leaves neither a task nor a
  connection, and does end once an end has gone or stalls.
- `LastMessagesPassed`: a close does not overtake the messages sent before it.
- `FailureTold`: when upstream broke, a client that is still there is closed with 1011,
  whichever task noticed, and in whatever order the results are read.
- `RelaysInOrder`: the proxy implements `MessageRelay`.
- `ExpiredTwice`: the browser of a person sees 401 only after two different cookies were
  rejected for its request, although other requests forget and replace the cached one.
- `TextKept`, `PastesItsText`: however the person clicks, a text that was to be pasted
  and was not stands in the open dialog; Ctrl+V meets the text it belongs to unless
  somebody else came between, or an abandoned write (`clipboard.py:57`), which no
  property covers. Both rest on `OneTransfer`, which
  is proved and not checked by a run.

### Bounds

One sandbox is enough for the properties about a record and its container: no
action reads another sandbox's record except through aliases, which `mixed`
covers with two. Two inline waiters are the least that overlap each other and a
background probe; a third adds no kind of overlap, because waiters interact only
through the record. One reader holds at most all records; two readers interact
only through the record as well. Two container ids suffice to tell the container
a record names from its successor and from a leftover; `mixed` bounds the calls
to one to stay small. Container ids and call slots are symmetric in the safety
runs; the liveness run uses no symmetry.

One ticket is enough in `clients`: tickets meet only where the use of one prunes
the memory of another, and the prune loop does the same at any time; the theorems
hold for any number. Lifetimes of one and two seconds tell a session that lives
its least second from one that lives longer; the clock of four seconds
(`MaxClock`) lets a ticket expire and be pruned, and its session expire, and tickets
are issued only while there is time left for that. Two restarts allow a use before,
between and after. Two tool calls are the one that runs and one
that waits; a third would wait as the second does. Two messages each
way with room for one unread (`MaxMsgs`, `Window`) let a task wait in a send while another
message is queued, and two texts tell a transfer's own from another. `failed_handoff`
needs one call, `reused` one restart.

In `runtime`, two builds and two seeds tell the profile's own from another, and two
installers are the least that overlap. Three spawns of the Cloak browser
(`MaxSpawn`) are one for a start that is given up on to find down, one that another start
makes meanwhile, and one that the first then makes; two controllers are the least that
overlap, and are symmetric. `denial_lost` needs two spawns. Two callers of the Camoufox
worker are one that gave up and one that the server waits for; three workers
(`MaxWorker`) allow a restart after a killed one. Three cookies are a rejected one, its
replacement, and that of a second request; one restart (`MaxCrashes`) makes the server
forget both. `rejected` needs no restart: two cookies, and the pruning by another request.

### Fairness

`LiveSpec` assumes that a waiter whose await can complete does complete (the
event loop runs every ready task, and every request inside the loop has a time
limit), that the deadline passes for a waiter that polls again and again (each
poll takes at least the second of `asyncio.sleep(1)`, and the deadline is
fixed), and that the health loop ticks. Nothing is assumed of clients, of the
operator, or of a process that crashed: `Starting` is about a running server.
`StartingSettles` is checked without failing removals and with a daemon that
answers: a pause whose removal raises 409 has already cancelled the probe, and
the sandbox then stays STARTING for as long as its container runs. `StartingWatched`
is its safety half, and is proved.

`clients` checks its liveness properties under `Fairness` of `ClientsMC`, which joins what
the code justifies for each component, on the steps where it is the one that moves.
`LiveSpec` of `Sessions` assumes that time passes and that the prune loop takes
its turns, and nothing of clients. `BridgeLiveSpec` assumes that every
await of a running call ends (requests, connecting and tool calls have time limits;
closing the handles has none, and is assumed to end), and that a call or a close
that is again and again next in the chain gets its turn, which the order of
the promise chain gives it. Strong fairness stands for that order, because between
two calls of the chain another may go first in the model.

Of a relay it is assumed that the event loop runs a task and a handler that can go
on (connecting and closing have time limits in the `websockets` library), and that an
end that takes no more messages is given up in the end, since it answers no ping.
Nothing is assumed of ends that read, of browsers or of persons. No liveness is claimed
of the Camoufox worker: a page that never yields blocks its `evaluate` for good.

## Findings

Each is a run whose property states what the repository says and whose
counterexample is a legal behaviour of the code; `PROJECT.json` quotes the lines.

1. `deleted` (`lifecycle.py:365`, `routes/sandboxes.py:41`): a waiter past
   `registry.get`, or a GET that looked the record up before, calls
   `registry.put` after the delete. The record and its `meta.json` are back and
   survive a restart. Needs no fault. `DeletionsAreFinal` bounds it: once the requests
   that had looked the record up have ended and the file is gone, it stays gone.
2. `paused` (`lifecycle.py:354`): `_cancel_readiness_task` reaches only
   background probes. The waiter of the create or resume request times out later
   and turns STOPPED into DEGRADED, which resume refuses. Needs no fault.
3. `unlisted` (`docker_adapter.py:296`): a failing `docker ps` at startup reads
   as "no containers".
4. `failed_handoff` (`packages/dsh-plugin/src/browser.ts:187`): a handoff whose
   `current()` fails leaves the state at `automation`, where the plugin's README says
   that a failed handoff keeps automation blocked.
5. `reused` (`app/auth/tickets.py:20`): the memory of used one-time tickets dies with the
   process, and their signatures do not. A server that was started again accepts one once
   more while it is valid, where `docs/api.md:271` and `:315` say "Cannot be reused" and
   `docs/guides/human-handoff.md:27` "That URL cannot be used again". `OneSession` bounds
   it: the session of the earlier use is gone by then.
6. `denial_lost` (`cloak_control.py:143`): a start that the server gave up on has found the
   browser down; a second start spawns it, its license is denied, and then the first
   removes the files that say so. The denied browser, when it has exited with 0, is
   reported without an error, and stopped "gracefully", where
   `docs/guides/cloak-experimental.md:160-162` says that graceful means "without a denial
   or launcher error" and that an "already-stopped process does not erase the error".
   `DenialsAreTold` bounds it: it takes two starts that overlap.
7. `rejected` (`packages/dsh-plugin/src/session.ts:144`): the proxy replaces a cookie
   that was rejected with 401. The server answers that at most once per session: once
   the session was pruned by any other request, or the server restarted, it answers 403,
   which reaches the person's browser although line 127 says that "a rejected cookie is
   replaced once before giving up".

Weaknesses that are known and not counted, since nothing in the repository says
otherwise:

- Pause and delete ignore a failing removal of a Chromium container, so that it may run
  on under a STOPPED record; and a Chromium sandbox that failed may be locked out of
  resume by its own container's name (restart without a daemon, then resume).
- A waiter that times out late turns a sandbox that another found RUNNING to DEGRADED.
- A `docker run` that fails late leaves a container under the name, and the next resume
  fails on it (`docker_adapter.py:218`).
- A 502 of the xpra entry page uses up the one-time ticket.
- A container that dies between the seed file and the record leaves a profile that
  `prepare` refuses for ever with PROFILE_NOT_EMPTY.
- When two starts of Cloak overlap, the error of a launch may be reported of the next one
  until that has become the browser.
- A Camoufox caller that gave up ends the worker when it is answered at last
  (`camoufox_worker.py:149`); a `status` in a page that never yields blocks it (`:106`).
- An abandoned clipboard write may land between a later write and its Ctrl+V
  (`clipboard.py:57`); two uploads of one name overlap on one file (`files.py:60`).
- When a send to one end fails, the messages queued the other way are dropped with it.
- The session proxy has no time limit for a request, and the table of sessions no bound.
- `disconnect()` of the bridge forgets its handles before it closes them, and a file
  write that timed out may land during a handoff.

## Proofs

Proved with TLAPS for all values of the constants, from the assumptions that
the modules state of them; further assumptions are in the statements. Of the lifecycle:
any number of sandboxes, container ids, aliases, requests and readers, and any
assignment of engines and kinds.

| Theorem | States | Argument |
|---|---|---|
| `TypeCorrect` | `Spec => []TypeOK` | one lemma per kind of step; `TypeOK` also says that an inline waiter names a sandbox exactly while suspended, that nothing waits or is held while the process is down, and that a running container has an id |
| `RecordsConsistent` | `Spec => []StatusMatchesContainer` | inductive relative to `TypeOK`: a status is written together with the id that justifies it, and `ContainerExists` of an id implies there is one |
| `RegistryOnDisk` | `Spec => []RegistryMatchesDisk` | inductive relative to `TypeOK`: `put` changes both sides, `destroy` both or, with a failing rmtree, only the registry |
| `RuntimeRecorded` | `"list" \notin Faults` gives `Spec => []LiveIsRecorded` | see below |
| `ProfileSafe` | `"list" \notin Faults` gives `Spec => ProfileKeptUnderBrowser` | from `RuntimeRecorded`: only a destroy deletes a profile, and its removal was not refused |
| `AliasesUnique` | `Spec => []AliasUnique` | `AliasInv`: the same on disk; a record that can be reached is registered or was deleted, so that whatever comes back past the alias check counts as deleted |
| `ResumesFindTheNameFree` | without the faults `"rm"`, `"run"`, `"list"`: `Spec => []ResumeFindsNameFree` | `NameRecorded`: the name is free or bears what the record names, for every record that can be reached |
| `OrphansAreRemoved` | without the faults `"rm"`, `"list"`, and without `"daemon"` if there are Chromium sandboxes: `Spec => []NoOrphanContainers` | `OperationOutcome`: an operation leaves its container alone, removes it, is refused, or runs a new one that it records |
| `ServerKeepsCustody` | `"list" \notin Faults` gives `Spec => KeepsCustody`, that is `Custody!Spec` | step simulation relative to `CustodyInv`; see below |
| `DeletionsAreFinal` | `Spec => DeletedForGood`, for every engine and under every fault: what neither `meta.json` nor a request can bring back comes back only by a create | `NextReaches`, one case per kind of step; no run checks it, but TLC finds it true with the constants of `cloak` and every fault |
| `PausesLast` | `Spec => PausedUntilResumed`, under every fault | `PausedInv`: a record that reads STOPPED has no background probe; see below |
| `StartsAreWatched` | without the faults `"probe"`, `"rm"`, `"daemon"`: `Spec => []StartingWatched` | `WatchInv`: the same for every record that can still be put back; see below |
| `TypeCorrect`, `AccessGranted` of `SessionsProofs` | `Spec => []TypeOK`, `Spec => []AccessWithinGrant` | every session was opened by a ticket of its sandbox, and lives at most a second, rounded, beyond it |
| `UsedOnce`, `OneSession` | `MaxStall < 2` gives `Spec => []OneTimeOnce`, `Spec => []OneSessionPerTicket` | see below |
| `BridgeTypes`, `PersonLeftAlone`, `DoubtIsBlocked`, `CloseIsFinal` | `BridgeSpec => []BridgeTypeOK`, `[]PersonUndisturbed`, `[]DoubtBlocks`, `[]ClosedLetsGo` | see below |
| `BridgeImplementsPageControl` | `BridgeSpec => KeepsPageControl`, that is `Page!Spec` | one step simulation, relative to the bridge's invariant |
| `CurrentReleased`, `FailuresLeaveCurrent` | `[]CurrentIsReleased`, `[]FailureLeavesCurrent` | `InstallInv`: an installer past its rename has a release, and one under way has not written `current.json` |
| `IdentityIsKept`, `PreparedUsable` | `[]IdentityKept`, `[]PreparedStaysUsable` | `IdentityInv`, `UsableInv`; see below |
| `StopIsConfirmed` | `ControlSpec => []StopConfirmed` | `SeenInv`: what a controller has read is of the past, and supervisor only goes forward |
| `DiagnosesCurrent`, `DenialsAreTold` | `ControlSpec => []DiagnosisCurrent`, `[]DenialToldAlone` | `LaunchedInv`, and `overlapped` or `FileInv` and `AnswerInv`; see below |
| `ProfileIsClosedFirst` | `WorkerSpec => ProfileClosedFirst` | `WorkerInv`; see below |
| `NothingIsLeft`, `LastMessagesArePassed`, `FailureIsTold` | `RelaySpec => []NothingLeftRunning`, `[]LastMessagesPassed`, `[]FailureTold` | `PumpInv` counts what each task has in hand; `HandlerInv` says why a task has ended and what is open where |
| `RelayImplementsPromise` | `RelaySpec => RelaysInOrder` | step simulation relative to `RelayInv` |
| `ExpiredOnlyTwice` | `ProxySpec => []ExpiredTwice` | `RequestInv`: a request that may replace no more has one rejected cookie, which the server had when it drew the next |
| `OneTransferAtATime`, `TextIsKept`, `PasteMeetsItsText` | `ClipboardSpec => []OneTransfer`, `[]TextKept`, `[]PastesItsText` | `TransferInv`: what a running transfer sends is what is to be pasted, and stands in the dialog it came from |
| `ContainerTypeCorrect`, `ClientsTypeCorrect` | `MCSpec => []TypesOK` of `ContainerMC` and of `ClientsMC` | each component moves alone or not at all |
| `ContainerIsSafe`, `ClientsAreSafe` | the specifications that `runtime` and `clients` check have every safety property proved of their parts; `ClientsAreSafe` for `MaxStall < 2` | `ContainerParts`, `ClientParts`: the composition implies the specification of each part |

`LiveIsRecorded` restricted to the registry is not inductive: a waiter or reader
that still holds a deleted record may put it back, and nothing would be known of
that record's container. It is therefore stated for every *known* record, one
that the registry or some unfinished request can reach. Two facts carry the
proof. A removal that `_remove_runtime` does not refuse leaves nothing running,
provided the record named what ran (`RemovalStops`); so a deleted sandbox has
nothing running, and a new container starts on a name that is dead. And no step
makes a record known that was not known or created (`KnownByWaiters`). A process
that stops knows nothing, and startup adopts every running container it has a
record for, which needs a container list that does not fail: hence the
assumption, and hence the `unlisted` run.

Without `"list"`, `Startup` waits for a daemon that answers; a server started
while Docker is down is the `list` fault.

The excluded faults are those that break the property in the code as it is; TLC finds
each property violated when one of the faults its theorem excludes is let in.
A removal that times out after it failed keeps its container, a `docker run` that
fails late leaves one under the name, and an unlisted one is not adopted. For Chromium,
whose failing removals are ignored, `NoOrphanContainers` needs the daemon as well.

Custody: the mapping reads the phase of a sandbox from its container and from who can
reach its record: while the process is down the disk alone, else also the registry and
the unfinished requests. To be running is defined with the id in the record, and that
it comes to the same as being reachable with a container that runs (`PhaseByReach`) is
`LiveIsRecorded`. One more invariant is needed: nothing runs for a sandbox that has left
the registry and that files or a request could bring back (`GoneIsStopped`); without it
a late waiter would turn an absent sandbox into a running one, and a crash a running one
into a stray. `Orderly` states what a step may do to one sandbox in the terms of the
server, is proved of every action, and is then shown to be one of the promised steps
(`OrderlyIsPromised`). The abstract `Delete` lets the record stay, because of a request
that holds it; that such a record leads to no container before a resume is `GoneIsStopped`
again.

Pauses: of the steps of waiters and readers on a record that reads STOPPED, the health
check needs a container id, which by `RecordsConsistent` there is not, and a background
probe there is none, because every operation that writes STOPPED cancels it and every
one that starts it writes STARTING (`OperationPauses`). What is left are the requests
that wait inline, which the property leaves out and `paused` shows to break it.

Watched starts: the invariant is about every record that can be put back, not only those
of the registry, since a request that holds a deleted record may put it back STARTING
with nobody waiting; the health loop then finds no container under its id. `WatchInv`
therefore also says that the container of a deleted sandbox is gone. A waiter that
leaves its sandbox STARTING polls on (`WaiterWatches`), and startup
begins a probe for every sandbox it finds STARTING (`StartupWatches`).

The lemmas `OperationDecides`, `WaiterDecides`, `ReaderDecides` and `NextLists`
say once what each kind of step may do to status, id, waiters and registry; the proofs
above cite them instead of going through the actions again.

Sessions, for any number of tickets, sandboxes, sessions and restarts: the
invariant behind `UsedOnce` says that a one-time ticket that this process accepted
(`spent`, which a restart sets back) was accepted once, and is still remembered or has
expired by a whole second. Its use
is the crux: `Verified` says that at the first reading of the clock the ticket had
not expired, and if less than a second (`MaxStall < 2`) passes until `consume` reads
it again, pruning still keeps the record of an earlier use, which is then found.
With a stall of a second, both uses succeed; TLC finds that behaviour with
`MaxStall = 2`. `OneSession` adds that the ticket of an existing session is
settled in the same sense, so that no second session is opened with it.

The bridge, for any number of calls: the conjuncts of `BridgeInv` are `Serial`
(one call runs), `Phases` (what a suspended call checked still holds, because by `Serial`
only it, or the listener it set, changes the state), `HandedOff` and `Closed`.
`PersonUndisturbed` alone is not inductive: that no call between its check and its
page command survives into a handoff is `Serial`.

Cloak's profile: data exist only with the record they were made with or, if somebody
lost it, without any, and never in an empty profile; `prepare` invents an identity
only for an empty profile without a record. What a launch has read is what the record
says when it executes the browser, because only `prepare` writes the record, and not
while a launch is under way.

Cloak's diagnoses: as long as starts have not overlapped, the files are those of the
current spawn or gone, since a start removes them before it spawns and nothing that could
write them runs in between (`FileInv`), and an answer is about the spawn it was read for
(`AnswerInv`). Once starts have overlapped, all that is left is `LaunchedInv`: a launch
that becomes the browser has removed what an earlier one left, and whatever is written
later is of this spawn or of a later one.

Camoufox: the conjuncts of `WorkerInv` are `OneBrowser` (only the last worker's browser
can be open), `Served` (the command executed is of a caller of this worker), `StopDone`
(an acknowledged stop closed the browser), `Confirmed` (what the server waits for
is a stop, whose acknowledgement can be relied on) and `Acting`. An answer to an earlier,
abandoned stop cannot be taken for the one awaited, because each goes to the connection
of its own caller.

Only model-checked are the liveness properties `StartingSettles`, `UsedTicketsDrain`,
`CallsAnswered` and `GoneReleases`, which are out of TLAPS's reach.

## Not modelled

Authentication headers, configuration parsing, image labels, GPU and proxy
options, screenshot and viewport parsing, and response schemas: no state, or no
property that could fail by order. The stateless commands of
`app/services/browser.py`, each of which is one exchange with the browser, and
uploads and downloads of files (`app/services/files.py`), which keep nothing in the
server; the repository promises nothing of two that overlap. Element references of
Camoufox pages. Unreadable `meta.json` files, failures of the host's file system other
than `rmtree`, and exceptions that would end the health loop. A server that dies during
`supervisorctl restart` of Camoufox, which then outlives it (`docker_adapter.py:368`):
in the model the server gives up before supervisor is called, or with its container.
The SDKs, command line tools and the admin console are stateless clients.

`SandboxCustody` says nothing of the status a client reads, of Chromium sandboxes, and of
records that a late request puts back: what the documents promise there is broken by
the code (`deleted`, `paused`), or nothing is promised.

## Plan

1. Done: `DockerHost`, `Lifecycle`, `ApiServer`, their runs and theorems.
2. Done: `Tickets`, `Sessions`, their runs and theorems.
3. Done: `HandoffBridge` over `PageControl`, their runs and theorems.
4. Done: `CloakInstall`, `CloakProfile`, `CloakControl`, `CamoufoxWorker`, their run
   and theorems.
5. Done: `WebSocketRelay` over `MessageRelay`, `SessionProxy`, `ClipboardPage`, their
   runs and theorems.
6. Done: theorems for `AliasUnique`, `NoOrphanContainers` and `ResumeFindsNameFree`.
7. Done: `SandboxCustody` and its implementation by the server; pauses that last; who
   watches a start; the composed runs from their parts.

Open: the restart of Camoufox that outlives its server; uploads; element references
of Camoufox pages. Should the code come to keep deleted and paused sandboxes as the
documents say, `DeletedStaysDeleted` and `PausedStaysResumable` become invariants to
prove, and `SandboxCustody` can promise the status as well.
