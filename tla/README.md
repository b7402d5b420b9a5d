# Verification of nexal in TLA+

nexal is an agent platform. A Bun/TypeScript LLM server (`src/`) runs chats and workers; a Rust
gateway (`crates/nexal-gateway`) owns the containers they work in; a Rust agent
(`crates/nexal-agent`) runs in every container and executes commands, serves files and mounts
the skills directory; `crates/utils` and `packages/` hold the RPC transport (in Rust and in
TypeScript), child processes and the tape, the append-only record of a conversation.

This directory models the parts of the system that keep state across an await, a lock, a
connection or a restart, checks them with TLC on small instances and proves the central
invariants, and one refinement, with TLAPS. Paths below are relative to the repository.

## How the parts interact

    browser --- LLM server --- gateway --- container backend (podman, fly, kubernetes, sprites)
       |            |              |
    tape page    workers,      sessions, agent registry and warm pool, proxies
                 tapes             |
                                agent connection --- nexal-agent: processes, files, skills, proxy sockets

A frontend session authenticates with a signed hello (GatewaySession). Its requests spawn,
attach, detach and kill agents (AgentRegistry), which bring containers up and down through the
backend trait (ContainerBackend and the four backends) and talk to the agent in the container
over one multiplexed connection (AgentConn). Proxies lead from a socket in the container through
the gateway to an upstream (ProxyPath for the registrations, ByteRelay for the bytes). Commands
run in the container (ExecProcess) behind the agent's serial dispatch loop, which also carries
the requests the skills mount sends back to the gateway (AgentServer, SkillsTree). The RPC link
itself is Connection. Workers (WorkerLifecycle) write what they say to tapes (TapeStore,
TapeView), which the web client shows (TapePage).

## Modules

A variable that a module calls *history* exists only so that a property can name a race; the
code's steps never read it. An action is the code between two awaits, or under one lock, or one
command of a container runtime.

| module | models | source |
|---|---|---|
| `GatewaySession` | `verify_hello`, the nonce cache shared by all sessions, the gate before every method, notification forwarding. Reading the clock and taking the lock are two actions, `Lag` seconds apart at most. | `nexal-gateway/src/server/session.rs` |
| `AgentConn` | `invoke()`, `close()`, `run_reader`, `dispatch_frame`, `drain_pending` over the channel's reader and writer tasks; requests of the agent with colliding ids; abort takes effect at the next await. | `nexal-gateway/src/agent_conn.rs`, `utils/transport/src/message_channel.rs` |
| `AgentRegistry` | spawn, attach, detach, kill, `detach_all`; the warm pool's take, `create_one`, replenish and drain; end and restart of the process. | `nexal-gateway/src/registry.rs`, `pool.rs` |
| `ProxyPath` | `ProxyRegistry`, `TcpProxyRegistry`, the session requests that use them, kill and detach, and the agent's `ProxyManager` with its socket files. | `nexal-gateway/src/proxy/`, `nexal-agent/src/proxy.rs` |
| `ByteRelay` | one connection through each of the five relays, the first request head rewritten or replayed. | `proxy/tcp.rs`, `proxy/server.rs`, `server.rs`, `backend/sprites.rs`, `nexal-agent/src/proxy.rs` |
| `ContainerBackend` | what the `ContainerBackend` trait promises, as an abstract specification; `lapses` names promises a backend does not keep. | `nexal-gateway/src/backend.rs` |
| `BackendCalls` | the setting of the backends: containers, calls in progress, how the registry strings trait calls together. | `registry.rs`, `backend/*.rs` |
| `PodmanBackend`, `FlyBackend`, `KubernetesBackend`, `SpritesBackend` | one action per command or API request. | `backend/podman.rs`, `fly.rs`, `kubernetes.rs`, `sprites.rs` |
| `Backends` | the composition of the above, the refinement mapping to `ContainerBackend`. | |
| `ExecProcess` | `LocalProcess` (start, stream tasks, exit watcher, retention, read, terminate, shutdown), pipes and terminals, and the frontend's polling `runCommand()`. | `nexal-agent/src/process/local.rs`, `utils/pty/src/`, `src/gateway/agent_client.ts` |
| `AgentServer` | the serial dispatch loop, the initialize sequence, the agent's own requests and their pending table, the FUSE thread of the skills mount. | `nexal-agent/src/server/`, `fs/skills.rs` |
| `SkillsTree` | the list of a skills directory and the inode tree built from it; `lookup` and `readdir`. | `nexal-gateway/src/skills.rs`, `nexal-agent/src/fs/skills.rs` |
| `AgentFiles` | copy, remove, createDirectory and writeFile on trees with links. | `nexal-agent/src/fs/local.rs` |
| `Connection` | requests, streams, notifications, heartbeat, reconnect and close of the RPC link, in both implementations (`opts.impl`). | `utils/transport/src/{connection,transport}.rs`, `packages/transport/src/{connection,transport}.ts` |
| `WorkerLifecycle` | rows, queue, start, run end, route, cancel, suspend, crash and resume of workers, and the cache of their containers. | `src/workers/`, `src/gateway/client.ts`, `src/index.ts` |
| `TapeView` | conversion of messages, normalisation, edits and contexts, as pure functions. | `packages/tape/src/` |
| `TapeStore` | the Postgres store as transactions, the Tape operations, worker flush, session tapes, tape deletion. | `src/tape/nexal-tape.ts`, `packages/tape/src/tape.ts`, `src/workers/agent.ts` |
| `TapePage` | the tape page with its IndexedDB cache, reading tapes that are being written. | `web/src/lib/components/taps-page.svelte`, `tape-cache.ts` |
| `MC*` | instances for TLC. `MCProxyPath`, `MCExecProcess` and `MCTape` choose one part or plan per behaviour, so that each gets its own depth. | |
| `*Proofs`, `*Steps`, `BackendsTunnels` | theorems and the lemmas they rest on, see below. | |

`PROJECT.json` maps every definition to the lines it stands for.

## Runs

| run | shows | bounds |
|---|---|---|
| `gateway_session` | a signed hello is accepted at most once; nothing is served on a connection without one | two sessions, four hellos, six seconds, window of two |
| `agent_conn` | an answer goes to the call it belongs to; a waiting call can still be resolved; under fairness every registered call returns when the connection ends | two calls, one request of the agent, channel capacity one |
| `agent_conn_close` | *violation*: a call between the closed check and its registration is missed by the drain of `close()` and waits for ever | the same |
| `agent_registry` | warm containers are handed out once; a registered agent has its container; no path loses a container except the named ones | two sessions, one name, pool of one, two processes |
| `proxy_path` | the token maps agree; no entry or listener without an owner; a socket leads to what is registered; relayed bytes arrive in order, and completely in the direction that ended the relay | two sessions, two connections to one container, two registrations; four items a side |
| `backends` | every backend implements the trait up to its lapses; tunnels lead to sprites; no container is left that nobody knows of | two callers, four requests, one fault |
| `exec_process` | output is numbered, retained, polled and returned exactly; the exit is seen; the dispatch loop answers in order; skills reads get the right file and an answer; the mounted tree is the directory; file operations touch only what they should | three chunks, buffer of two, two processes under one id; two connections; all skills of up to three files; all trees of up to four nodes with links |
| `connection` | nobody registered in time is left waiting; requests are served once and in order; a heartbeat never condemns a newer socket; reconnecting does not silently stop; a loss is settled | two requests, two incarnations of a stream, two sockets |
| `worker_lifecycle` | live rows are owned, terminal rows release their container, one runner per worker, terminal rows stay terminal, outside the named races | one worker of either lifetime, two process lives, every fault |
| `worker_queue` | nobody waits while a slot is free; every spawned worker is served | two workers, one slot, a crash |
| `worker_suspend` | *violation*: suspending a worker in the middle of a run cancels its row | one worker |
| `tape` | ids are dense, flushes exact, edits applied, the page shows a gapless part of its tape | ten plans of up to three operations by up to three clients |

Why the bounds are enough. The races in this code are between two parties: two sessions, a
call and a close, an ensure and a destroy, a sync and a navigation, an old and a new connection.
Every run has two of each kind of party and at least one object they share, retries and
restarts happen at least once (two processes, two sockets, two generations under one id, two
connections), and every buffer can overflow (a retained buffer of two chunks against three
written, a channel of capacity one, a pool of one). Names such as `MaxCalls`, `MaxFaults`,
`MaxGen`, `MaxToken` and `MaxBoots` are the bounds; each appears in a guard. In `tape` the state
constraint `Fresh` stops a behaviour once the page has used an answer to another question (a
history flag): nothing is claimed beyond that point. Symmetry is used only where sessions,
callers or clients are interchangeable and no liveness property is checked.

Deadlock is checked in `gateway_session`. The other instances run out of requests by
construction, and a finished command or a closed connection is the end of its life.

### Fairness

- `agent_conn`: weak fairness of every task that the tokio runtime polls (callers, writer, reader
  end, loop, handlers, a started `close()`, a requested abort). The agent need not answer, the
  link need not drop and nobody has to call `close()`.
- `exec_process`: weak fairness of the exit watcher and of the client's poll, which
  `runCommand()` repeats in a loop. Nothing is assumed of the child, the readers or the timers.
- `connection`: weak fairness of calls in progress, of the driver (or the socket callbacks and
  timers in TypeScript) and of the pump. Dials may fail every time.
- `worker_queue`: weak fairness of promises that settle, of runs that end, and of the supervisor
  that starts the process again.

### Findings

- `worker_suspend`: `agent.ts:282` says of suspend that the row is left in whatever
  non-terminal state it was in; `abort()` makes `handleAgentEnd` take the cancelled path.
- `agent_conn_close`: the module comment of `agent_conn.rs` (line 14) says of `close()` that
  "pending invocations resolve with `Closed`"; one that registers after the drain does not.

## Proofs

TLAPS proves the following for every value of the constants that satisfies the named
assumptions; TLC checks the same properties, and checked the inductive invariants, on the
instances above.

| theorem | statement | module |
|---|---|---|
| `HelloSingleUse`, `GateHolds` | `SingleUse`, `ServedOnlyAfterHello` | `GatewaySessionProofs` |
| `AnswersMatch`, `WaitersAreResolvable` | `AnswerMatches`, `WaitingHasResolver` | `AgentConnProofs` |
| `MapsAgree`, `EntriesOwned` | `IndexExact`, `ProxiesOwned` | `ProxyPathProofs`, on the lemmas of `ProxyPathSteps` |
| `NoContainerLost`, `AgentsKeepContainers`, `WarmStaysExclusive` | `NoOtherLeak`, `AgentsHaveContainers`, `WarmExclusive` | `AgentRegistryProofs` |
| `BackendsKeepTrait` | `KeepsTrait`: the four backends refine `ContainerBackend` | `BackendsProofs`, on the lemmas of `BackendsSteps` |
| `NoContainerStray` | `NoneStray` | `BackendsProofs` |
| `TunnelsReachSprites` | `TunnelsLead` | `BackendsTunnels` |

Assumptions: `GatewaySession` needs `Retention >= 2 * MaxSkew + Lag`: the code keeps nonces for
twice the skew, so the theorem holds when the lock is taken in the second in which the clock
was read (`Lag = 0`). `AgentConn` needs that calls are not the markers "none" and "closed",
`BackendCalls` that no caller is "none". The others only bound natural numbers.

The arguments:

- **Sessions.** `SingleUse` alone is not inductive: a purge could forget a nonce whose hello is
  still valid. `SessionInv` adds that an accepted hello is either in the cache with a first-seen
  time inside its window, or older than any time a check in progress can hold.
- **Agent connection.** `AnswerMatches` speaks of results, but a wrong answer is prepared
  earlier, when an id is reused or a frame carries the wrong one. `ConnInv` says that ids are
  given out once (`IdsFresh`) and that every pending entry, every queued request and every
  response carries the id of the call it is about (`Carries`).
- **Proxies.** `ProxyInv` adds to the two properties what the requests in progress rely on
  between their awaits: they have an agent and a name where the next step needs them
  (`OpsNamed`), a call in an agent's queue is answered to a session that still waits on that
  connection (`CallersWait`), and a token is used once (`TokensOnce`). Without `TokensOnce`,
  removing by token could remove another registration's entry.
- **Containers.** `LeakInv` adds that `create_one()` works on one container at a time and that a
  session without a request holds none, so that a step that releases one owner cannot silently
  be the last one. `ShareInv` carries the other two: of the entries of the map, the places in
  the pool and the requests past `ensure()`, two hold the same container only if it is shared
  (`OneHolder`), because whoever comes second goes through `ensure()` by name; and the names
  the first process' counter has not reached, or is filling, are in nobody's hands
  (`FirstProcess`), so that a fill makes a clean container.
- **Backends.** Every step of a backend moves one caller or changes one container. `TraitInv`
  says that a call in progress has met its container as it is now, and has met what its next
  answer or deletion rests on (`Grounded`): absence before a destroy reports success, the
  pod not running before ensure deletes it, the agent running before a tunnel is handed out,
  and, on Fly, that the machine it looked up is still there or was seen gone. Two lemmas
  (`GotoStep`, `BecomesStep`) turn that into a step of the trait; the rest shows that each
  command of each backend provides what they need. `NamesInv` adds the names: a spawn ensures
  "x", attach and kill work on a name that was handed out, and ensure prefixes what it is given.
  Without it a container made for a request could belong to no one once the request is over.
  `BackendInv` is both.
- **Tunnels.** `TunnelsLead` says nothing of a tunnel about to be opened. `TunnelInv` adds that
  an ensure past its lookup, and an attach past its `exists`, works on a sprite that is there
  or was destroyed under it, and that a destroy about to delete has its tunnel down or was
  raced by an opening (`Relies`).

Only model-checked: liveness (`RegisteredResolves`, `ExitSeen`, `LossSettles`,
`SpawnedIsServed`), the properties of the runs that no theorem above names, and everything about
recursive definitions (`AgentFiles` is written with RECURSIVE operators).

## Not modelled

Listed with reasons as components in `PROJECT.json`. In short: type declarations, typed RPC
wrappers, configuration, certificates and path helpers have no state; chat channels, the chat
pool and the web client other than the tape page have no module; tools, skills and scripts map
one call to one operation that is modelled elsewhere. Within modelled parts: payload
formats, URL and header handling, command lines and manifests beyond what a restart policy
implies, agent notifications, the stdio framing of the message channel, process/write, terminal
resize, and the edges between parent and child workers.

## What the models show besides

Behaviour that the models contain and the properties name as exceptions, for a reader of the
code:

- Gateway. The nonce cache is in memory, so a restart forgets it (`session.rs:71`), and it keeps
  nonces exactly twice the skew, without slack. `invoke()` has no timeout (`agent_conn.rs:150`),
  and `run_reader` awaits the notification channel (`agent_conn.rs:278`), so a full channel
  delays responses. A session whose notification task lags ends that task (`session.rs:119`).
- Warm pool. Its counter restarts at 0 (`pool.rs:34`), so a new process can name a container that
  an old one left. `ensure()` restarts a container that is in use, and attach can re-create one
  that was just killed.
- Proxies. A kill that races `registerProxy` leaves the entry until the next kill; the shutdown
  of an older connection's ProxyManager unlinks the socket of a newer one; only the first request
  of a kept-alive connection gets the prefix; `select!` cuts the other direction of a relay;
  registered headers are appended, not replaced (`proxy/server.rs:124`).
- Backends. Kubernetes deletes a pod that became Running after it was read; podman's destroy
  drops errors, and its exists takes any non-zero status as "no"; sprites prefixes twice on
  attach and answers url without asking whether the sprite exists.
- Processes. Stream tasks find their process by id, so output of an old process can reach a new
  one under the same id; `runCommand()` stops at `exited`, not at `closed`.
- Skills. SKILL.md is listed twice; a request served by the serial loop that reads the loop's own
  mount waits for itself; requests pending at a disconnect keep the FUSE thread waiting, and
  with it the mount task of the next connection.
- Files. A copy writes through links that exist at the destination, and a file copied onto itself
  is emptied.
- Transport. A request registered after the sweep of a closing connection waits; the TypeScript
  reconnect stops after one failed dial; close() of a stale stream handle removes a newer stream.
- Workers. The cap counts runners in the map and can be exceeded at start (`registry.ts:316`);
  resumePending re-queues rows of its own process; a cancel during start is overwritten by
  "running".
- Tapes. Concurrent appends collide on the primary key and one fails; an append that overlaps a
  reset leaves a gap; overlapping flushes append twice; the first amendment of an entry wins;
  answers reach page requests by command name.
