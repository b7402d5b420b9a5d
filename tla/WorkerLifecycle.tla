--------------------------- MODULE WorkerLifecycle ---------------------------
(***************************************************************************)
(* Workers of the LLM server: the rows of the worker store, the            *)
(* WorkerRegistry that queues and starts them, the WorkerAgent that owns   *)
(* one running worker, and the gateway client's cache of sandboxes         *)
(* (src/workers/registry.ts, agent.ts, store.ts, src/gateway/client.ts,    *)
(* and the start-up and shutdown of src/index.ts).                         *)
(*                                                                         *)
(* JavaScript runs to the next await, so an action is the code between two *)
(* awaits.  A WorkerAgent object is an entry of "runners"; the registry's  *)
(* map "agents" holds the index of the object filed under each worker, 0   *)
(* for none.  A process crash forgets everything but the rows and the      *)
(* containers.                                                             *)
(***************************************************************************)
EXTENDS Naturals, Sequences, FiniteSets, FiniteSetsExt

CONSTANTS
    Workers,
    Executors,      \* workers with a container; the others are coordinators
    Lifetimes,      \* what spawn() may be asked for: "persistent", "oneshot"
    Prompted,       \* persistent workers spawned with an initial prompt
    MaxConcurrent,
    Cancellable,    \* workers a dispatcher may cancel
    Routable,       \* persistent workers a dispatcher may send to
    Early,          \* lifetimes a spawn before resumePending may ask for
    Faults,         \* what may happen: "crash", "shutdown", "db" and "gateway"
                    \* errors
    MaxBoots,       \* bound: process starts
    MaxErrors       \* bound: errors of the store and the gateway

ASSUME WorkersAssumption ==
    /\ IsFiniteSet(Workers)
    /\ Executors \subseteq Workers
    /\ Early \cup Lifetimes \subseteq {"persistent", "oneshot"}
    /\ MaxConcurrent \in Nat

VARIABLES
    status,         \* column status of the row, "none" before the insert
    lifetime,       \* column lifetime
    hist,           \* messages_json holds messages
    phase,          \* "down", "up" or "stopping" (shuttingDown is set)
    resumed,        \* resumePending has run in this process
    boots,
    errors,
    spawning,       \* workers whose spawn() is between insert and queue.push
    queue,
    agents,
    runners,
    dequeued,       \* cancel() of workers with no runner: "no", "read", "write"
    sess,           \* GatewayClient.agents / agentInflight for "worker:<id>"
    container,      \* the worker's container exists
    fresh,          \* history: rows inserted by this process
    races           \* history: the races and errors of this process that hit a
                    \* worker, and how the one before left its container

db == <<status, lifetime, hist>>
proc == <<phase, resumed, boots, spawning>>
pool == <<queue, agents, runners>>
gateway == <<sess, container>>
history == <<fresh, races>>
vars == <<db, proc, pool, dequeued, gateway, history, errors>>

Live == {"spawning", "running", "idle"}
Terminal == {"completed", "cancelled", "failed"}

Init ==
    /\ status = [w \in Workers |-> "none"]
    /\ lifetime = [w \in Workers |-> "persistent"]
    /\ hist = [w \in Workers |-> FALSE]
    /\ phase = "down"
    /\ resumed = FALSE
    /\ boots = 0
    /\ errors = 0
    /\ spawning = {}
    /\ queue = << >>
    /\ agents = [w \in Workers |-> 0]
    /\ runners = << >>
    /\ dequeued = [w \in Workers |-> "no"]
    /\ sess = [w \in Workers |-> "none"]
    /\ container = [w \in Workers |-> FALSE]
    /\ fresh = {}
    /\ races = [w \in Workers |-> {}]

-----------------------------------------------------------------------------
(* Helpers.                                                                 *)

NewRunner(w) ==
    [ w |-> w, pc |-> "fetch", resume |-> FALSE, run |-> "none",
      aborted |-> FALSE, out |-> "ok", route |-> "no",
      cancel |-> "no", suspend |-> "no", disposed |-> "no" ]

\* A call to the store or the gateway that rejects.
Fails(what) ==
    /\ what \in Faults
    /\ errors < MaxErrors
    /\ errors' = errors + 1

Queued(q) == {q[j] : j \in 1..Len(q)}

Alive(ag) == {w \in Workers : ag[w] # 0}

Busy(r) == r.run \notin {"none", "idle"}

Race(w, names) == races' = [races EXCEPT ![w] = @ \cup names]

RaceAll(ws, name) ==
    races' = [w \in Workers |-> races[w] \cup (IF w \in ws THEN {name} ELSE {})]

SetStatus(w, s) == status' = [status EXCEPT ![w] = s]

\* Mutant of Pump: started workers are not shifted off the queue.
PumpKeepsQueue(q, ag, rs) ==
    /\ agents' = ag
    /\ queue' = q
    /\ runners' = IF phase # "stopping" /\ Cardinality(Alive(ag)) < MaxConcurrent
                    THEN rs \o [j \in 1..Len(q) |-> NewRunner(q[j])]
                    ELSE rs

(***************************************************************************)
(* pump() with queue q, map ag and objects rs.  startAgent files its       *)
(* runner in the map only after its first await, so agents.size does not   *)
(* move inside the loop and one free slot empties the queue.               *)
(***************************************************************************)
Pump(q, ag, rs) ==
    /\ agents' = ag
    /\ IF phase # "stopping" /\ Cardinality(Alive(ag)) < MaxConcurrent
         THEN /\ queue' = << >>
              /\ runners' = rs \o [j \in 1..Len(q) |-> NewRunner(q[j])]
         ELSE /\ queue' = q
              /\ runners' = rs

\* Mutant of OnTerminal: the freed slot is not offered to the queue.
OnTerminalNoPump(w, rs) ==
    /\ agents' = [agents EXCEPT ![w] = 0]
    /\ runners' = rs
    /\ UNCHANGED queue

\* onTerminal of the runner filed under w.
OnTerminal(w, rs) == Pump(queue, [agents EXCEPT ![w] = 0], rs)

\* The runner i becomes r, everything else of the registry stays.
Step(i, r) ==
    /\ runners' = [runners EXCEPT ![i] = r]
    /\ UNCHANGED <<queue, agents>>

\* dispose(): only the first call has an effect.
Disposed(r, how) == IF r.disposed = "no" THEN [r EXCEPT !.disposed = how] ELSE r

Prompt(r) == [r EXCEPT !.run = "streaming", !.aborted = FALSE]

-----------------------------------------------------------------------------
(* spawn(), sendToAgent() and cancel() of the registry.                     *)

SpawnInsert(w) ==
    /\ phase = "up"
    /\ status[w] = "none"
    /\ SetStatus(w, "spawning")
    /\ \E l \in IF resumed THEN Lifetimes ELSE Early :
          /\ w \notin Executors => l = "persistent"
          /\ lifetime' = [lifetime EXCEPT ![w] = l]
    /\ spawning' = spawning \cup {w}
    /\ fresh' = fresh \cup {w}
    /\ UNCHANGED <<hist, phase, resumed, boots, pool, dequeued, gateway, races>>

SpawnEnqueue(w) ==
    /\ w \in spawning
    /\ spawning' = spawning \ {w}
    /\ Pump(Append(queue, w), agents, runners)
    /\ UNCHANGED <<db, phase, resumed, boots, dequeued, gateway, history>>

\* resolveParentTape throws: the row is there, and nobody queues it.
SpawnError(w) ==
    /\ Fails("db")
    /\ w \in spawning
    /\ spawning' = spawning \ {w}
    /\ Race(w, {"spawn_failed"})
    /\ UNCHANGED <<db, phase, resumed, boots, pool, dequeued, gateway, fresh>>

\* sendToAgent() throws for a worker without a runner and for one-shot workers.
Sendable(w) == agents[w] # 0 /\ lifetime[w] # "oneshot"

(***************************************************************************)
(* route() on an agent that is between runs; a message for one that is     *)
(* streaming is steered into the current run and changes nothing here.     *)
(***************************************************************************)
Route(w) ==
    /\ phase # "down"
    /\ w \in Routable
    /\ Sendable(w)
    /\ LET i == agents[w]
           r == runners[i] IN
         /\ r.run = "idle"
         /\ r.route = "no"
         /\ Step(i, [r EXCEPT !.route = "marking"])
         /\ Race(w, (IF r.pc = "live" THEN {} ELSE {"route_vs_start"})
                      \cup (IF r.cancel = "no" THEN {} ELSE {"cancel_vs_route"}))
    /\ UNCHANGED <<db, proc, dequeued, gateway, fresh>>

\* markStarted, then prompt(), which throws when a run is in progress.
RouteRun(i) ==
    /\ runners[i].route = "marking"
    /\ LET r == [runners[i] EXCEPT !.route = "no"] IN
         /\ SetStatus(r.w, "running")
         /\ Step(i, IF r.run = "idle" THEN Prompt(r) ELSE r)
    /\ UNCHANGED <<lifetime, hist, proc, dequeued, gateway, history>>

\* markStarted throws: the sender is told, the agent is not prompted.
RouteError(i) ==
    /\ Fails("db")
    /\ runners[i].route = "marking"
    /\ Step(i, [runners[i] EXCEPT !.route = "no"])
    /\ UNCHANGED <<db, proc, dequeued, gateway, history>>

CancelLive(w) ==
    /\ phase # "down"
    /\ w \in Cancellable
    /\ agents[w] # 0
    /\ LET i == agents[w]
           r == runners[i] IN
         /\ r.disposed = "no"
         /\ r.cancel = "no"
         /\ Step(i, [r EXCEPT !.cancel = "wait", !.aborted = (r.run = "streaming")])
         /\ Race(w, (IF r.pc = "live" THEN {} ELSE {"cancel_vs_start"})
                      \cup (IF r.route = "no" THEN {} ELSE {"cancel_vs_route"}))
    /\ UNCHANGED <<db, proc, dequeued, gateway, fresh>>

\* Mutant of CancelWrite: the run is not waited for.
CancelWriteNoWait(i) ==
    /\ runners[i].cancel = "wait"
    /\ SetStatus(runners[i].w, "cancelled")
    /\ Step(i, Disposed([runners[i] EXCEPT !.cancel = "finish"], "kill"))
    /\ UNCHANGED <<lifetime, hist, proc, dequeued, gateway, history>>

\* waitForIdle is over: setStatus and dispose(true).
CancelWrite(i) ==
    /\ runners[i].cancel = "wait"
    /\ ~Busy(runners[i])
    /\ SetStatus(runners[i].w, "cancelled")
    /\ Step(i, Disposed([runners[i] EXCEPT !.cancel = "finish"], "kill"))
    /\ UNCHANGED <<lifetime, hist, proc, dequeued, gateway, history>>

\* setStatus throws: the run is over, the runner stays.
CancelError(i) ==
    /\ Fails("db")
    /\ runners[i].cancel = "wait"
    /\ ~Busy(runners[i])
    /\ Step(i, [runners[i] EXCEPT !.cancel = "no"])
    /\ UNCHANGED <<db, proc, dequeued, gateway, history>>

CancelFinish(i) ==
    /\ runners[i].cancel = "finish"
    /\ runners[i].disposed = "done"
    /\ OnTerminal(runners[i].w, [runners EXCEPT ![i].cancel = "returned"])
    /\ UNCHANGED <<db, proc, dequeued, gateway, history>>

\* cancel() of a worker that has no runner yet.
CancelDequeue(w) ==
    /\ phase # "down"
    /\ w \in Cancellable
    /\ status[w] # "none"
    /\ agents[w] = 0
    /\ dequeued[w] = "no"
    /\ queue' = SelectSeq(queue, LAMBDA x : x # w)
    /\ dequeued' = [dequeued EXCEPT ![w] = "read"]
    /\ Race(w, IF \/ w \in spawning
                  \/ \E i \in 1..Len(runners) : runners[i].w = w /\ runners[i].pc = "fetch"
                 THEN {"cancel_vs_start"} ELSE {})
    /\ UNCHANGED <<db, proc, agents, runners, gateway, fresh>>

CancelRead(w) ==
    /\ dequeued[w] = "read"
    /\ dequeued' = [dequeued EXCEPT ![w] = IF status[w] \in Live THEN "write" ELSE "no"]
    /\ UNCHANGED <<db, proc, pool, gateway, history>>

CancelRow(w) ==
    /\ dequeued[w] = "write"
    /\ dequeued' = [dequeued EXCEPT ![w] = "no"]
    /\ SetStatus(w, "cancelled")
    /\ Race(w, IF container[w] THEN {"cancelled_unattached"} ELSE {})
    /\ UNCHANGED <<lifetime, hist, proc, pool, gateway, fresh>>

\* The read or the write throws; the row has left the queue all the same.
CancelRowError(w) ==
    /\ Fails("db")
    /\ dequeued[w] # "no"
    /\ dequeued' = [dequeued EXCEPT ![w] = "no"]
    /\ Race(w, {"cancel_failed"})
    /\ UNCHANGED <<db, proc, pool, gateway, fresh>>

-----------------------------------------------------------------------------
(* startAgent() and WorkerAgent.start().                                    *)

FetchTerminal(i) ==
    /\ runners[i].pc = "fetch"
    /\ status[runners[i].w] \in Terminal
    /\ Step(i, [runners[i] EXCEPT !.pc = "gone"])
    /\ UNCHANGED <<db, proc, dequeued, gateway, history>>

\* An error of store.get is logged and the row is left as it is.
FetchError(i) ==
    /\ Fails("db")
    /\ runners[i].pc = "fetch"
    /\ Step(i, [runners[i] EXCEPT !.pc = "gone"])
    /\ Race(runners[i].w, {"store_get_failed"})
    /\ UNCHANGED <<db, proc, dequeued, gateway, fresh>>

\* acquireAgent(): cached, already in flight, or a new gateway/spawn_agent.
AcquireAgent(w) ==
    sess' = [sess EXCEPT ![w] = IF w \in Executors /\ @ = "none" THEN "inflight" ELSE @]

\* The reply: the container runs and is cached under the worker's key.
Acquired(w) ==
    /\ sess' = [sess EXCEPT ![w] = IF @ = "inflight" THEN "cached" ELSE @]
    /\ container' = [container EXCEPT ![w] = @ \/ sess[w] = "inflight"]

\* The runner is filed and acquireAgent is called; shuttingDown is not read.
FetchLive(i) ==
    /\ runners[i].pc = "fetch"
    /\ LET w == runners[i].w IN
         /\ status[w] \in Live
         /\ agents' = [agents EXCEPT ![w] = i]
         /\ runners' = [runners EXCEPT ![i].pc = "preparing",
                                       ![i].resume = hist[w]]
         /\ AcquireAgent(w)
         /\ Race(w, IF dequeued[w] # "no" THEN {"cancel_vs_start"} ELSE {})
    /\ UNCHANGED <<db, proc, queue, dequeued, container, fresh>>

\* The sandbox is there, the Agent is built and subscribed to.
Prepared(i) ==
    /\ runners[i].pc = "preparing"
    /\ LET w == runners[i].w IN
         /\ Acquired(w)
         /\ Step(i, [runners[i] EXCEPT !.pc = "marking", !.run = "idle"])
    /\ UNCHANGED <<db, proc, dequeued, history>>

\* acquireAgent rejects; the container may have been created all the same.
AcquireError(i) ==
    /\ Fails("gateway")
    /\ runners[i].pc = "preparing"
    /\ LET w == runners[i].w IN
         /\ sess[w] = "inflight"
         /\ sess' = [sess EXCEPT ![w] = "none"]
         /\ \E created \in BOOLEAN :
              /\ container' = [container EXCEPT ![w] = @ \/ created]
              /\ Race(w, IF container'[w] THEN {"late_spawn_error"} ELSE {})
         /\ Step(i, [runners[i] EXCEPT !.pc = "failing"])
    /\ UNCHANGED <<db, proc, dequeued, fresh>>

MarkStarted(i) ==
    /\ runners[i].pc = "marking"
    /\ SetStatus(runners[i].w, "running")
    /\ Step(i, [runners[i] EXCEPT !.pc = "prompting"])
    /\ UNCHANGED <<lifetime, hist, proc, dequeued, gateway, history>>

\* One-shot workers always have an initial prompt.
HasPrompt(w) == w \in Prompted \/ lifetime[w] = "oneshot"

\* prompt() with the resume nudge or the initial prompt.
FirstPrompt(i) ==
    /\ runners[i].pc = "prompting"
    /\ runners[i].resume \/ HasPrompt(runners[i].w)
    /\ LET r == [runners[i] EXCEPT !.resume = FALSE] IN
         Step(i, IF r.run = "idle" THEN [Prompt(r) EXCEPT !.pc = "live"]
                                   ELSE [r EXCEPT !.pc = "failing"])
    /\ UNCHANGED <<db, proc, dequeued, gateway, history>>

NoPrompt(i) ==
    /\ runners[i].pc = "prompting"
    /\ ~runners[i].resume /\ ~HasPrompt(runners[i].w)
    /\ SetStatus(runners[i].w, "idle")
    /\ Step(i, [runners[i] EXCEPT !.pc = "live"])
    /\ UNCHANGED <<lifetime, hist, proc, dequeued, gateway, history>>

\* markStarted or markIdle throws inside start().
StartError(i) ==
    /\ Fails("db")
    /\ \/ runners[i].pc = "marking"
       \/ runners[i].pc = "prompting" /\ ~runners[i].resume /\ ~HasPrompt(runners[i].w)
    /\ Step(i, [runners[i] EXCEPT !.pc = "failing"])
    /\ UNCHANGED <<db, proc, dequeued, gateway, history>>

\* Mutant of FailWrite: a failed start is disposed of but not marked.
FailWriteNoStatus(i) ==
    /\ runners[i].pc = "failing"
    /\ Step(i, Disposed([runners[i] EXCEPT !.pc = "unwinding"], "kill"))
    /\ UNCHANGED <<db, proc, dequeued, gateway, history>>

\* The catch of startAgent: markFailed and dispose(true), then delete and pump.
FailWrite(i) ==
    /\ runners[i].pc = "failing"
    /\ SetStatus(runners[i].w, "failed")
    /\ Step(i, Disposed([runners[i] EXCEPT !.pc = "unwinding"], "kill"))
    /\ UNCHANGED <<lifetime, hist, proc, dequeued, gateway, history>>

\* markFailed fails as well, which the catch swallows: only dispose(true) happens.
FailWriteError(i) ==
    /\ Fails("db")
    /\ runners[i].pc = "failing"
    /\ Step(i, Disposed([runners[i] EXCEPT !.pc = "unwinding"], "kill"))
    /\ Race(runners[i].w, {"mark_failed_lost"})
    /\ UNCHANGED <<db, proc, dequeued, gateway, fresh>>

FailFinish(i) ==
    /\ runners[i].pc = "unwinding"
    /\ runners[i].disposed = "done"
    /\ OnTerminal(runners[i].w, [runners EXCEPT ![i].pc = "gone"])
    /\ UNCHANGED <<db, proc, dequeued, gateway, history>>

-----------------------------------------------------------------------------
(* A run of the agent and handleAgentEnd(), which the agent awaits before   *)
(* it is idle again.                                                        *)

\* The debounced flush after a turn.
TurnFlush(i) ==
    /\ runners[i].run = "streaming"
    /\ runners[i].disposed = "no"
    /\ hist' = [hist EXCEPT ![runners[i].w] = TRUE]
    /\ UNCHANGED <<status, lifetime, proc, pool, dequeued, gateway, history>>

\* agent_end; a disposed runner ignores it.
RunEnds(i, out) ==
    /\ runners[i].run = "streaming"
    /\ out = "abort" => runners[i].aborted
    /\ Step(i, [runners[i] EXCEPT
                  !.run = IF runners[i].disposed = "no" THEN "flush" ELSE "idle",
                  !.out = IF runners[i].disposed = "no" THEN out ELSE "ok",
                  !.aborted = FALSE])
    /\ UNCHANGED <<db, proc, dequeued, gateway, history>>

EndFlush(i) ==
    /\ runners[i].run = "flush"
    /\ hist' = [hist EXCEPT ![runners[i].w] = TRUE]
    /\ Step(i, [runners[i] EXCEPT !.run = "status"])
    /\ UNCHANGED <<status, lifetime, proc, dequeued, gateway, history>>

\* Mutant of EndTerminal: dispose(false) on the terminal path.
EndTerminalDetach(i) ==
    /\ runners[i].run = "status"
    /\ runners[i].out # "ok" \/ lifetime[runners[i].w] = "oneshot"
    /\ SetStatus(runners[i].w, IF runners[i].out = "ok" THEN "completed" ELSE "failed")
    /\ Step(i, Disposed([runners[i] EXCEPT !.run = "finish", !.out = "ok"], "detach"))
    /\ UNCHANGED <<lifetime, hist, proc, dequeued, gateway, history>>

EndTerminal(i) ==
    /\ runners[i].run = "status"
    /\ runners[i].out # "ok" \/ lifetime[runners[i].w] = "oneshot"
    /\ SetStatus(runners[i].w, CASE runners[i].out = "ok"    -> "completed"
                                 [] runners[i].out = "abort" -> "cancelled"
                                 [] runners[i].out = "error" -> "failed")
    /\ Step(i, Disposed([runners[i] EXCEPT !.run = "finish", !.out = "ok"], "kill"))
    /\ UNCHANGED <<lifetime, hist, proc, dequeued, gateway, history>>

EndFinish(i) ==
    /\ runners[i].run = "finish"
    /\ runners[i].disposed = "done"
    /\ OnTerminal(runners[i].w, [runners EXCEPT ![i].run = "idle"])
    /\ UNCHANGED <<db, proc, dequeued, gateway, history>>

EndIdle(i) ==
    /\ runners[i].run = "status"
    /\ runners[i].out = "ok" /\ lifetime[runners[i].w] # "oneshot"
    /\ SetStatus(runners[i].w, "idle")
    /\ Step(i, [runners[i] EXCEPT !.run = "idle"])
    /\ UNCHANGED <<lifetime, hist, proc, dequeued, gateway, history>>

\* The status write throws, which the subscriber logs: the run is over, the
\* row and the runner stay as they are.
EndError(i) ==
    /\ Fails("db")
    /\ runners[i].run = "status"
    /\ Step(i, [runners[i] EXCEPT !.run = "idle", !.out = "ok"])
    /\ UNCHANGED <<db, proc, dequeued, gateway, history>>

\* releaseAgent or detachAgent: nothing to do while the key is not cached.
Release(i) ==
    /\ runners[i].disposed \in {"kill", "detach"}
    /\ LET w == runners[i].w IN
         /\ sess' = [sess EXCEPT ![w] = IF @ = "cached" THEN "none" ELSE @]
         /\ container' = [container EXCEPT ![w] =
                            @ /\ ~(sess[w] = "cached" /\ runners[i].disposed = "kill")]
    /\ Step(i, [runners[i] EXCEPT !.disposed = "done"])
    /\ UNCHANGED <<db, proc, dequeued, history>>

\* The key is forgotten, gateway/kill_agent fails and dispose() swallows it.
ReleaseError(i) ==
    /\ Fails("gateway")
    /\ runners[i].disposed = "kill"
    /\ LET w == runners[i].w IN
         /\ sess[w] = "cached"
         /\ sess' = [sess EXCEPT ![w] = "none"]
         /\ Race(w, {"release_failed"})
    /\ Step(i, [runners[i] EXCEPT !.disposed = "done"])
    /\ UNCHANGED <<db, proc, dequeued, container, fresh>>

-----------------------------------------------------------------------------
(* The process: start, resumePending(), shutdown() and crashes.             *)

Boot ==
    /\ phase = "down"
    /\ boots < MaxBoots
    /\ phase' = "up"
    /\ boots' = boots + 1
    /\ resumed' = FALSE
    /\ UNCHANGED <<db, spawning, pool, dequeued, gateway, history>>

\* Mutant of ResumePending: rows that were still "spawning" are not listed.
ResumeStartedOnly ==
    /\ phase = "up"
    /\ ~resumed
    /\ resumed' = TRUE
    /\ LET rows == {w \in Workers : status[w] \in {"running", "idle"}} \ Queued(queue) IN
         \E order \in [1..Cardinality(rows) -> rows] :
              /\ Queued(order) = rows
              /\ Pump(queue \o order, agents, runners)
    /\ UNCHANGED <<db, phase, boots, spawning, dequeued, gateway, history>>

\* Channels are already up, so a spawn may have come first.
ResumePending ==
    /\ phase = "up"
    /\ ~resumed
    /\ resumed' = TRUE
    /\ LET rows == {w \in Workers : status[w] \in Live} \ Queued(queue) IN
         /\ \E order \in [1..Cardinality(rows) -> rows] :
              /\ Queued(order) = rows
              /\ Pump(queue \o order, agents, runners)
         /\ RaceAll(rows \cap fresh, "double_start")
    /\ UNCHANGED <<db, phase, boots, spawning, dequeued, gateway, fresh>>

\* listByStatus throws, which main logs: the rows wait for the next process.
ResumeError ==
    /\ Fails("db")
    /\ phase = "up"
    /\ ~resumed
    /\ resumed' = TRUE
    /\ RaceAll({w \in Workers : status[w] \in Live}, "resume_failed")
    /\ UNCHANGED <<db, phase, boots, spawning, pool, dequeued, gateway, fresh>>

\* shuttingDown = true, the queue is dropped, every filed runner is suspended.
ShutdownBegin ==
    /\ "shutdown" \in Faults
    /\ phase = "up"
    /\ phase' = "stopping"
    /\ queue' = << >>
    /\ runners' = [i \in 1..Len(runners) |->
                     LET r == runners[i] IN
                     IF agents[r.w] = i /\ r.disposed = "no"
                       THEN [r EXCEPT !.suspend = "wait",
                                      !.aborted = @ \/ r.run = "streaming"]
                       ELSE r]
    /\ UNCHANGED <<db, resumed, boots, spawning, agents, dequeued, gateway, history>>

\* suspend() after waitForIdle: flush and dispose(false).
SuspendFinish(i) ==
    /\ runners[i].suspend = "wait"
    /\ ~Busy(runners[i])
    /\ Step(i, Disposed([runners[i] EXCEPT !.suspend = "done"], "detach"))
    /\ UNCHANGED <<db, proc, dequeued, gateway, history>>

\* What a process leaves behind when it ends: the rows, the containers kept, and
\* some of those that the gateway was still creating.
Exit(kept) ==
    /\ \E late \in SUBSET {w \in Workers : sess[w] = "inflight"} :
          container' = [w \in Workers |-> w \in kept \cup late]
    /\ phase' = "down"
    /\ spawning' = {}
    /\ queue' = << >>
    /\ agents' = [w \in Workers |-> 0]
    /\ runners' = << >>
    /\ dequeued' = [w \in Workers |-> "no"]
    /\ sess' = [w \in Workers |-> "none"]
    /\ fresh' = {}
    /\ races' = [w \in Workers |->
                   IF status[w] \in Terminal /\ container'[w] THEN {"teardown_cut"} ELSE {}]
    /\ UNCHANGED <<db, resumed, boots>>

\* Once all suspends are through, releaseAllAgents() kills what is still cached,
\* or tries to.
ShutdownEnd ==
    /\ phase = "stopping"
    /\ \A i \in 1..Len(runners) :
          runners[i].suspend # "wait" /\ runners[i].disposed # "detach"
    /\ \E failed \in SUBSET (IF "gateway" \in Faults THEN Workers ELSE {}) :
          Exit({w \in Workers : container[w] /\ (sess[w] # "cached" \/ w \in failed)})

Crash ==
    /\ "crash" \in Faults
    /\ phase # "down"
    /\ boots < MaxBoots
    /\ Exit({w \in Workers : container[w]})

-----------------------------------------------------------------------------

RunnerStep(i) ==
    \/ RouteRun(i) \/ CancelWrite(i) \/ CancelFinish(i)
    \/ FetchTerminal(i) \/ FetchLive(i) \/ Prepared(i) \/ MarkStarted(i)
    \/ FirstPrompt(i) \/ NoPrompt(i) \/ FailWrite(i) \/ FailFinish(i)
    \/ EndFlush(i) \/ EndTerminal(i) \/ EndFinish(i) \/ EndIdle(i)
    \/ Release(i) \/ SuspendFinish(i)
    \/ \E out \in {"abort", "error"} : runners[i].aborted /\ RunEnds(i, out)

WorkerStep(w) == SpawnEnqueue(w) \/ CancelRead(w) \/ CancelRow(w)

Error ==
    \/ \E w \in Workers : SpawnError(w) \/ CancelRowError(w)
    \/ \E i \in 1..Len(runners) :
          \/ RouteError(i) \/ CancelError(i) \/ FetchError(i) \/ AcquireError(i)
          \/ StartError(i) \/ FailWriteError(i) \/ EndError(i) \/ ReleaseError(i)
    \/ ResumeError

Environment ==
    \/ \E w \in Workers : SpawnInsert(w) \/ Route(w) \/ CancelLive(w) \/ CancelDequeue(w)
    \/ \E i \in 1..Len(runners) :
          \/ TurnFlush(i)
          \/ \E out \in {"ok", "error"} : RunEnds(i, out)
    \/ ShutdownBegin
    \/ Crash

Process == Boot \/ ResumePending \/ ShutdownEnd

RunnerMoves(i) == i <= Len(runners) /\ RunnerStep(i) /\ UNCHANGED errors

Next ==
    \/ Error
    \/ Environment /\ UNCHANGED errors
    \/ \E i \in 1..Len(runners) : RunnerMoves(i)
    \/ \E w \in Workers : WorkerStep(w) /\ UNCHANGED errors
    \/ Process /\ UNCHANGED errors

Spec == Init /\ [][Next]_vars

(***************************************************************************)
(* Promises settle, a run that is aborted ends, and a supervisor starts    *)
(* the process again.  A run that nobody aborts may go on for ever.        *)
(***************************************************************************)
FairSpec ==
    /\ Spec
    /\ \A i \in 1..(2 * Cardinality(Workers)) : WF_vars(RunnerMoves(i))
    /\ \A w \in Workers : WF_vars(WorkerStep(w) /\ UNCHANGED errors)
    /\ WF_vars(Process /\ UNCHANGED errors)

-----------------------------------------------------------------------------

(***************************************************************************)
(* A worker waits in the queue only while the cap is reached: every path   *)
(* that frees a slot or queues a worker ends in pump() (registry.ts).      *)
(***************************************************************************)
WorkConserving ==
    phase = "up" /\ queue # << >> => Cardinality(Alive(agents)) >= MaxConcurrent

(***************************************************************************)
(* A row that is not terminal has someone responsible for it: it is being  *)
(* queued, queued, being cancelled, or owned by a runner that is not       *)
(* disposed.  The exceptions are rows hit by a race of start, route and    *)
(* cancel or by an error of the store in this process: a restart makes up  *)
(* for all of them (registry.ts, spawn, cancel, startAgent and             *)
(* resumePending).                                                         *)
(***************************************************************************)
StoreErrors == {"spawn_failed", "cancel_failed", "store_get_failed", "mark_failed_lost",
                "resume_failed"}

Owned(w) ==
    \/ w \in spawning \cup Queued(queue)
    \/ dequeued[w] # "no"
    \/ \E i \in 1..Len(runners) :
          runners[i].w = w /\ runners[i].disposed = "no" /\ runners[i].pc # "gone"

LiveRowsOwned ==
    phase = "up" /\ resumed =>
        \A w \in Workers :
            status[w] \in Live =>
                \/ Owned(w)
                \/ races[w] \cap ({"cancel_vs_start", "cancel_vs_route", "route_vs_start",
                                     "double_start"} \cup StoreErrors) # {}

(***************************************************************************)
(* The container of a worker whose row is terminal is gone once its        *)
(* runners are through (dispose(true) on every terminal path).  The        *)
(* exceptions: a cancel during a start, a worker with two runners, the     *)
(* cancel of a row whose container no runner of this process holds, a      *)
(* process that ends before the release, a spawn_agent that fails after    *)
(* it has made the container, and a kill_agent that fails.                 *)
(***************************************************************************)
Settled(w) ==
    /\ w \notin spawning \cup Queued(queue)
    /\ dequeued[w] = "no"
    /\ \A i \in 1..Len(runners) :
          runners[i].w = w => runners[i].pc = "gone" \/ runners[i].disposed = "done"

TerminalReleased ==
    \A w \in Workers :
        phase = "up" /\ status[w] \in Terminal /\ Settled(w) /\ container[w] =>
            races[w] \cap {"cancel_vs_start", "double_start", "cancelled_unattached",
                           "teardown_cut", "late_spawn_error", "release_failed"} # {}

(***************************************************************************)
(* A worker has one runner at a time, unless resumePending re-queued a row *)
(* that this process had inserted itself.                                  *)
(***************************************************************************)
OneRunner ==
    \A i, j \in 1..Len(runners) :
        /\ i # j /\ runners[i].w = runners[j].w
        /\ runners[i].pc # "gone" /\ runners[j].pc # "gone"
        => "double_start" \in races[runners[i].w]

(***************************************************************************)
(* A terminal row stays as it is, except that a cancel which was already   *)
(* waiting may still write "cancelled" over it, and except when this       *)
(* process cancelled or routed to the worker while it was starting,        *)
(* cancelled it while it was being routed to, or gave it two runners       *)
(* (store.ts writes without reading the status).                           *)
(***************************************************************************)
TerminalSticks ==
    [][\A w \in Workers :
          status[w] \in Terminal /\ status'[w] # status[w] =>
             \/ status'[w] = "cancelled"
             \/ races[w] \cap {"cancel_vs_start", "cancel_vs_route", "route_vs_start",
                                "double_start"} # {}]_vars

(***************************************************************************)
(* Every spawned worker leaves "spawning", whatever crashes happen first,  *)
(* as long as slots keep becoming free: a persistent worker and a run that *)
(* does not end keep theirs (registry.ts:22).  An error of the store may   *)
(* strand the row, but only until the process is started again.            *)
(***************************************************************************)
SpawnedIsServed ==
    []<>(Cardinality(Alive(agents)) < MaxConcurrent) =>
        \A w \in Workers :
            status[w] = "spawning" ~>
                status[w] # "spawning" \/ races[w] \cap StoreErrors # {}

(***************************************************************************)
(* agent.ts:282 "The DB row is left in whatever non-terminal state it was  *)
(* in": a suspended runner's row is not cancelled (no dispatcher cancels   *)
(* in the run that checks this).                                           *)
(***************************************************************************)
SuspendKeepsRow ==
    \A i \in 1..Len(runners) :
        runners[i].suspend = "done" => status[runners[i].w] # "cancelled"

=============================================================================
