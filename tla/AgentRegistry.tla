---------------------------- MODULE AgentRegistry ----------------------------
(***************************************************************************)
(* The gateway's AgentRegistry, its WarmPool and the containers of the     *)
(* host (crates/nexal-gateway/src/registry.rs, pool.rs, backend/podman.rs  *)
(* and the dispatch of server/session.rs).  The proxies that kill() drops  *)
(* are the subject of ProxyPath.                                           *)
(*                                                                         *)
(* Frontend sessions run concurrently, each one request at a time: op[s]   *)
(* is the request session s is in the middle of.  An action is the code    *)
(* between two awaits, a held lock or one command of the backend.  A       *)
(* container is "clean" until an agent on it is handed to a frontend.  A   *)
(* warm container is named by the pool's counter, which starts at 0 in     *)
(* every process; the names of other containers come from the frontend and *)
(* may be those of the pool, which uses the same prefix.                   *)
(***************************************************************************)
EXTENDS Naturals, FiniteSets

CONSTANTS
    Sessions,
    Keys,           \* container names derived from spawn names, a number where
                    \* it is the name of a pool container
    TargetSize,     \* WarmPool.target_size, 0 for no pool
    MaxSeq,         \* bound: warm containers created per process
    MaxAgents,      \* bound: agent ids handed out
    MaxBoots,       \* bound: gateway processes
    None            \* no container

ASSUME SizesAssumption ==
    /\ TargetSize \in Nat /\ MaxSeq \in Nat /\ MaxAgents \in Nat
    /\ MaxBoots \in Nat
    /\ None \notin Keys \cup 0..MaxSeq

VARIABLES
    phase,          \* "up", "stopping" (ctrl-c seen) or "down"
    boots,
    ctr,            \* containers of the host by name
    agents,         \* AgentRegistry.inner: agent id -> container
    nextAgent,      \* uuids handed out
    available,      \* WarmPool.available
    counter,        \* WarmPool.counter
    filling,        \* the container create_one() is working on, if any
    op,             \* requests in progress
    left,           \* history: containers a detach, the end of the process, a failed
                    \* ensure(), a failed dial or a failed removal left without an owner
    shared,         \* history: containers ensured by name while somebody held them
    named           \* history: names that a frontend has asked for in this process,
                    \* or that were on the host when it started

host == <<ctr, left, shared, named>>
pool == <<available, counter, filling>>
table == <<agents, nextAgent>>
vars == <<phase, boots, host, table, pool, op>>

PoolNames == 0..MaxSeq
Names == Keys \cup PoolNames
Agents == 1..MaxAgents

Op == [at : {"free", "ensuring", "dialing", "killing"}, ctr : Names \cup {None}]

Free == [at |-> "free", ctr |-> None]

Init ==
    /\ phase = "down"
    /\ boots = 0
    /\ ctr = [n \in Names |-> "absent"]
    /\ agents = {}
    /\ nextAgent = 1
    /\ available = {}
    /\ counter = 0
    /\ filling = {}
    /\ op = [s \in Sessions |-> Free]
    /\ left = {}
    /\ shared = {}
    /\ named = {}

-----------------------------------------------------------------------------
(* Helpers.                                                                 *)

InMap(n) == \E e \in agents : e.ctr = n
Working(s, n) == op[s].at # "free" /\ op[s].ctr = n

\* Somebody other than session s holds container n.
HeldBesides(s, n) ==
    \/ InMap(n)
    \/ n \in available \cup filling
    \/ \E t \in Sessions \ {s} : Working(t, n)

Become(s, o) == op' = [op EXCEPT ![s] = o]

Done(s) == Become(s, Free)

Begin(s, at, n) ==
    /\ phase # "down"
    /\ op[s] = Free
    /\ Become(s, [at |-> at, ctr |-> n])

\* ensure(): reuse by name, or create, copy the agent and start.
Ensure(n) ==
    /\ ctr' = [ctr EXCEPT ![n] = IF @ = "absent" THEN "clean" ELSE @]
    /\ left' = left \ {n}

\* ensure() gives up; the container may exist by then.
EnsureError(n) ==
    \/ ctr' = [ctr EXCEPT ![n] = IF @ = "absent" THEN "clean" ELSE @] /\ left' = left \cup {n}
    \/ ctr[n] = "absent" /\ UNCHANGED <<ctr, left>>

\* destroy() of the containers in ns: the error of a failed removal is dropped.
Destroy(ns) ==
    \E kept \in SUBSET {n \in ns : ctr[n] # "absent"} :
        /\ ctr' = [n \in Names |-> IF n \in ns \ kept THEN "absent" ELSE ctr[n]]
        /\ left' = (left \ ns) \cup kept

-----------------------------------------------------------------------------
(* WarmPool.                                                                *)

FillBegin ==
    /\ phase # "down"
    /\ TargetSize > 0
    /\ filling = {}
    /\ Cardinality(available) < TargetSize
    /\ counter <= MaxSeq
    /\ counter' = counter + 1
    /\ filling' = {counter}
    /\ UNCHANGED <<phase, boots, host, table, available, op>>

FillEnd(n) ==
    /\ phase # "down"
    /\ n \in filling
    /\ Ensure(n)
    /\ shared' = IF InMap(n) \/ \E s \in Sessions : Working(s, n) THEN shared \cup {n} ELSE shared
    /\ available' = available \cup {n}
    /\ filling' = {}
    /\ UNCHANGED <<phase, boots, named, table, counter, op>>

FillFails(n) ==
    /\ phase # "down"
    /\ n \in filling
    /\ EnsureError(n)
    /\ filling' = {}
    /\ UNCHANGED <<phase, boots, shared, named, table, available, counter, op>>

-----------------------------------------------------------------------------
(* spawn() and attach().                                                    *)

\* Mutant of SpawnWarm: the handle is copied out of the pool, not popped.
SpawnWarmPeeks(s, n) ==
    /\ n \in available
    /\ Begin(s, "dialing", n)
    /\ UNCHANGED <<phase, boots, host, table, available, counter, filling>>

SpawnWarm(s, n) ==
    /\ n \in available
    /\ Begin(s, "dialing", n)
    /\ available' = available \ {n}
    /\ UNCHANGED <<phase, boots, host, table, counter, filling>>

\* No warm container, or a custom image or extra ports are asked for.
SpawnCold(s, n) ==
    /\ n \in Keys
    /\ Begin(s, "ensuring", n)
    /\ named' = named \cup {n}
    /\ UNCHANGED <<phase, boots, ctr, left, shared, table, pool>>

AttachExists(s, n) ==
    /\ ctr[n] # "absent"
    /\ Begin(s, "ensuring", n)
    /\ named' = named \cup {n}
    /\ UNCHANGED <<phase, boots, ctr, left, shared, table, pool>>

Ensured(s) ==
    /\ op[s].at = "ensuring"
    /\ Ensure(op[s].ctr)
    /\ shared' = IF HeldBesides(s, op[s].ctr) THEN shared \cup {op[s].ctr} ELSE shared
    /\ Become(s, [op[s] EXCEPT !.at = "dialing"])
    /\ UNCHANGED <<phase, boots, named, table, pool>>

EnsureFails(s) ==
    /\ op[s].at = "ensuring"
    /\ EnsureError(op[s].ctr)
    /\ Done(s)
    /\ UNCHANGED <<phase, boots, shared, named, table, pool>>

\* dial_and_register().
Dialed(s) ==
    /\ op[s].at = "dialing"
    /\ nextAgent <= MaxAgents
    /\ LET n == op[s].ctr IN
         /\ ctr[n] # "absent"
         /\ ctr' = [ctr EXCEPT ![n] = "used"]
         /\ left' = left \ {n}
         /\ agents' = agents \cup {[id |-> nextAgent, ctr |-> n]}
    /\ nextAgent' = nextAgent + 1
    /\ Done(s)
    /\ UNCHANGED <<phase, boots, shared, named, pool>>

\* Nobody destroys the container that could not be dialled.
DialFails(s) ==
    /\ op[s].at = "dialing"
    /\ left' = left \cup {op[s].ctr}
    /\ Done(s)
    /\ UNCHANGED <<phase, boots, ctr, shared, named, table, pool>>

-----------------------------------------------------------------------------
(* detach() and kill().                                                     *)

Detach(s, e) ==
    /\ phase # "down"
    /\ op[s] = Free
    /\ e \in agents
    /\ agents' = agents \ {e}
    /\ left' = left \cup {e.ctr}
    /\ UNCHANGED <<phase, boots, ctr, shared, named, nextAgent, pool, op>>

\* Mutant of KillRemove: the entry is cloned out of the map, not removed.
KillRemoveClones(s, e) ==
    /\ e \in agents
    /\ Begin(s, "killing", e.ctr)
    /\ UNCHANGED <<phase, boots, host, table, pool>>

\* An unknown agent id is an error; the entry is out of the map before its proxies
\* are dropped, its connection closed and its container removed.
KillRemove(s, e) ==
    /\ e \in agents
    /\ Begin(s, "killing", e.ctr)
    /\ agents' = agents \ {e}
    /\ UNCHANGED <<phase, boots, host, nextAgent, pool>>

\* Mutant of KillDestroy: the container of a killed agent is left running.
KillDestroyKeeps(s) ==
    /\ op[s].at = "killing"
    /\ Done(s)
    /\ UNCHANGED <<phase, boots, host, table, pool>>

KillDestroy(s) ==
    /\ op[s].at = "killing"
    /\ Destroy({op[s].ctr})
    /\ shared' = IF HeldBesides(s, op[s].ctr) THEN shared ELSE shared \ {op[s].ctr}
    /\ Done(s)
    /\ UNCHANGED <<phase, boots, named, table, pool>>

-----------------------------------------------------------------------------
(* The process.                                                             *)

Start ==
    /\ phase = "down"
    /\ boots < MaxBoots
    /\ phase' = "up"
    /\ boots' = boots + 1
    /\ UNCHANGED <<host, table, pool, op>>

\* Containers the process was responsible for when it ended.
Held ==
    {e.ctr : e \in agents} \cup available \cup filling
        \cup ({op[s].ctr : s \in Sessions} \ {None})

Exit ==
    /\ phase' = "down"
    /\ agents' = {}
    /\ available' = {} /\ counter' = 0 /\ filling' = {}
    /\ op' = [s \in Sessions |-> Free]
    /\ left' = left \cup Held
    /\ named' = {n \in Names : ctr[n] # "absent"}
    /\ UNCHANGED <<boots, ctr, shared, nextAgent>>

\* ctrl-c: detach_all() empties the map ...
StopDetach ==
    /\ phase = "up"
    /\ phase' = "stopping"
    /\ agents' = {}
    /\ left' = left \cup {e.ctr : e \in agents}
    /\ UNCHANGED <<boots, ctr, shared, named, nextAgent, pool, op>>

\* ... drains the pool, and the process exits.
StopDrain ==
    /\ phase = "stopping"
    /\ available # {}
    /\ available' = {}
    /\ Destroy(available)
    /\ UNCHANGED <<phase, boots, shared, named, table, counter, filling, op>>

\* A container finished after the drain, or a second signal, leaves the pool filled.
StopExit == phase = "stopping" /\ Exit

Crash == phase = "up" /\ Exit

Request(s) ==
    \/ \E n \in PoolNames : SpawnWarm(s, n)
    \/ \E n \in Keys : SpawnCold(s, n)
    \/ \E n \in Names : AttachExists(s, n)
    \/ \E e \in agents : Detach(s, e) \/ KillRemove(s, e)

Progress(s) ==
    Ensured(s) \/ EnsureFails(s) \/ Dialed(s) \/ DialFails(s) \/ KillDestroy(s)

Next ==
    \/ \E s \in Sessions : Request(s) \/ Progress(s)
    \/ FillBegin \/ \E n \in filling : FillEnd(n) \/ FillFails(n)
    \/ Start \/ StopDetach \/ StopDrain \/ StopExit \/ Crash

Spec == Init /\ [][Next]_vars

-----------------------------------------------------------------------------
(* Properties.                                                              *)

\* A warm container that spawn() can get has never served an agent and serves none
\* now, in every process, unless a frontend of this process asked for it by name or
\* it was on the host already: ensure() reuses what it finds (pool.rs says "never
\* recycled", which holds of the others).
WarmExclusive ==
    \A n \in available \ named : ctr[n] = "clean" /\ ~InMap(n)

\* An agent in the registry has its container, unless two holders shared it and
\* one of them killed it (kill() destroys by name).
AgentsHaveContainers ==
    \A e \in agents : ctr[e.ctr] = "absent" => e.ctr \in shared

\* Every container on the host has an owner, or was left by one of the paths that
\* leave containers: detach, the end of the process, a failed ensure(), dial or removal.
NoOtherLeak ==
    \A n \in Names :
        ctr[n] # "absent" =>
            n \in Held \cup left

\* With what an inductive proof of it needs: create_one() works on one container at
\* a time, and a session without a request holds none.
LeakInv ==
    /\ ctr \in [Names -> {"absent", "clean", "used"}]
    /\ op \in [Sessions -> Op]
    /\ \A e \in agents : e.ctr \in Names \cup {None}
    /\ \A m, n \in filling : m = n
    /\ NoOtherLeak

\* A session past ensure() holds its container, as an entry of the map and a place
\* in the pool do.  Whoever becomes the second holder goes through ensure() by name,
\* which marks the container shared.
Firm(s) == op[s].at \in {"dialing", "killing"}
OneHolder ==
    /\ \A e, f \in agents : e # f /\ e.ctr = f.ctr => e.ctr \in shared
    /\ \A s, t \in Sessions : s # t /\ Firm(s) /\ Firm(t) /\ op[s].ctr = op[t].ctr => op[s].ctr \in shared
    /\ \A e \in agents, s \in Sessions : Firm(s) /\ op[s].ctr = e.ctr => e.ctr \in shared
    /\ \A e \in agents : e.ctr \in available => e.ctr \in shared
    /\ \A s \in Sessions : Firm(s) /\ op[s].ctr \in available => op[s].ctr \in shared

\* A name the pool of this process has still to make a container of, or has one of
\* to hand out, is nobody else's unless it is a named one.
Unmade(n) == n \in PoolNames /\ (n >= counter \/ n \in filling)
PoolOwn ==
    /\ \A s \in Sessions : op[s].at = "ensuring" => op[s].ctr \in named
    /\ \A n \in PoolNames \ named :
          /\ Unmade(n) => ctr[n] = "absent"
          /\ n \in available => ctr[n] = "clean"
          /\ Unmade(n) \/ n \in available => ~InMap(n) /\ \A s \in Sessions : ~Working(s, n)

\* The inductive invariant behind AgentsHaveContainers and WarmExclusive.
ShareTypes ==
    /\ ctr \in [Names -> {"absent", "clean", "used"}]
    /\ op \in [Sessions -> Op]
    /\ boots \in Nat /\ counter \in Nat
    /\ \A s \in Sessions : op[s].at # "free" => op[s].ctr \in Names
    /\ \A e \in agents : e.ctr \in Names
    /\ available \subseteq PoolNames /\ filling \subseteq PoolNames
    /\ \A n \in available \cup filling : n < counter
    /\ available \cap filling = {} /\ \A m, n \in filling : m = n
ShareInv == ShareTypes /\ OneHolder /\ PoolOwn /\ AgentsHaveContainers
=============================================================================
