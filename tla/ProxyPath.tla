------------------------------ MODULE ProxyPath ------------------------------
(***************************************************************************)
(* HTTP and stream proxies, from the frontend's request to the socket in   *)
(* the container: the ProxyRegistry and TcpProxyRegistry of the gateway    *)
(* (crates/nexal-gateway/src/proxy/), the requests of server/session.rs    *)
(* that use them, kill() and detach() of registry.rs, and the ProxyManager *)
(* of nexal-agent (crates/nexal-agent/src/proxy.rs).                       *)
(*                                                                         *)
(* One container is followed.  Every agent id is one connection to it, and *)
(* every connection has a ProxyManager of its own; the socket files belong *)
(* to the container.  A token stands for the registration, the URL and the *)
(* listener it was made for.                                               *)
(***************************************************************************)
EXTENDS Naturals, Sequences, FiniteSets

CONSTANTS
    Sessions,       \* frontend sessions, one request at a time each
    Names,          \* proxy names
    Path,           \* container_socket_path: several names may have one path
    MaxAgents,      \* bound: agent ids handed out
    MaxToken,       \* bound: registrations (HTTP and stream together)
    None            \* no session

ASSUME BoundsAssumption ==
    MaxAgents \in Nat /\ MaxToken \in Nat /\ None \notin Sessions

VARIABLES
    map,            \* AgentRegistry.inner: ids of the agents it knows
    nextAgent,
    index,          \* ProxyRegistry.index: [agent, name] -> token, 0 for none
    byToken,        \* ProxyRegistry.by_token
    nextToken,
    stream,         \* TcpProxyRegistry.inner: [agent, name] -> listener, 0 for none
    listening,      \* stream listeners whose accept loop runs
    link,           \* connection of an agent id
    calls,          \* requests sent on it and not yet handled
    file,           \* socket file of a path: the listener bound to it, 0 for none
    inst,           \* ProxyManager.instances of each connection
    op,             \* requests in progress
    unowned,        \* history: keys of entries the agent's end did not drop
    unsettled           \* history: keys whose path was contested, or left by a request that
                    \* failed, since their last lone request

gateway == <<map, nextAgent, index, byToken, nextToken, stream, listening>>
http == <<index, byToken>>
streams == <<stream, listening>>
container == <<file, inst>>
vars == <<gateway, link, calls, container, op, unowned, unsettled>>

Agents == 1..MaxAgents
Tokens == 1..MaxToken
Keys == Agents \X Names
Sockets == {Path[n] : n \in Names}
Instances == Agents \X Sockets
Kinds == {"http", "stream"}

Steps ==
    {"free", "insert", "invoke", "wait", "rollback", "bind", "unwait", "drop",
     "killHttp", "killStream", "killClose", "killDestroy"}

Op == [at : Steps, agent : 0..MaxAgents, name : Names \cup {None}, tok : 0..MaxToken,
       known : BOOLEAN]

Free == [at |-> "free", agent |-> 0, name |-> None, tok |-> 0, known |-> FALSE]

Call == [kind : {"register", "unregister"}, path : Sockets, tok : 0..MaxToken,
         by : Sessions \cup {None}]

TypeOK ==
    /\ map \subseteq Agents
    /\ nextAgent \in 1..(MaxAgents + 1)
    /\ index \in [Keys -> 0..MaxToken]
    /\ byToken \subseteq [tok : Tokens, agent : Agents, name : Names]
    /\ nextToken \in 1..(MaxToken + 1)
    /\ stream \in [Keys -> 0..MaxToken]
    /\ listening \subseteq Tokens
    /\ link \in [Agents -> {"none", "up", "cut", "gone"}]
    /\ calls \in [Agents -> Seq(Call)]
    /\ file \in [Sockets -> 0..MaxToken]
    /\ inst \in [Instances -> 0..MaxToken]
    /\ op \in [Sessions -> Op]
    /\ unowned \subseteq Kinds \X Keys
    /\ unsettled \subseteq Keys

Init ==
    /\ map = {}
    /\ nextAgent = 1
    /\ index = [k \in Keys |-> 0]
    /\ byToken = {}
    /\ nextToken = 1
    /\ stream = [k \in Keys |-> 0]
    /\ listening = {}
    /\ link = [a \in Agents |-> "none"]
    /\ calls = [a \in Agents |-> <<>>]
    /\ file = [p \in Sockets |-> 0]
    /\ inst = [i \in Instances |-> 0]
    /\ op = [s \in Sessions |-> Free]
    /\ unowned = {}
    /\ unsettled = {}

-----------------------------------------------------------------------------
(* Helpers.                                                                 *)

Become(s, o) == op' = [op EXCEPT ![s] = o]
Step(s, at) == Become(s, [op[s] EXCEPT !.at = at])
Done(s) == Become(s, Free)

Key(s) == <<op[s].agent, op[s].name>>

\* The connection of agent a has a socket at the path, or may still make one.
Claims(a, p) ==
    \/ inst[<<a, p>>] # 0
    \/ \E i \in DOMAIN calls[a] : calls[a][i].path = p

Sharing(p) == {k \in Keys : Path[k[2]] = p}

\* No other session has an HTTP request in progress for the path of the name, no
\* other connection claims it, and no other name is registered for it.
Alone(s, a, n) ==
    /\ \A t \in Sessions \ {s} : Key(t) \in Sharing(Path[n]) => op[t].at = "bind"
    /\ \A b \in Agents \ {a} : ~Claims(b, Path[n])
    /\ \A k \in Sharing(Path[n]) : k[1] = a /\ k[2] # n => index[k] = 0

Begin(s, at, a, n) ==
    /\ op[s] = Free
    /\ Become(s, [at |-> at, agent |-> a, name |-> n, tok |-> 0, known |-> FALSE])

\* A request that is alone on its path settles what an earlier contest left.
Contest(s, a, n) ==
    unsettled' = IF Alone(s, a, n) THEN unsettled \ {<<a, n>>} ELSE unsettled \cup Sharing(Path[n])

\* unregister() and cleanup_for_agent() of the ProxyRegistry: both maps at once.
Unregister(ks) ==
    /\ index' = [k \in Keys |-> IF k \in ks THEN 0 ELSE index[k]]
    /\ byToken' = {e \in byToken : \A k \in ks : e.tok # index[k]}

OfAgent(a) == {k \in Keys : k[1] = a}

\* The gateway's end of the connection of agent a is closed: invoke() returns
\* Closed to every caller, and what is sent may still be read by the agent.
Waiting(a) == {s \in Sessions : op[s].agent = a /\ op[s].at \in {"wait", "unwait"}}

Closed(o) == [o EXCEPT !.at = IF @ = "wait" THEN "rollback" ELSE "drop"]

Forget(q) == [i \in DOMAIN q |-> [q[i] EXCEPT !.by = None]]

Cut(a) ==
    /\ link' = [link EXCEPT ![a] = IF @ = "up" THEN "cut" ELSE @]
    /\ calls' = [calls EXCEPT ![a] = Forget(@)]

-----------------------------------------------------------------------------
(* Agents come and go.                                                      *)

\* spawn() or attach(): a new id and a new connection (see AgentRegistry).
Attach ==
    /\ nextAgent <= MaxAgents
    /\ nextAgent' = nextAgent + 1
    /\ map' = map \cup {nextAgent}
    /\ link' = [link EXCEPT ![nextAgent] = "up"]
    /\ UNCHANGED <<http, nextToken, streams, calls, container, op, unowned, unsettled>>

\* detach() leaves the proxies of the agent registered.
Detach(s, a) ==
    /\ op[s] = Free
    /\ a \in map
    /\ map' = map \ {a}
    /\ Cut(a)
    /\ op' = [t \in Sessions |-> IF t \in Waiting(a) THEN Closed(op[t]) ELSE op[t]]
    /\ unowned' = unowned \cup {<<"http", k>> : k \in {k \in OfAgent(a) : index[k] # 0}}
                          \cup {<<"stream", k>> : k \in {k \in OfAgent(a) : stream[k] # 0}}
    /\ UNCHANGED <<nextAgent, http, nextToken, streams, container, unsettled>>

\* The connection breaks; the entry stays in the registry.
LinkLost(a) ==
    /\ link[a] = "up"
    /\ Cut(a)
    /\ op' = [t \in Sessions |-> IF t \in Waiting(a) THEN Closed(op[t]) ELSE op[t]]
    /\ UNCHANGED <<gateway, container, unowned, unsettled>>

-----------------------------------------------------------------------------
(* registerProxy and unregisterProxy.                                       *)

RegisterGet(s, a, n) ==
    /\ a \in map
    /\ Begin(s, "insert", a, n)
    /\ Contest(s, a, n)
    /\ UNCHANGED <<gateway, link, calls, container, unowned>>

\* Mutant of RegisterInsert: the old token stays in by_token.
RegisterInsertKeeps(s) ==
    /\ op[s].at = "insert"
    /\ nextToken <= MaxToken
    /\ index' = [index EXCEPT ![Key(s)] = nextToken]
    /\ byToken' = byToken \cup {[tok |-> nextToken, agent |-> op[s].agent, name |-> op[s].name]}
    /\ nextToken' = nextToken + 1
    /\ Become(s, [op[s] EXCEPT !.at = "invoke", !.tok = nextToken])
    /\ unowned' = IF op[s].agent \in map THEN unowned ELSE unowned \cup {<<"http", Key(s)>>}
    /\ UNCHANGED <<map, nextAgent, streams, link, calls, container, unsettled>>

\* register(): the old token of the key is discarded.
RegisterInsert(s) ==
    /\ op[s].at = "insert"
    /\ nextToken <= MaxToken
    /\ index' = [index EXCEPT ![Key(s)] = nextToken]
    /\ byToken' = {e \in byToken : e.tok # index[Key(s)]}
                   \cup {[tok |-> nextToken, agent |-> op[s].agent, name |-> op[s].name]}
    /\ nextToken' = nextToken + 1
    /\ Become(s, [op[s] EXCEPT !.at = "invoke", !.tok = nextToken])
    /\ unowned' = IF op[s].agent \in map THEN unowned ELSE unowned \cup {<<"http", Key(s)>>}
    /\ UNCHANGED <<map, nextAgent, streams, link, calls, container, unsettled>>

\* invoke("proxy/register"): an error at once on a closed connection.
RegisterInvoke(s) ==
    /\ op[s].at = "invoke"
    /\ IF link[op[s].agent] = "up"
       THEN /\ calls' = [calls EXCEPT ![op[s].agent] = Append(@,
                [kind |-> "register", path |-> Path[op[s].name], tok |-> op[s].tok, by |-> s])]
            /\ Step(s, "wait")
       ELSE /\ Step(s, "rollback")
            /\ UNCHANGED calls
    /\ UNCHANGED <<gateway, link, container, unowned, unsettled>>


\* The agent failed: the registration of the key is dropped, whoever made it.
RegisterRollback(s) ==
    /\ op[s].at = "rollback"
    /\ Unregister({Key(s)})
    /\ Done(s)
    /\ unowned' = unowned \ {<<"http", Key(s)>>}
    /\ UNCHANGED <<map, nextAgent, nextToken, streams, link, calls, container, unsettled>>

\* The agent is told first, if it is known and reachable ...
UnregisterInvoke(s, a, n) ==
    /\ a < nextAgent
    /\ IF a \in map /\ link[a] = "up"
       THEN /\ calls' = [calls EXCEPT ![a] = Append(@,
                [kind |-> "unregister", path |-> Path[n], tok |-> 0, by |-> s])]
            /\ Begin(s, "unwait", a, n)
       ELSE /\ Begin(s, "drop", a, n)
            /\ UNCHANGED calls
    /\ Contest(s, a, n)
    /\ UNCHANGED <<gateway, link, container, unowned>>

\* ... and the registration is dropped whatever it answers.
UnregisterDrop(s) ==
    /\ op[s].at = "drop"
    /\ Unregister({Key(s)})
    /\ Done(s)
    /\ unowned' = unowned \ {<<"http", Key(s)>>}
    /\ UNCHANGED <<map, nextAgent, nextToken, streams, link, calls, container, unsettled>>

-----------------------------------------------------------------------------
(* registerStreamProxy and unregisterStreamProxy.                           *)

StreamGet(s, a, n) ==
    /\ a \in map
    /\ Begin(s, "bind", a, n)
    /\ UNCHANGED <<gateway, link, calls, container, unowned, unsettled>>

\* The listener of the key that is replaced is cancelled.
StreamInsert(s) ==
    /\ op[s].at = "bind"
    /\ nextToken <= MaxToken
    /\ stream' = [stream EXCEPT ![Key(s)] = nextToken]
    /\ listening' = (listening \ {stream[Key(s)]}) \cup {nextToken}
    /\ nextToken' = nextToken + 1
    /\ Done(s)
    /\ unowned' = IF op[s].agent \in map THEN unowned ELSE unowned \cup {<<"stream", Key(s)>>}
    /\ UNCHANGED <<map, nextAgent, http, link, calls, container, unsettled>>

\* The port is not published, or no listener could be bound.
StreamFails(s) ==
    /\ op[s].at = "bind"
    /\ Done(s)
    /\ UNCHANGED <<gateway, link, calls, container, unowned, unsettled>>

StreamUnregister(s, k) ==
    /\ op[s] = Free
    /\ stream[k] # 0
    /\ stream' = [stream EXCEPT ![k] = 0]
    /\ listening' = listening \ {stream[k]}
    /\ unowned' = unowned \ {<<"stream", k>>}
    /\ UNCHANGED <<map, nextAgent, http, nextToken, link, calls, container, op, unsettled>>

\* accept() fails and run_tcp_proxy() ends; the entry stays.
AcceptFails(l) ==
    /\ l \in listening
    /\ listening' = listening \ {l}
    /\ UNCHANGED <<map, nextAgent, http, nextToken, stream, link, calls, container, op,
                   unowned, unsettled>>

-----------------------------------------------------------------------------
(* kill().                                                                  *)

\* The cleanup runs even for an agent that is not in the map.
KillRemove(s, a) ==
    /\ op[s] = Free
    /\ a < nextAgent
    /\ map' = map \ {a}
    /\ Become(s, [at |-> "killHttp", agent |-> a, name |-> None, tok |-> 0, known |-> a \in map])
    /\ UNCHANGED <<nextAgent, http, nextToken, streams, link, calls, container, unowned, unsettled>>

KillHttp(s) ==
    /\ op[s].at = "killHttp"
    /\ Unregister(OfAgent(op[s].agent))
    /\ Step(s, "killStream")
    /\ unowned' = unowned \ {<<"http", k>> : k \in OfAgent(op[s].agent)}
    /\ UNCHANGED <<map, nextAgent, nextToken, streams, link, calls, container, unsettled>>

\* Mutant of KillStream: kill() cleans up the HTTP proxies only.
KillStreamSkips(s) ==
    /\ op[s].at = "killStream"
    /\ IF op[s].known THEN Step(s, "killClose") ELSE Done(s)
    /\ UNCHANGED <<gateway, link, calls, container, unowned, unsettled>>

KillStream(s) ==
    /\ op[s].at = "killStream"
    /\ stream' = [k \in Keys |-> IF k \in OfAgent(op[s].agent) THEN 0 ELSE stream[k]]
    /\ listening' = listening \ {stream[k] : k \in OfAgent(op[s].agent)}
    /\ IF op[s].known THEN Step(s, "killClose") ELSE Done(s)
    /\ unowned' = unowned \ {<<"stream", k>> : k \in OfAgent(op[s].agent)}
    /\ UNCHANGED <<map, nextAgent, http, nextToken, link, calls, container, unsettled>>

KillClose(s) ==
    /\ op[s].at = "killClose"
    /\ Cut(op[s].agent)
    /\ op' = [t \in Sessions |->
                IF t = s THEN [op[s] EXCEPT !.at = "killDestroy"]
                ELSE IF t \in Waiting(op[s].agent) THEN Closed(op[t]) ELSE op[t]]
    /\ UNCHANGED <<gateway, container, unowned, unsettled>>

\* The container goes, and with it its sockets and every connection to it.
KillDestroy(s) ==
    /\ op[s].at = "killDestroy"
    /\ link' = [a \in Agents |-> IF link[a] = "none" THEN "none" ELSE "gone"]
    /\ calls' = [a \in Agents |-> <<>>]
    /\ file' = [p \in Sockets |-> 0]
    /\ inst' = [i \in Instances |-> 0]
    /\ op' = [t \in Sessions |->
                IF t = s THEN Free
                ELSE IF op[t].at \in {"wait", "unwait"} THEN Closed(op[t]) ELSE op[t]]
    /\ UNCHANGED <<gateway, unowned, unsettled>>

-----------------------------------------------------------------------------
(* The agent: the dispatch loop of a connection takes one request at a time. *)

Head1(a) == Head(calls[a])

\* The answer reaches the caller that still waits.
Answer(a, at) ==
    /\ calls' = [calls EXCEPT ![a] = Tail(@)]
    /\ op' = [s \in Sessions |->
                IF s # Head1(a).by THEN op[s]
                ELSE IF at = "free" THEN Free ELSE [op[s] EXCEPT !.at = at]]

Takes(a, kind) ==
    /\ link[a] \in {"up", "cut"}
    /\ calls[a] # <<>>
    /\ Head1(a).kind = kind

\* ProxyManager::register: the path is unlinked, bound anew, and the instance of
\* the path replaced.
AgentRegisters(a) ==
    /\ Takes(a, "register")
    /\ file' = [file EXCEPT ![Head1(a).path] = Head1(a).tok]
    /\ inst' = [inst EXCEPT ![<<a, Head1(a).path>>] = Head1(a).tok]
    /\ Answer(a, "free")
    /\ UNCHANGED <<gateway, link, unowned, unsettled>>

\* There is no directory for the path, or it is neither unlinked nor bound, and a
\* socket of an earlier registration stays; it is unlinked and cannot be bound; or it
\* is bound and the upstream URL does not parse, and nobody listens on the new socket.
\* The instance of an earlier registration stays in the map each time.
AgentRegisterFails(a) ==
    /\ Takes(a, "register")
    /\ \E left \in {file[Head1(a).path], 0, Head1(a).tok} :
         /\ file' = [file EXCEPT ![Head1(a).path] = left]
         /\ unsettled' = IF left = 0 THEN unsettled ELSE unsettled \cup Sharing(Head1(a).path)
    /\ Answer(a, "rollback")
    /\ UNCHANGED <<gateway, link, inst, unowned>>

\* ProxyManager::unregister: only an instance of this connection.
AgentUnregisters(a) ==
    /\ Takes(a, "unregister")
    /\ LET i == <<a, Head1(a).path>> IN
         /\ file' = IF inst[i] = 0 THEN file ELSE [file EXCEPT ![i[2]] = 0]
         /\ inst' = [inst EXCEPT ![i] = 0]
    /\ Answer(a, "drop")
    /\ UNCHANGED <<gateway, link, unowned, unsettled>>

\* The end of the dispatch loop: ProxyManager::shutdown unlinks the paths of its
\* instances.
AgentShutdown(a) ==
    /\ link[a] = "cut"
    /\ link' = [link EXCEPT ![a] = "gone"]
    /\ calls' = [calls EXCEPT ![a] = <<>>]
    /\ file' = [p \in Sockets |-> IF inst[<<a, p>>] = 0 THEN file[p] ELSE 0]
    /\ inst' = [i \in Instances |-> IF i[1] = a THEN 0 ELSE inst[i]]
    /\ UNCHANGED <<gateway, op, unowned, unsettled>>

-----------------------------------------------------------------------------
(* Behaviours.                                                              *)

Request(s) ==
    \/ \E a \in Agents, n \in Names :
         RegisterGet(s, a, n) \/ UnregisterInvoke(s, a, n) \/ StreamGet(s, a, n)
    \/ \E a \in Agents : Detach(s, a) \/ KillRemove(s, a)
    \/ \E k \in Keys : StreamUnregister(s, k)

Proceed(s) ==
    \/ RegisterInsert(s) \/ RegisterInvoke(s) \/ RegisterRollback(s)
    \/ UnregisterDrop(s)
    \/ StreamInsert(s) \/ StreamFails(s)
    \/ KillHttp(s) \/ KillStream(s) \/ KillClose(s) \/ KillDestroy(s)

Agent(a) ==
    AgentRegisters(a) \/ AgentRegisterFails(a) \/ AgentUnregisters(a) \/ AgentShutdown(a)

Next ==
    \/ Attach
    \/ \E s \in Sessions : Request(s) \/ Proceed(s)
    \/ \E a \in Agents : Agent(a) \/ LinkLost(a)
    \/ \E l \in listening : AcceptFails(l)

Spec == Init /\ [][Next]_vars

-----------------------------------------------------------------------------
(* Properties.                                                              *)

Quiet(k) ==
    \A s \in Sessions :
        /\ Key(s) \in Sharing(Path[k[2]]) => op[s].at = "bind"
        /\ op[s].agent = k[1] => op[s].at \notin {"killHttp", "killStream", "killClose", "killDestroy"}

\* The two maps of the ProxyRegistry agree: by_token holds exactly the tokens of
\* index, so the token of a replaced or dropped registration answers 404 and a key
\* has at most one that works (register, unregister and cleanup_for_agent).
IndexExact ==
    byToken = {[tok |-> index[k], agent |-> k[1], name |-> k[2]] :
               k \in {k \in Keys : index[k] # 0}}

\* An entry of either registry belongs to an agent the gateway knows, to a kill that
\* has not reached the cleanup yet, or is one that detach() left or a request
\* inserted after its agent was removed; a kill clears those as well.  Every accept
\* loop that runs belongs to an entry of the TcpProxyRegistry, through which it can
\* be stopped (register cancels the listener it replaces).
ProxiesOwned ==
    /\ listening \subseteq {stream[k] : k \in Keys}
    /\ \A k \in Keys :
        \/ k[1] \in map
        \/ /\ index[k] # 0 => \/ <<"http", k>> \in unowned
                             \/ \E s \in Sessions : op[s].agent = k[1] /\ op[s].at = "killHttp"
           /\ stream[k] # 0 => \/ <<"stream", k>> \in unowned
                              \/ \E s \in Sessions : /\ op[s].agent = k[1]
                                                      /\ op[s].at \in {"killHttp", "killStream"}

\* What the two rest on, for an inductive proof: a request in progress has an agent
\* and a name where its next step needs them; a caller to be answered waits on that
\* connection, with one call in its queue; tokens are used once.
OpsNamed ==
    \A s \in Sessions :
        /\ op[s].at # "free" => op[s].agent \in Agents
        /\ op[s].at \in {"insert", "invoke", "wait", "rollback", "bind", "unwait", "drop"}
               => op[s].name \in Names

CallersWait ==
    \A a \in Agents : \A i \in DOMAIN calls[a] : \A s \in Sessions : calls[a][i].by = s =>
        /\ op[s].agent = a /\ op[s].at \in {"wait", "unwait"}
        /\ \A j \in DOMAIN calls[a] : calls[a][j].by = s => j = i

TokensOnce ==
    \A k \in Keys :
        /\ index[k] < nextToken
        /\ \A l \in Keys : index[k] = index[l] /\ index[k] # 0 => k = l

ProxyInv ==
    TypeOK /\ OpsNamed /\ CallersWait /\ TokensOnce /\ IndexExact /\ ProxiesOwned

=============================================================================
