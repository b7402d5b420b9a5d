--------------------------- MODULE ProxyPathProofs ---------------------------
(***************************************************************************)
(* Proof that ProxyInv is inductive, for every set of sessions and names   *)
(* and any number of agents and registrations.                             *)
(***************************************************************************)
EXTENDS ProxyPathSteps

(***************************************************************************)
(* registerProxy and unregisterProxy go on.                                *)
(***************************************************************************)
LEMMA HttpStep ==
    ASSUME ProxyInv, NEW s \in Sessions,
           RegisterInsert(s) \/ RegisterInvoke(s) \/ RegisterRollback(s) \/ UnregisterDrop(s)
    PROVE  ProxyInv'
<1> USE BoundsAssumption
<1>0. TypeOK /\ MapsInv /\ OpsInv /\ ProxiesOwned
  BY DEF ProxyInv, MapsInv, OpsInv
<1>1. /\ op[s] \in Op /\ op[s].agent \in Agents /\ op[s].name \in Names /\ Key(s) \in Keys
      /\ op[s].at \in {"insert", "invoke", "rollback", "drop"}
      /\ op \in [Sessions -> Op]
  BY <1>0 DEF TypeOK, OpsInv, OpsNamed, RegisterInsert, RegisterInvoke, RegisterRollback,
     UnregisterDrop, Key, Keys
<1> DEFINE a == op[s].agent
           n == op[s].name
<1>2. CASE RegisterInsert(s)
  <2> DEFINE o == [op[s] EXCEPT !.at = "invoke", !.tok = nextToken]
  <2>1. /\ UNCHANGED <<map, nextAgent, stream, listening, link, calls, file, inst, unsettled>>
        /\ op' = [op EXCEPT ![s] = o] /\ nextToken <= MaxToken
        /\ unowned' = IF a \in map THEN unowned ELSE unowned \cup {<<"http", <<a, n>>>>}
    BY <1>2 DEF RegisterInsert, Become, Key, streams, container
  <2>2. o \in Op /\ o.at = "invoke" /\ o.agent = a /\ o.name = n
    <3>1. nextToken \in 0..MaxToken /\ "invoke" \in Steps
      BY <1>0, <2>1 DEF TypeOK, Steps
    <3>2. QED
      BY <1>1, <3>1 DEF Op
  <2> HIDE DEF o
  <2>3. OpsInv' /\ op' \in [Sessions -> Op]
    BY <1>0, <1>1, <2>1, <2>2, Proceeds
  <2>4. /\ MapsInv'
        /\ index' \in [Keys -> 0..MaxToken] /\ nextToken' \in 1..(MaxToken + 1)
        /\ byToken' \subseteq [tok : Tokens, agent : Agents, name : Names]
        /\ \A k \in Keys : index'[k] = IF k = <<a, n>> THEN nextToken ELSE index[k]
    BY <1>0, <1>1, <1>2, RegisterKeeps DEF RegisterInsert, Key
  <2>5. unowned' \subseteq Kinds \X Keys /\ unowned \subseteq unowned'
    <3>1. <<"http", <<a, n>>>> \in Kinds \X Keys /\ unowned \subseteq Kinds \X Keys
      BY <1>0, <1>1 DEF TypeOK, Kinds, Key
    <3>2. QED
      BY <2>1, <3>1
  <2>6. TypeOK'
    BY <1>0, <2>1, <2>3, <2>4, <2>5 DEF TypeOK
  <2>7. \A t \in Sessions : op[t].at \in {"killHttp", "killStream"} => op'[t] = op[t]
    BY <1>1, <2>1
  <2>8. ProxiesOwned'
    <3>1. ASSUME NEW k \in Keys, k[1] \notin map, index'[k] # 0
          PROVE  \/ <<"http", k>> \in unowned'
                 \/ \E t \in Sessions : op'[t].agent = k[1] /\ op'[t].at = "killHttp"
      <4>1. CASE k = <<a, n>>
        BY <2>1, <3>1, <4>1
      <4>2. CASE k # <<a, n>>
        <5>1. \/ <<"http", k>> \in unowned
              \/ \E t \in Sessions : op[t].agent = k[1] /\ op[t].at = "killHttp"
          BY <1>0, <2>4, <3>1, <4>2 DEF ProxiesOwned
        <5>2. QED
          BY <2>5, <2>7, <5>1
      <4>3. QED
        BY <4>1, <4>2
    <3>2. ASSUME NEW k \in Keys, k[1] \notin map, stream'[k] # 0
          PROVE  \/ <<"stream", k>> \in unowned'
                 \/ \E t \in Sessions : op'[t].agent = k[1] /\ op'[t].at \in {"killHttp", "killStream"}
      BY <1>0, <2>1, <2>7, <3>2 DEF ProxiesOwned
    <3>3. QED
      BY <1>0, <2>1, <3>1, <3>2 DEF ProxiesOwned
  <2>9. QED
    BY <2>3, <2>4, <2>6, <2>8 DEF ProxyInv, MapsInv, OpsInv
<1>3. CASE RegisterInvoke(s)
  <2>1. UNCHANGED <<map, nextAgent, index, byToken, nextToken, stream, listening, link, file,
                    inst, unowned, unsettled>>
    BY <1>3 DEF RegisterInvoke, gateway, container
  <2>2. OpsInv' /\ op' \in [Sessions -> Op] /\ calls' \in [Agents -> Seq(Call)]
    <3>1. CASE link[a] = "up"
      <4> DEFINE o == [op[s] EXCEPT !.at = "wait"]
                 c == [kind |-> "register", path |-> Path[n], tok |-> op[s].tok, by |-> s]
      <4>1. op' = [op EXCEPT ![s] = o] /\ calls' = [calls EXCEPT ![a] = Append(@, c)]
        BY <1>3, <3>1 DEF RegisterInvoke, Step, Become
      <4>2. o \in Op /\ o.at = "wait" /\ o.agent = a /\ o.name = n /\ c \in Call /\ c.by = s
        BY <1>1 DEF Op, Steps, Call, Sockets
      <4> HIDE DEF o, c
      <4>3. QED
        BY <1>0, <1>1, <4>1, <4>2, Calls
    <3>2. CASE link[a] # "up"
      <4> DEFINE o == [op[s] EXCEPT !.at = "rollback"]
      <4>1. op' = [op EXCEPT ![s] = o] /\ UNCHANGED calls
        BY <1>3, <3>2 DEF RegisterInvoke, Step, Become
      <4>2. o \in Op /\ o.at = "rollback" /\ o.agent = a /\ o.name = n
        BY <1>1 DEF Op, Steps
      <4> HIDE DEF o
      <4>3. QED
        BY <1>0, <1>1, <4>1, <4>2, Proceeds DEF TypeOK
    <3>3. QED
      BY <3>1, <3>2
  <2>3. TypeOK'
    BY <1>0, <2>1, <2>2 DEF TypeOK
  <2>4. \A t \in Sessions : op[t].at \in {"killHttp", "killStream"} => op'[t] = op[t]
    BY <1>1, <1>3 DEF RegisterInvoke, Step, Become
  <2>5. MapsInv' /\ ProxiesOwned'
    BY <1>0, <2>1, <2>4, MapsKept, OwnersKept
  <2>6. QED
    BY <2>2, <2>3, <2>5 DEF ProxyInv, MapsInv, OpsInv
<1>4. CASE RegisterRollback(s) \/ UnregisterDrop(s)
  <2>1. /\ UNCHANGED <<map, nextAgent, nextToken, stream, listening, link, calls, file, inst, unsettled>>
        /\ Unregister({Key(s)}) /\ op' = [op EXCEPT ![s] = Free]
        /\ unowned' = unowned \ {<<"http", Key(s)>>}
    BY <1>4 DEF RegisterRollback, UnregisterDrop, Done, Become, streams, container
  <2>2. OpsInv' /\ op' \in [Sessions -> Op]
    BY <1>0, <1>1, <2>1, FreeIsOp, Proceeds
  <2>3. /\ MapsInv'
        /\ index' \in [Keys -> 0..MaxToken] /\ byToken' \subseteq byToken
        /\ \A k \in Keys : index'[k] = IF k \in {Key(s)} THEN 0 ELSE index[k]
    BY <1>0, <1>1, <2>1, UnregisterKeeps
  <2>4. TypeOK'
    BY <1>0, <2>1, <2>2, <2>3 DEF TypeOK
  <2>5. \A t \in Sessions : op[t].at \in {"killHttp", "killStream"} => op'[t] = op[t]
    BY <1>1, <2>1
  <2>6. unowned' = unowned \ {<<"http", k>> : k \in {Key(s)}}
    BY <2>1
  <2>7. ProxiesOwned'
    BY <1>0, <1>1, <2>1, <2>3, <2>5, <2>6, HttpDropped
  <2>8. QED
    BY <2>2, <2>3, <2>4, <2>7 DEF ProxyInv, MapsInv, OpsInv
<1>5. QED
  BY <1>2, <1>3, <1>4

(***************************************************************************)
(* Stream entries change, and with them the accept loops: what is left     *)
(* keeps its owner.                                                        *)
(***************************************************************************)
LEMMA StreamsChanged ==
    ASSUME ProxiesOwned, UNCHANGED <<map, index>>, listening' \subseteq {stream'[k] : k \in Keys},
           \A k \in Keys : <<"http", k>> \in unowned => <<"http", k>> \in unowned',
           \A k \in Keys : \/ k[1] \in map \/ stream'[k] = 0 \/ <<"stream", k>> \in unowned'
                           \/ /\ stream'[k] = stream[k]
                              /\ <<"stream", k>> \notin unowned
                              /\ \A t \in Sessions : op[t].agent = k[1] => op[t].at # "killStream"
                                                                           \/ op'[t] = op[t],
           \A t \in Sessions : op[t].at = "killHttp" => op'[t] = op[t]
    PROVE  ProxiesOwned'
<1>1. ASSUME NEW k \in Keys, k[1] \notin map, index'[k] # 0
      PROVE  \/ <<"http", k>> \in unowned'
             \/ \E s \in Sessions : op'[s].agent = k[1] /\ op'[s].at = "killHttp"
  <2>1. \/ <<"http", k>> \in unowned
        \/ \E s \in Sessions : op[s].agent = k[1] /\ op[s].at = "killHttp"
    BY <1>1 DEF ProxiesOwned
  <2>2. QED
    BY <2>1
<1>2. ASSUME NEW k \in Keys, k[1] \notin map, stream'[k] # 0
      PROVE  \/ <<"stream", k>> \in unowned'
             \/ \E s \in Sessions : op'[s].agent = k[1] /\ op'[s].at \in {"killHttp", "killStream"}
  <2>1. SUFFICES ASSUME <<"stream", k>> \notin unowned' PROVE
             \E s \in Sessions : op'[s].agent = k[1] /\ op'[s].at \in {"killHttp", "killStream"}
    OBVIOUS
  <2>2. /\ stream[k] # 0 /\ <<"stream", k>> \notin unowned
        /\ \A t \in Sessions : op[t].agent = k[1] => op[t].at # "killStream" \/ op'[t] = op[t]
    BY <1>2, <2>1
  <2>3. PICK s \in Sessions : op[s].agent = k[1] /\ op[s].at \in {"killHttp", "killStream"}
    BY <1>2, <2>2 DEF ProxiesOwned
  <2>4. QED
    BY <2>2, <2>3
<1>3. QED
  BY <1>1, <1>2 DEF ProxiesOwned

(***************************************************************************)
(* registerStreamProxy and unregisterStreamProxy, and the accept loops.    *)
(***************************************************************************)
LEMMA StreamStep ==
    ASSUME ProxyInv,
           \/ \E s \in Sessions : StreamInsert(s) \/ StreamFails(s)
           \/ \E s \in Sessions, k \in Keys : StreamUnregister(s, k)
           \/ \E l \in listening : AcceptFails(l)
    PROVE  ProxyInv'
<1> USE BoundsAssumption
<1>0. TypeOK /\ MapsInv /\ OpsInv /\ ProxiesOwned
  BY DEF ProxyInv, MapsInv, OpsInv
<1>1. /\ stream \in [Keys -> 0..MaxToken] /\ nextToken \in 1..(MaxToken + 1)
      /\ listening \subseteq {stream[k] : k \in Keys} /\ op \in [Sessions -> Op]
      /\ listening \subseteq Tokens /\ unowned \subseteq Kinds \X Keys
  BY <1>0 DEF TypeOK, ProxiesOwned
<1>2. ASSUME NEW s \in Sessions, StreamInsert(s) PROVE ProxyInv'
  <2> DEFINE key == Key(s)
  <2>1. /\ UNCHANGED <<map, nextAgent, index, byToken, link, calls, file, inst, unsettled>>
        /\ op' = [op EXCEPT ![s] = Free] /\ nextToken <= MaxToken /\ nextToken' = nextToken + 1
        /\ stream' = [stream EXCEPT ![key] = nextToken]
        /\ listening' = (listening \ {stream[key]}) \cup {nextToken}
        /\ unowned' = IF op[s].agent \in map THEN unowned ELSE unowned \cup {<<"stream", key>>}
        /\ op[s].at = "bind"
    BY <1>2 DEF StreamInsert, Done, Become, http, container
  <2>2. op[s].agent \in Agents /\ op[s].name \in Names /\ key \in Keys /\ key[1] = op[s].agent
    BY <1>0, <2>1 DEF OpsInv, OpsNamed, Key, Keys
  <2> HIDE DEF key
  <2>3. OpsInv' /\ op' \in [Sessions -> Op]
    BY <1>0, <2>1, FreeIsOp, Proceeds
  <2>4. MapsInv'
    BY <1>0, <1>1, <2>1 DEF MapsInv, TokensOnce, IndexExact, TypeOK
  <2>5. /\ stream' \in [Keys -> 0..MaxToken] /\ nextToken' \in 1..(MaxToken + 1)
        /\ \A k \in Keys : stream'[k] = IF k = key THEN nextToken ELSE stream[k]
    BY <1>1, <2>1, <2>2
  <2>6. listening' \subseteq Tokens /\ listening' \subseteq {stream'[k] : k \in Keys}
    <3>1. ASSUME NEW l \in listening'
          PROVE  l \in Tokens /\ l \in {stream'[k] : k \in Keys}
      <4>1. CASE l = nextToken
        BY <1>1, <2>1, <2>2, <2>5, <4>1 DEF Tokens
      <4>2. CASE l # nextToken
        <5>1. l \in listening /\ l # stream[key]
          BY <2>1, <4>2
        <5>2. PICK k \in Keys : l = stream[k]
          BY <1>1, <5>1
        <5>3. stream'[k] = l
          BY <2>5, <5>1, <5>2
        <5>4. QED
          BY <1>1, <5>1, <5>3
      <4>3. QED
        BY <4>1, <4>2
    <3>2. QED
      BY <3>1
  <2>7. unowned' \subseteq Kinds \X Keys /\ unowned \subseteq unowned'
    <3>1. <<"stream", key>> \in Kinds \X Keys
      BY <2>2 DEF Kinds
    <3>2. QED
      BY <1>1, <2>1, <3>1
  <2>8. TypeOK'
    BY <1>0, <2>1, <2>3, <2>5, <2>6, <2>7 DEF TypeOK
  <2>9. \A t \in Sessions : op[t].at \in {"killHttp", "killStream"} => op'[t] = op[t]
    BY <1>1, <2>1
  <2>10. ASSUME NEW k \in Keys
         PROVE  \/ k[1] \in map \/ stream'[k] = 0 \/ <<"stream", k>> \in unowned'
                \/ stream'[k] = stream[k] /\ <<"stream", k>> \notin unowned
    <3>1. CASE k = key
      BY <2>1, <2>2, <3>1
    <3>2. CASE k # key
      BY <2>5, <2>7, <3>2
    <3>3. QED
      BY <3>1, <3>2
  <2>11. ProxiesOwned'
    BY <1>0, <2>1, <2>6, <2>7, <2>9, <2>10, StreamsChanged
  <2>12. QED
    BY <2>3, <2>4, <2>8, <2>11 DEF ProxyInv, MapsInv, OpsInv
<1>3. ASSUME NEW s \in Sessions, StreamFails(s) PROVE ProxyInv'
  <2>1. /\ UNCHANGED <<map, nextAgent, index, byToken, nextToken, stream, listening, link, calls,
                       file, inst, unowned, unsettled>>
        /\ op' = [op EXCEPT ![s] = Free] /\ op[s].at = "bind"
    BY <1>3 DEF StreamFails, Done, Become, gateway, container
  <2>2. OpsInv' /\ op' \in [Sessions -> Op]
    BY <1>0, <2>1, FreeIsOp, Proceeds
  <2>3. TypeOK'
    BY <1>0, <2>1, <2>2 DEF TypeOK
  <2>4. \A t \in Sessions : op[t].at \in {"killHttp", "killStream"} => op'[t] = op[t]
    BY <1>1, <2>1
  <2>5. MapsInv' /\ ProxiesOwned'
    BY <1>0, <2>1, <2>4, MapsKept, OwnersKept
  <2>6. QED
    BY <2>2, <2>3, <2>5 DEF ProxyInv, MapsInv, OpsInv
<1>4. ASSUME NEW s \in Sessions, NEW key \in Keys, StreamUnregister(s, key) PROVE ProxyInv'
  <2>1. /\ UNCHANGED <<map, nextAgent, index, byToken, nextToken, link, calls, file, inst, op, unsettled>>
        /\ stream' = [stream EXCEPT ![key] = 0] /\ listening' = listening \ {stream[key]}
        /\ unowned' = unowned \ {<<"stream", key>>}
    BY <1>4 DEF StreamUnregister, http, container
  <2>2. /\ stream' \in [Keys -> 0..MaxToken]
        /\ \A k \in Keys : stream'[k] = IF k = key THEN 0 ELSE stream[k]
    BY <1>1, <2>1
  <2>3. listening' \subseteq {stream'[k] : k \in Keys}
    BY <1>1, <2>1, <2>2
  <2>4. TypeOK'
    BY <1>0, <2>1, <2>2 DEF TypeOK
  <2>5. MapsInv'
    BY <1>0, <2>1, MapsKept
  <2>6. OpsInv'
    <3>1. OpsNamed'
      BY <1>0, <2>1 DEF OpsInv, OpsNamed
    <3>2. CallersWait'
      BY <1>0, <2>1 DEF OpsInv, CallersWait
    <3>3. QED
      BY <3>1, <3>2 DEF OpsInv
  <2>7. \A k \in Keys : <<"http", k>> \in unowned => <<"http", k>> \in unowned'
    BY <2>1
  <2>8. ASSUME NEW k \in Keys
        PROVE  \/ stream'[k] = 0 \/ <<"stream", k>> \in unowned'
               \/ stream'[k] = stream[k] /\ <<"stream", k>> \notin unowned
    <3>0. stream'[k] = IF k = key THEN 0 ELSE stream[k]
      BY <2>2
    <3>1. CASE k = key
      BY <3>0, <3>1
    <3>2. CASE k # key
      <4>1. <<"stream", k>> # <<"stream", key>> /\ stream'[k] = stream[k]
        BY <3>0, <3>2
      <4>2. <<"stream", k>> \in unowned => <<"stream", k>> \in unowned'
        BY <2>1, <4>1
      <4>3. QED
        BY <4>1, <4>2
    <3>3. QED
      BY <3>1, <3>2
  <2>9. ProxiesOwned'
    BY <1>0, <2>1, <2>3, <2>7, <2>8, StreamsChanged
  <2>10. QED
    BY <2>4, <2>5, <2>6, <2>9 DEF ProxyInv, MapsInv, OpsInv
<1>5. ASSUME NEW l \in listening, AcceptFails(l) PROVE ProxyInv'
  <2>1. /\ UNCHANGED <<map, nextAgent, index, byToken, nextToken, stream, link, calls, file, inst,
                       op, unowned, unsettled>>
        /\ listening' = listening \ {l}
    BY <1>5 DEF AcceptFails, http, container
  <2>2. TypeOK'
    BY <1>0, <2>1 DEF TypeOK
  <2>3. MapsInv'
    BY <1>0, <2>1, MapsKept
  <2>4. OpsInv'
    BY <1>0, <2>1 DEF OpsInv, OpsNamed, CallersWait
  <2>5. ProxiesOwned'
    BY <1>0, <2>1 DEF ProxiesOwned
  <2>6. QED
    BY <2>2, <2>3, <2>4, <2>5 DEF ProxyInv, MapsInv, OpsInv
<1>6. QED
  BY <1>2, <1>3, <1>4, <1>5

(***************************************************************************)
(* The steps of kill(): the entries of the agent go before anything that   *)
(* would excuse them does.                                                 *)
(***************************************************************************)
LEMMA KillStep ==
    ASSUME ProxyInv, NEW s \in Sessions,
           \/ \E a \in Agents : KillRemove(s, a)
           \/ KillHttp(s) \/ KillStream(s) \/ KillClose(s) \/ KillDestroy(s)
    PROVE  ProxyInv'
<1> USE BoundsAssumption
<1>0. TypeOK /\ MapsInv /\ OpsInv /\ ProxiesOwned
  BY DEF ProxyInv, MapsInv, OpsInv
<1>1. /\ op \in [Sessions -> Op] /\ op[s] \in Op
      /\ stream \in [Keys -> 0..MaxToken] /\ unowned \subseteq Kinds \X Keys
      /\ listening \subseteq {stream[k] : k \in Keys}
  BY <1>0 DEF TypeOK, ProxiesOwned
<1>2. ASSUME NEW a \in Agents, KillRemove(s, a) PROVE ProxyInv'
  <2> DEFINE o == [at |-> "killHttp", agent |-> a, name |-> None, tok |-> 0, known |-> a \in map]
  <2>1. /\ UNCHANGED <<nextAgent, index, byToken, nextToken, stream, listening, link, calls, file,
                       inst, unowned, unsettled>>
        /\ map' = map \ {a} /\ op' = [op EXCEPT ![s] = o] /\ op[s] = Free
    BY <1>2 DEF KillRemove, Become, http, streams, container
  <2>2. o \in Op /\ o.at = "killHttp" /\ o.agent = a
    BY KillIsOp
  <2> HIDE DEF o
  <2>3. OpsInv' /\ op' \in [Sessions -> Op]
    BY <1>0, <2>1, <2>2, FreeIsOp, Proceeds
  <2>4. TypeOK'
    BY <1>0, <2>1, <2>3 DEF TypeOK
  <2>5. MapsInv'
    BY <1>0, <2>1, MapsKept
  <2>6. \A t \in Sessions : op'[t] = IF t = s THEN o ELSE op[t]
    BY <1>1, <2>1
  <2>7. ASSUME NEW k \in Keys, k[1] \notin map'
        PROVE  /\ index[k] # 0 => \/ <<"http", k>> \in unowned
                                  \/ \E t \in Sessions : op'[t].agent = k[1] /\ op'[t].at = "killHttp"
               /\ stream[k] # 0 => \/ <<"stream", k>> \in unowned
                                   \/ \E t \in Sessions : /\ op'[t].agent = k[1]
                                                          /\ op'[t].at \in {"killHttp", "killStream"}
    <3>1. CASE k[1] = a
      BY <2>2, <2>6, <3>1
    <3>2. CASE k[1] # a
      <4>1. k[1] \notin map /\ op[s].at = "free"
        BY <2>1, <2>7, <3>2, FreeIsOp
      <4>2. /\ index[k] # 0 => \/ <<"http", k>> \in unowned
                               \/ \E t \in Sessions : op[t].agent = k[1] /\ op[t].at = "killHttp"
            /\ stream[k] # 0 => \/ <<"stream", k>> \in unowned
                                \/ \E t \in Sessions : /\ op[t].agent = k[1]
                                                       /\ op[t].at \in {"killHttp", "killStream"}
        BY <1>0, <4>1 DEF ProxiesOwned
      <4>3. QED
        BY <2>6, <4>1, <4>2
    <3>3. QED
      BY <3>1, <3>2
  <2>8. ProxiesOwned'
    BY <1>1, <2>1, <2>7 DEF ProxiesOwned
  <2>9. QED
    BY <2>3, <2>4, <2>5, <2>8 DEF ProxyInv, MapsInv, OpsInv
<1> DEFINE a == op[s].agent
<1>3. CASE KillHttp(s)
  <2> DEFINE o == [op[s] EXCEPT !.at = "killStream"]
  <2>1. /\ UNCHANGED <<map, nextAgent, nextToken, stream, listening, link, calls, file, inst, unsettled>>
        /\ Unregister(OfAgent(a)) /\ op' = [op EXCEPT ![s] = o] /\ op[s].at = "killHttp"
        /\ unowned' = unowned \ {<<"http", k>> : k \in OfAgent(a)}
    BY <1>3 DEF KillHttp, Step, Become, streams, container
  <2>2. /\ o \in Op /\ o.at = "killStream" /\ o.agent = a
        /\ OfAgent(a) \in SUBSET Keys /\ a \in Agents
    BY <1>0, <1>1, <2>1 DEF Op, Steps, OfAgent, OpsInv, OpsNamed
  <2> HIDE DEF o
  <2>3. OpsInv' /\ op' \in [Sessions -> Op]
    BY <1>0, <2>1, <2>2, Proceeds
  <2>4. /\ MapsInv'
        /\ index' \in [Keys -> 0..MaxToken] /\ byToken' \subseteq byToken
        /\ \A k \in Keys : index'[k] = IF k \in OfAgent(a) THEN 0 ELSE index[k]
    BY <1>0, <2>1, <2>2, UnregisterKeeps
  <2>5. TypeOK'
    BY <1>0, <2>1, <2>3, <2>4 DEF TypeOK
  <2>6. \A t \in Sessions :
              /\ op[t].at = "killStream" => op'[t] = op[t]
              /\ op[t].at = "killHttp" =>
                    \/ op'[t] = op[t]
                    \/ /\ op'[t].at = "killStream" /\ op'[t].agent = op[t].agent
                       /\ \A k \in Keys : k[1] = op[t].agent => k \in OfAgent(a)
    BY <1>1, <2>1, <2>2 DEF OfAgent
  <2>7. ProxiesOwned'
    BY <1>0, <2>1, <2>2, <2>4, <2>6, HttpDropped
  <2>8. QED
    BY <2>3, <2>4, <2>5, <2>7 DEF ProxyInv, MapsInv, OpsInv
<1>4. CASE KillStream(s)
  <2> DEFINE o == IF op[s].known THEN [op[s] EXCEPT !.at = "killClose"] ELSE Free
  <2>1. /\ UNCHANGED <<map, nextAgent, index, byToken, nextToken, link, calls, file, inst, unsettled>>
        /\ op' = [op EXCEPT ![s] = o] /\ op[s].at = "killStream"
        /\ stream' = [k \in Keys |-> IF k \in OfAgent(a) THEN 0 ELSE stream[k]]
        /\ listening' = listening \ {stream[k] : k \in OfAgent(a)}
        /\ unowned' = unowned \ {<<"stream", k>> : k \in OfAgent(a)}
    BY <1>4 DEF KillStream, Step, Done, Become, http, container
  <2>2. /\ o \in Op /\ (o.at # "free" => o.agent \in Agents) /\ o.at \in {"killClose", "free"}
        /\ OfAgent(a) \in SUBSET Keys
    BY <1>0, <1>1, <2>1, FreeIsOp DEF Op, Steps, OfAgent, OpsInv, OpsNamed
  <2> HIDE DEF o
  <2>3. OpsInv' /\ op' \in [Sessions -> Op]
    BY <1>0, <2>1, <2>2, Proceeds
  <2>4. /\ stream' \in [Keys -> 0..MaxToken]
        /\ \A k \in Keys : stream'[k] = IF k \in OfAgent(a) THEN 0 ELSE stream[k]
    BY <1>1, <2>1
  <2>5. listening' \subseteq {stream'[k] : k \in Keys}
    BY <1>1, <2>1, <2>2, <2>4
  <2>6. TypeOK'
    BY <1>0, <2>1, <2>3, <2>4 DEF TypeOK
  <2>7. MapsInv'
    BY <1>0, <2>1, MapsKept
  <2>8. \A k \in Keys : <<"http", k>> \in unowned => <<"http", k>> \in unowned'
    BY <2>1
  <2>9. \A t \in Sessions : t # s => op'[t] = op[t]
    BY <1>1, <2>1
  <2>10. ASSUME NEW k \in Keys
         PROVE  \/ stream'[k] = 0 \/ <<"stream", k>> \in unowned'
                \/ /\ stream'[k] = stream[k] /\ <<"stream", k>> \notin unowned
                   /\ \A t \in Sessions : op[t].agent = k[1] => op'[t] = op[t]
    <3>1. CASE k \in OfAgent(a)
      BY <2>4, <3>1
    <3>2. CASE k \notin OfAgent(a)
      <4>1. k[1] # a
        BY <3>2 DEF OfAgent
      <4>2. QED
        BY <2>1, <2>4, <2>9, <3>2, <4>1
    <3>3. QED
      BY <3>1, <3>2
  <2>11. \A t \in Sessions : op[t].at = "killHttp" => op'[t] = op[t]
    BY <2>1, <2>9
  <2>12. ProxiesOwned'
    BY <1>0, <2>1, <2>5, <2>8, <2>10, <2>11, StreamsChanged
  <2>13. QED
    BY <2>3, <2>6, <2>7, <2>12 DEF ProxyInv, MapsInv, OpsInv
<1>5. CASE KillClose(s) \/ KillDestroy(s)
  <2>1. UNCHANGED <<map, nextAgent, index, byToken, nextToken, stream, listening, unowned, unsettled>>
        /\ op[s].at \in {"killClose", "killDestroy"} /\ a \in Agents
    BY <1>0, <1>5 DEF KillClose, KillDestroy, gateway, OpsInv, OpsNamed
  <2>2. PICK o \in Op, W \in SUBSET Sessions :
           /\ op' = [t \in Sessions |-> IF t = s THEN o ELSE IF t \in W THEN Closed(op[t]) ELSE op[t]]
           /\ o.at \in {"free", "killDestroy"} /\ (o.at # "free" => o.agent \in Agents)
           /\ \A t \in W : op[t].at \in {"wait", "unwait"}
           /\ KillClose(s) => W = Waiting(a)
    <3>1. CASE KillClose(s)
      <4> DEFINE o == [op[s] EXCEPT !.at = "killDestroy"]
      <4>1. o \in Op /\ o.at = "killDestroy" /\ o.agent = a
        BY <1>1 DEF Op, Steps
      <4>2. op' = [t \in Sessions |-> IF t = s THEN o ELSE IF t \in Waiting(a) THEN Closed(op[t])
                                                            ELSE op[t]]
        BY <3>1 DEF KillClose
      <4> HIDE DEF o
      <4>3. QED
        BY <2>1, <4>1, <4>2 DEF Waiting
    <3>2. CASE KillDestroy(s)
      <4> DEFINE W == {t \in Sessions : op[t].at \in {"wait", "unwait"}}
      <4>1. op' = [t \in Sessions |-> IF t = s THEN Free ELSE IF t \in W THEN Closed(op[t])
                                                              ELSE op[t]]
        BY <3>2 DEF KillDestroy
      <4>2. ~ KillClose(s)
        BY <3>2 DEF KillClose, KillDestroy
      <4>3. QED
        BY <4>1, <4>2, FreeIsOp
    <3>3. QED
      BY <1>5, <3>1, <3>2
  <2>3. \A t \in Sessions : op'[t] = IF t = s THEN o ELSE IF t \in W THEN Closed(op[t]) ELSE op[t]
    BY <2>2
  <2>4. op' \in [Sessions -> Op]
    BY <1>1, <2>2, ClosedGoesOn
  <2>5. OpsNamed'
    <3>1. ASSUME NEW t \in Sessions
          PROVE  /\ op'[t].at # "free" => op'[t].agent \in Agents
                 /\ op'[t].at \in {"insert", "invoke", "wait", "rollback", "bind", "unwait", "drop"}
                       => op'[t].name \in Names
      <4>1. CASE t = s
        BY <2>2, <2>3, <4>1
      <4>2. CASE t # s /\ t \in W
        BY <1>0, <1>1, <2>2, <2>3, <4>2, ClosedGoesOn DEF OpsInv, OpsNamed
      <4>3. CASE t # s /\ t \notin W
        BY <1>0, <2>3, <4>3 DEF OpsInv, OpsNamed
      <4>4. QED
        BY <4>1, <4>2, <4>3
    <3>2. QED
      BY <3>1 DEF OpsNamed
  <2>6. /\ CallersWait' /\ calls' \in [Agents -> Seq(Call)]
        /\ link' \in [Agents -> {"none", "up", "cut", "gone"}]
        /\ file' \in [Sockets -> 0..MaxToken] /\ inst' \in [Instances -> 0..MaxToken]
    <3>1. CASE KillClose(s)
      <4>1. \A t \in Sessions :
               op[t].at \in {"wait", "unwait"} /\ op[t].agent # a => op'[t] = op[t]
        BY <2>1, <2>2, <2>3, <3>1 DEF Waiting
      <4>2. Cut(a) /\ UNCHANGED <<file, inst>>
        BY <3>1 DEF KillClose, container
      <4>3. file \in [Sockets -> 0..MaxToken] /\ inst \in [Instances -> 0..MaxToken]
        BY <1>0 DEF TypeOK
      <4>4. QED
        BY <1>0, <2>1, <4>1, <4>2, <4>3, Cuts
    <3>2. CASE KillDestroy(s)
      <4>1. calls' = [b \in Agents |-> <<>>]
        BY <3>2 DEF KillDestroy
      <4>2. calls' \in [Agents -> Seq(Call)] /\ CallersWait'
        BY <4>1 DEF CallersWait
      <4>3. /\ link' \in [Agents -> {"none", "up", "cut", "gone"}]
            /\ file' \in [Sockets -> 0..MaxToken] /\ inst' \in [Instances -> 0..MaxToken]
        BY <1>0, <3>2 DEF KillDestroy, TypeOK
      <4>4. QED
        BY <4>2, <4>3
    <3>3. QED
      BY <1>5, <3>1, <3>2
  <2>7. TypeOK'
    BY <1>0, <2>1, <2>4, <2>6 DEF TypeOK
  <2>8. \A t \in Sessions : op[t].at \in {"killHttp", "killStream"} => op'[t] = op[t]
    BY <2>1, <2>2, <2>3
  <2>9. MapsInv' /\ ProxiesOwned'
    BY <1>0, <2>1, <2>8, MapsKept, OwnersKept
  <2>10. QED
    BY <2>5, <2>6, <2>7, <2>9 DEF ProxyInv, MapsInv
<1>6. QED
  BY <1>2, <1>3, <1>4, <1>5

(***************************************************************************)
(* The agent's end: ProxyManager and the end of its connection.            *)
(***************************************************************************)
LEMMA AgentStep ==
    ASSUME ProxyInv, NEW a \in Agents, Agent(a)
    PROVE  ProxyInv'
<1> USE BoundsAssumption
<1>0. TypeOK /\ MapsInv /\ OpsInv /\ ProxiesOwned
  BY DEF ProxyInv, MapsInv, OpsInv
<1>1. UNCHANGED <<map, nextAgent, index, byToken, nextToken, stream, listening, unowned>>
  BY DEF Agent, AgentRegisters, AgentRegisterFails, AgentUnregisters, AgentShutdown, gateway
<1>2. /\ file \in [Sockets -> 0..MaxToken] /\ inst \in [Instances -> 0..MaxToken]
      /\ calls \in [Agents -> Seq(Call)] /\ link \in [Agents -> {"none", "up", "cut", "gone"}]
  BY <1>0 DEF TypeOK
<1>3. /\ OpsInv' /\ op' \in [Sessions -> Op] /\ calls' \in [Agents -> Seq(Call)]
      /\ file' \in [Sockets -> 0..MaxToken] /\ inst' \in [Instances -> 0..MaxToken]
      /\ link' \in [Agents -> {"none", "up", "cut", "gone"}]
      /\ \A t \in Sessions : op[t].at \in {"killHttp", "killStream"} => op'[t] = op[t]
  <2>1. CASE AgentRegisters(a) \/ AgentRegisterFails(a) \/ AgentUnregisters(a)
    <3>1. calls[a] # <<>> /\ UNCHANGED link
      BY <2>1 DEF AgentRegisters, AgentRegisterFails, AgentUnregisters, Takes
    <3>2. PICK at \in {"free", "rollback", "drop"} : Answer(a, at)
      BY <2>1 DEF AgentRegisters, AgentRegisterFails, AgentUnregisters
    <3>3. /\ OpsInv' /\ op' \in [Sessions -> Op] /\ calls' \in [Agents -> Seq(Call)]
          /\ \A t \in Sessions : op[t].at \in {"wait", "unwait"} \/ op'[t] = op[t]
      BY <1>0, <3>1, <3>2, Answers
    <3>4. Head1(a) \in Call
      BY <1>2, <3>1 DEF Head1
    <3>5. Head1(a).path \in Sockets /\ Head1(a).tok \in 0..MaxToken
          /\ <<a, Head1(a).path>> \in Instances /\ <<a, Head1(a).path>>[2] = Head1(a).path
      BY <3>4 DEF Call, Instances
    <3>6. file' \in [Sockets -> 0..MaxToken] /\ inst' \in [Instances -> 0..MaxToken]
      <4>1. CASE AgentRegisters(a)
        BY <1>2, <3>5, <4>1 DEF AgentRegisters
      <4>2. CASE AgentRegisterFails(a)
        BY <1>2, <3>5, <4>2 DEF AgentRegisterFails
      <4>3. CASE AgentUnregisters(a)
        BY <1>2, <3>5, <4>3 DEF AgentUnregisters
      <4>4. QED
        BY <2>1, <4>1, <4>2, <4>3
    <3>7. QED
      BY <1>2, <3>1, <3>3, <3>6
  <2>2. CASE AgentShutdown(a)
    <3>1. /\ calls' = [calls EXCEPT ![a] = <<>>] /\ UNCHANGED op
          /\ link' = [link EXCEPT ![a] = "gone"]
          /\ file' = [p \in Sockets |-> IF inst[<<a, p>>] = 0 THEN file[p] ELSE 0]
          /\ inst' = [i \in Instances |-> IF i[1] = a THEN 0 ELSE inst[i]]
      BY <2>2 DEF AgentShutdown
    <3>2. /\ calls' \in [Agents -> Seq(Call)]
          /\ \A b \in Agents : calls'[b] = IF b = a THEN <<>> ELSE calls[b]
      BY <1>2, <3>1
    <3>3. CallersWait'
      BY <1>0, <3>1, <3>2 DEF OpsInv, CallersWait
    <3>4. OpsNamed' /\ op' \in [Sessions -> Op]
      BY <1>0, <3>1 DEF OpsInv, OpsNamed, TypeOK
    <3>5. QED
      BY <1>2, <3>1, <3>2, <3>3, <3>4 DEF OpsInv, Instances
  <2>3. QED
    BY <2>1, <2>2 DEF Agent
<1>4. TypeOK'
  <2>1. UNCHANGED unsettled \/ unsettled' = unsettled \cup Sharing(Head1(a).path)
    BY DEF Agent, AgentRegisters, AgentRegisterFails, AgentUnregisters, AgentShutdown
  <2>2. unsettled' \subseteq Keys
    BY <1>0, <2>1 DEF TypeOK, Sharing
  <2>3. QED
    BY <1>0, <1>1, <1>3, <2>2 DEF TypeOK
<1>5. MapsInv' /\ ProxiesOwned'
  BY <1>0, <1>1, <1>3, MapsKept, OwnersKept
<1>6. QED
  BY <1>3, <1>4, <1>5 DEF ProxyInv, MapsInv, OpsInv

(***************************************************************************)
(* No interleaving of requests, kills, detaches, lost connections and the  *)
(* agent's own steps breaks ProxyInv.                                      *)
(***************************************************************************)
THEOREM ProxyInvariant == Spec => []ProxyInv
<1> USE BoundsAssumption
<1>1. ASSUME Init PROVE ProxyInv
  <2>1. /\ index \in [Keys -> 0..MaxToken] /\ stream \in [Keys -> 0..MaxToken]
        /\ inst \in [Instances -> 0..MaxToken] /\ file \in [Sockets -> 0..MaxToken]
        /\ link \in [Agents -> {"none", "up", "cut", "gone"}]
        /\ calls \in [Agents -> Seq(Call)] /\ op \in [Sessions -> Op]
        /\ nextAgent \in 1..(MaxAgents + 1) /\ nextToken \in 1..(MaxToken + 1)
    BY <1>1, FreeIsOp DEF Init
  <2>2. map = {} /\ byToken = {} /\ listening = {} /\ unowned = {} /\ unsettled = {}
    BY <1>1 DEF Init
  <2>3. TypeOK
    BY <2>1, <2>2, Zenon DEF TypeOK
  <2>4. OpsNamed /\ CallersWait
    BY <1>1, FreeIsOp DEF Init, OpsNamed, CallersWait
  <2>5. TokensOnce /\ IndexExact /\ ProxiesOwned
    BY <1>1 DEF Init, TokensOnce, IndexExact, ProxiesOwned
  <2>6. QED
    BY <2>3, <2>4, <2>5 DEF ProxyInv
<1>2. ASSUME ProxyInv, UNCHANGED vars PROVE ProxyInv'
  <2>1. UNCHANGED <<map, nextAgent, index, byToken, nextToken, stream, listening, link, calls,
                    file, inst, op, unowned, unsettled>>
    BY <1>2 DEF vars, gateway, container
  <2>2. TypeOK'
    BY <1>2, <2>1 DEF ProxyInv, TypeOK
  <2>3. OpsNamed' /\ CallersWait'
    <3>1. OpsNamed'
      BY <1>2, <2>1 DEF ProxyInv, OpsNamed
    <3>2. CallersWait'
      BY <1>2, <2>1 DEF ProxyInv, CallersWait
    <3>3. QED
      BY <3>1, <3>2
  <2>4. TokensOnce' /\ IndexExact' /\ ProxiesOwned'
    BY <1>2, <2>1 DEF ProxyInv, TokensOnce, IndexExact, ProxiesOwned
  <2>5. QED
    BY <2>2, <2>3, <2>4 DEF ProxyInv
<1>3. ASSUME ProxyInv, Next PROVE ProxyInv'
  <2>1. ASSUME NEW s \in Sessions, Request(s) PROVE ProxyInv'
    BY <1>3, <2>1, BeginStep, AgentsStep, KillStep, StreamStep DEF Request
  <2>2. ASSUME NEW s \in Sessions, Proceed(s) PROVE ProxyInv'
    BY <1>3, <2>2, HttpStep, StreamStep, KillStep DEF Proceed
  <2>3. QED
    BY <1>3, <2>1, <2>2, AgentsStep, AgentStep, StreamStep DEF Next
<1>4. QED
  BY <1>1, <1>2, <1>3, PTL DEF Spec

(***************************************************************************)
(* The two maps of the gateway's ProxyRegistry always agree, so the URL of *)
(* a replaced or dropped registration leads nowhere.                       *)
(***************************************************************************)
THEOREM MapsAgree == Spec => []IndexExact
<1>1. ProxyInv => IndexExact
  BY DEF ProxyInv
<1>2. QED
  BY <1>1, ProxyInvariant, PTL

(***************************************************************************)
(* Every proxy entry and every accept loop has somebody who will clear it, *)
(* or is one of the entries that detach() and late registrations leave.    *)
(***************************************************************************)
THEOREM EntriesOwned == Spec => []ProxiesOwned
<1>1. ProxyInv => ProxiesOwned
  BY DEF ProxyInv
<1>2. QED
  BY <1>1, ProxyInvariant, PTL

=============================================================================
