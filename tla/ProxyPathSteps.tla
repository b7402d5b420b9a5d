--------------------------- MODULE ProxyPathSteps ---------------------------
(***************************************************************************)
(* What the pieces of a step of ProxyPath preserve: the two maps of the    *)
(* registry, the calls to the agents, and the requests that begin.  The    *)
(* steps built from them, and the theorems, are in ProxyPathProofs.        *)
(***************************************************************************)
EXTENDS ProxyPath, TLAPS

\* The two maps of the ProxyRegistry, and the requests with the calls they made.
MapsInv == TokensOnce /\ IndexExact
OpsInv == OpsNamed /\ CallersWait

(***************************************************************************)
(* unregister() and cleanup_for_agent() take a token out of by_token       *)
(* exactly when they take its key out of index.                            *)
(***************************************************************************)
LEMMA UnregisterKeeps ==
    ASSUME TypeOK, MapsInv, NEW ks \in SUBSET Keys, Unregister(ks), UNCHANGED nextToken
    PROVE  /\ MapsInv'
           /\ index' \in [Keys -> 0..MaxToken] /\ byToken' \subseteq byToken
           /\ \A k \in Keys : index'[k] = IF k \in ks THEN 0 ELSE index[k]
<1>1. /\ index \in [Keys -> 0..MaxToken] /\ nextToken \in 1..(MaxToken + 1)
      /\ MaxToken \in Nat
  BY BoundsAssumption DEF TypeOK
<1>2. /\ index' \in [Keys -> 0..MaxToken]
      /\ \A k \in Keys : index'[k] = IF k \in ks THEN 0 ELSE index[k]
      /\ byToken' = {e \in byToken : \A k \in ks : e.tok # index[k]}
  BY <1>1 DEF Unregister
<1>3. TokensOnce'
  BY <1>1, <1>2 DEF MapsInv, TokensOnce
<1>4. ASSUME NEW e
      PROVE  e \in byToken' <=> \E k \in Keys : /\ index'[k] # 0
                                                /\ e = [tok |-> index'[k], agent |-> k[1], name |-> k[2]]
  <2>1. e \in byToken <=> \E k \in Keys : /\ index[k] # 0
                                         /\ e = [tok |-> index[k], agent |-> k[1], name |-> k[2]]
    BY DEF MapsInv, IndexExact
  <2>2. ASSUME e \in byToken'
        PROVE  \E k \in Keys : /\ index'[k] # 0
                               /\ e = [tok |-> index'[k], agent |-> k[1], name |-> k[2]]
    <3>1. PICK k \in Keys : index[k] # 0 /\ e = [tok |-> index[k], agent |-> k[1], name |-> k[2]]
      BY <1>2, <2>1, <2>2
    <3>2. k \notin ks
      BY <1>2, <2>2, <3>1
    <3>3. QED
      BY <1>2, <3>1, <3>2
  <2>3. ASSUME NEW k \in Keys, index'[k] # 0,
               e = [tok |-> index'[k], agent |-> k[1], name |-> k[2]]
        PROVE  e \in byToken'
    <3>1. k \notin ks /\ index'[k] = index[k]
      BY <1>2, <2>3
    <3>2. e \in byToken /\ e.tok = index[k]
      BY <2>1, <2>3, <3>1
    <3>3. \A l \in ks : index[l] # index[k]
      BY <2>3, <3>1 DEF MapsInv, TokensOnce
    <3>4. QED
      BY <1>2, <3>2, <3>3
  <2>4. QED
    BY <2>2, <2>3
<1>5. IndexExact'
  BY <1>4 DEF IndexExact
<1>6. QED
  BY <1>2, <1>3, <1>5 DEF MapsInv

(***************************************************************************)
(* register() replaces the token of the key in both maps.                  *)
(***************************************************************************)
LEMMA RegisterKeeps ==
    ASSUME TypeOK, MapsInv, NEW a \in Agents, NEW n \in Names, nextToken <= MaxToken,
           index' = [index EXCEPT ![<<a, n>>] = nextToken],
           byToken' = {e \in byToken : e.tok # index[<<a, n>>]}
                      \cup {[tok |-> nextToken, agent |-> a, name |-> n]},
           nextToken' = nextToken + 1
    PROVE  /\ MapsInv'
           /\ index' \in [Keys -> 0..MaxToken] /\ nextToken' \in 1..(MaxToken + 1)
           /\ byToken' \subseteq [tok : Tokens, agent : Agents, name : Names]
           /\ \A k \in Keys : index'[k] = IF k = <<a, n>> THEN nextToken ELSE index[k]
<1> DEFINE key == <<a, n>>
           new == [tok |-> nextToken, agent |-> a, name |-> n]
<1>1. /\ index \in [Keys -> 0..MaxToken] /\ nextToken \in 1..(MaxToken + 1)
      /\ MaxToken \in Nat /\ key \in Keys /\ key[1] = a /\ key[2] = n
      /\ byToken \subseteq [tok : Tokens, agent : Agents, name : Names]
  BY BoundsAssumption DEF TypeOK, Keys
<1>2. /\ index' \in [Keys -> 0..MaxToken] /\ nextToken' \in 1..(MaxToken + 1)
      /\ \A k \in Keys : index'[k] = IF k = key THEN nextToken ELSE index[k]
  BY <1>1
<1>3. new \in [tok : Tokens, agent : Agents, name : Names]
  BY <1>1 DEF Tokens
<1>4. byToken' \subseteq [tok : Tokens, agent : Agents, name : Names]
  BY <1>1, <1>3
<1>5. TokensOnce'
  BY <1>1, <1>2 DEF MapsInv, TokensOnce
<1> HIDE DEF key, new
<1>6. ASSUME NEW e
      PROVE  e \in byToken' <=> \E k \in Keys : /\ index'[k] # 0
                                                /\ e = [tok |-> index'[k], agent |-> k[1], name |-> k[2]]
  <2>1. e \in byToken <=> \E k \in Keys : /\ index[k] # 0
                                         /\ e = [tok |-> index[k], agent |-> k[1], name |-> k[2]]
    BY DEF MapsInv, IndexExact
  <2>2. e = new <=> e = [tok |-> index'[key], agent |-> key[1], name |-> key[2]]
    BY <1>1, <1>2 DEF new
  <2>3. index'[key] # 0
    BY <1>1, <1>2
  <2>4. ASSUME NEW k \in Keys, k # key, index[k] # 0,
               e = [tok |-> index[k], agent |-> k[1], name |-> k[2]]
        PROVE  e.tok # index[key]
    BY <1>1, <2>4 DEF MapsInv, TokensOnce
  <2>5. ASSUME e \in byToken, e.tok # index[key]
        PROVE  \E k \in Keys : k # key /\ index[k] # 0
                               /\ e = [tok |-> index[k], agent |-> k[1], name |-> k[2]]
    BY <2>1, <2>5
  <2>6. e \in byToken' <=> (e \in byToken /\ e.tok # index[key]) \/ e = new
    BY DEF key, new
  <2>7. QED
    BY <1>1, <1>2, <2>1, <2>2, <2>3, <2>4, <2>5, <2>6
<1>7. IndexExact'
  BY <1>6 DEF IndexExact
<1>8. QED
  BY <1>2, <1>4, <1>5, <1>7 DEF MapsInv, key

(***************************************************************************)
(* A session that is not waiting may go on to any step that has what it    *)
(* needs; nobody owes it an answer.                                        *)
(***************************************************************************)
LEMMA Proceeds ==
    ASSUME TypeOK, OpsInv, NEW s \in Sessions, NEW o \in Op,
           op[s].at \notin {"wait", "unwait"},
           op' = [op EXCEPT ![s] = o], UNCHANGED calls,
           o.at # "free" => o.agent \in Agents,
           o.at \in {"insert", "invoke", "wait", "rollback", "bind", "unwait", "drop"}
               => o.name \in Names
    PROVE  OpsInv' /\ op' \in [Sessions -> Op]
<1>1. op \in [Sessions -> Op] /\ \A t \in Sessions : op'[t] = IF t = s THEN o ELSE op[t]
  BY DEF TypeOK
<1>2. op' \in [Sessions -> Op] /\ OpsNamed'
  BY <1>1 DEF OpsInv, OpsNamed
<1>3. CallersWait'
  BY <1>1 DEF OpsInv, CallersWait
<1>4. QED
  BY <1>2, <1>3 DEF OpsInv

(***************************************************************************)
(* A call is queued for the session that then waits for its answer.        *)
(***************************************************************************)
LEMMA Calls ==
    ASSUME TypeOK, OpsInv, NEW s \in Sessions, NEW o \in Op, NEW a \in Agents, NEW c \in Call,
           op[s].at \notin {"wait", "unwait"}, c.by = s,
           op' = [op EXCEPT ![s] = o], calls' = [calls EXCEPT ![a] = Append(@, c)],
           o.agent = a, o.name \in Names, o.at \in {"wait", "unwait"}
    PROVE  OpsInv' /\ op' \in [Sessions -> Op] /\ calls' \in [Agents -> Seq(Call)]
<1>1. op \in [Sessions -> Op] /\ \A t \in Sessions : op'[t] = IF t = s THEN o ELSE op[t]
  BY DEF TypeOK
<1>2. op' \in [Sessions -> Op] /\ OpsNamed'
  BY <1>1 DEF OpsInv, OpsNamed
<1>3. calls \in [Agents -> Seq(Call)]
  BY DEF TypeOK
<1>4. calls[a] \in Seq(Call) /\ Append(calls[a], c) \in Seq(Call)
  BY <1>3
<1>5. calls' \in [Agents -> Seq(Call)]
      /\ \A b \in Agents : calls'[b] = IF b = a THEN Append(calls[a], c) ELSE calls[b]
  BY <1>3, <1>4
<1>6. /\ DOMAIN calls[a] = 1..Len(calls[a]) /\ Len(calls[a]) \in Nat
      /\ DOMAIN calls'[a] = 1..(Len(calls[a]) + 1)
      /\ \A i \in DOMAIN calls[a] : calls'[a][i] = calls[a][i]
      /\ calls'[a][Len(calls[a]) + 1] = c
  BY <1>4, <1>5
<1>7. \A b \in Agents : \A i \in DOMAIN calls[b] : calls[b][i].by # s
  BY DEF OpsInv, CallersWait
<1>8. ASSUME NEW b \in Agents, NEW i \in DOMAIN calls'[b], NEW t \in Sessions,
             calls'[b][i].by = t
      PROVE  /\ op'[t].agent = b /\ op'[t].at \in {"wait", "unwait"}
             /\ \A j \in DOMAIN calls'[b] : calls'[b][j].by = t => j = i
  <2>1. CASE b # a
    <3>1. calls'[b] = calls[b]
      BY <1>5, <2>1
    <3>2. t # s
      BY <1>7, <1>8, <3>1
    <3>3. QED
      BY <1>1, <1>8, <3>1, <3>2 DEF OpsInv, CallersWait
  <2>2. CASE b = a /\ i = Len(calls[a]) + 1
    <3>1. t = s
      BY <1>6, <1>8, <2>2
    <3>2. \A j \in DOMAIN calls'[a] : calls'[a][j].by = s => j = i
      BY <1>6, <1>7, <2>2
    <3>3. QED
      BY <1>1, <2>2, <3>1, <3>2
  <2>3. CASE b = a /\ i # Len(calls[a]) + 1
    <3>1. i \in DOMAIN calls[a] /\ calls'[a][i] = calls[a][i]
      BY <1>6, <2>3
    <3>2. t # s /\ calls[a][i].by = t
      BY <1>7, <1>8, <2>3, <3>1
    <3>3. op[t].agent = a /\ op[t].at \in {"wait", "unwait"}
          /\ \A j \in DOMAIN calls[a] : calls[a][j].by = t => j = i
      BY <3>1, <3>2 DEF OpsInv, CallersWait
    <3>4. \A j \in DOMAIN calls'[a] : calls'[a][j].by = t => j = i
      BY <1>6, <3>2, <3>3
    <3>5. QED
      BY <1>1, <2>3, <3>2, <3>3, <3>4
  <2>4. QED
    BY <2>1, <2>2, <2>3
<1>9. CallersWait'
  BY <1>8 DEF CallersWait
<1>10. QED
  BY <1>2, <1>5, <1>9 DEF OpsInv

(***************************************************************************)
(* The state of a session that begins a kill.                              *)
(***************************************************************************)
LEMMA KillIsOp ==
    ASSUME NEW a \in Agents, NEW m
    PROVE  [at |-> "killHttp", agent |-> a, name |-> None, tok |-> 0, known |-> a \in m] \in Op
<1>1. a \in 0..MaxAgents /\ 0 \in 0..MaxToken /\ "killHttp" \in Steps
  BY BoundsAssumption DEF Agents, Steps
<1>2. QED
  BY <1>1 DEF Op

(***************************************************************************)
(* The state of a session without a request.                               *)
(***************************************************************************)
LEMMA FreeIsOp == Free \in Op /\ Free.at = "free"
  BY BoundsAssumption DEF Free, Op, Steps

(***************************************************************************)
(* An answer goes to one caller, which goes on; the rest of the queue is   *)
(* owed to others.                                                         *)
(***************************************************************************)
LEMMA Answers ==
    ASSUME TypeOK, OpsInv, NEW a \in Agents, calls[a] # <<>>,
           NEW at \in {"free", "rollback", "drop"}, Answer(a, at)
    PROVE  /\ OpsInv' /\ op' \in [Sessions -> Op] /\ calls' \in [Agents -> Seq(Call)]
           /\ \A t \in Sessions : op[t].at \in {"wait", "unwait"} \/ op'[t] = op[t]
<1>1. op \in [Sessions -> Op] /\ calls \in [Agents -> Seq(Call)]
  BY DEF TypeOK
<1> DEFINE q == Tail(calls[a])
<1>2. /\ calls[a] \in Seq(Call) /\ Head(calls[a]) = calls[a][1] /\ 1 \in DOMAIN calls[a]
      /\ q \in Seq(Call)
      /\ \A i \in DOMAIN q : i + 1 \in DOMAIN calls[a] /\ q[i] = calls[a][i + 1]
                            /\ i \in Nat /\ i # 0
  BY <1>1
<1>3. /\ calls' \in [Agents -> Seq(Call)]
      /\ \A b \in Agents : calls'[b] = IF b = a THEN q ELSE calls[b]
  BY <1>1, <1>2 DEF Answer
<1> HIDE DEF q
<1>4. \A t \in Sessions :
        op'[t] = IF t # calls[a][1].by THEN op[t]
                 ELSE IF at = "free" THEN Free ELSE [op[t] EXCEPT !.at = at]
  BY <1>2 DEF Answer, Head1
<1>5. ASSUME NEW t \in Sessions, t = calls[a][1].by
      PROVE  /\ op[t].at \in {"wait", "unwait"} /\ op[t].agent = a /\ op[t].name \in Names
             /\ \A j \in DOMAIN calls[a] : calls[a][j].by = t => j = 1
  BY <1>2, <1>5 DEF OpsInv, OpsNamed, CallersWait
<1>6. at \in Steps
  BY DEF Steps
<1>7. ASSUME NEW t \in Sessions
      PROVE  /\ op'[t] \in Op
             /\ t = calls[a][1].by /\ at # "free" => /\ op'[t].at = at
                                                    /\ op'[t].agent = op[t].agent
                                                    /\ op'[t].name = op[t].name
  <2> DEFINE o == [op[t] EXCEPT !.at = at]
  <2>1. op[t] \in Op
    BY <1>1
  <2>2. o \in Op /\ o.at = at /\ o.agent = op[t].agent /\ o.name = op[t].name
    BY <1>6, <2>1 DEF Op
  <2>3. op'[t] \in {op[t], Free, o} /\ (t = calls[a][1].by /\ at # "free" => op'[t] = o)
    BY <1>4
  <2> HIDE DEF o
  <2>4. QED
    BY <2>1, <2>2, <2>3, FreeIsOp
<1>8. op' \in [Sessions -> Op]
  <2>1. op' = [t \in Sessions |-> op'[t]]
    BY DEF Answer
  <2>2. QED
    BY <1>7, <2>1
<1>9. OpsNamed'
  <2>1. ASSUME NEW t \in Sessions
        PROVE /\ op'[t].at # "free" => op'[t].agent \in Agents
              /\ op'[t].at \in {"insert", "invoke", "wait", "rollback", "bind", "unwait", "drop"}
                    => op'[t].name \in Names
    <3>1. CASE t # calls[a][1].by
      BY <1>4, <3>1 DEF OpsInv, OpsNamed
    <3>2. CASE t = calls[a][1].by /\ at = "free"
      BY <1>4, FreeIsOp, <3>2
    <3>3. CASE t = calls[a][1].by /\ at # "free"
      BY <1>1, <1>4, <1>5, <1>7, <3>3
    <3>4. QED
      BY <3>1, <3>2, <3>3
  <2>2. QED
    BY <2>1 DEF OpsNamed
<1>10. ASSUME NEW b \in Agents, NEW i \in DOMAIN calls'[b], NEW t \in Sessions,
              calls'[b][i].by = t
       PROVE  /\ op'[t].agent = b /\ op'[t].at \in {"wait", "unwait"}
              /\ \A j \in DOMAIN calls'[b] : calls'[b][j].by = t => j = i
  <2>1. CASE b = a
    <3>1. /\ i + 1 \in DOMAIN calls[a] /\ calls[a][i + 1].by = t /\ i + 1 # 1
      BY <1>2, <1>3, <1>10, <2>1
    <3>2. t # calls[a][1].by
      BY <1>5, <3>1
    <3>3. op[t].agent = a /\ op[t].at \in {"wait", "unwait"}
          /\ \A j \in DOMAIN calls[a] : calls[a][j].by = t => j = i + 1
      BY <3>1 DEF OpsInv, CallersWait
    <3>4. \A j \in DOMAIN calls'[a] : calls'[a][j].by = t => j + 1 = i + 1
      BY <1>2, <1>3, <3>3
    <3>5. \A j \in DOMAIN calls'[a] : calls'[a][j].by = t => j = i
      BY <1>2, <1>3, <2>1, <3>4
    <3>6. QED
      BY <1>4, <2>1, <3>2, <3>3, <3>5
  <2>2. CASE b # a
    <3>1. calls'[b] = calls[b]
      BY <1>3, <2>2
    <3>2. op[t].agent = b /\ op[t].at \in {"wait", "unwait"}
          /\ \A j \in DOMAIN calls[b] : calls[b][j].by = t => j = i
      BY <1>10, <3>1 DEF OpsInv, CallersWait
    <3>3. t # calls[a][1].by
      BY <1>5, <2>2, <3>2
    <3>4. QED
      BY <1>4, <3>1, <3>2, <3>3
  <2>3. QED
    BY <2>1, <2>2
<1>11. CallersWait'
  BY <1>10 DEF CallersWait
<1>12. QED
  BY <1>3, <1>4, <1>5, <1>8, <1>9, <1>11 DEF OpsInv

(***************************************************************************)
(* When a connection is cut, nobody is owed an answer on it any more.      *)
(***************************************************************************)
LEMMA Cuts ==
    ASSUME TypeOK, OpsInv, NEW a \in Agents, Cut(a),
           \A t \in Sessions :
               op[t].at \in {"wait", "unwait"} /\ op[t].agent # a => op'[t] = op[t]
    PROVE  /\ CallersWait' /\ calls' \in [Agents -> Seq(Call)]
           /\ link' \in [Agents -> {"none", "up", "cut", "gone"}]
<1>1. calls \in [Agents -> Seq(Call)] /\ link \in [Agents -> {"none", "up", "cut", "gone"}]
  BY DEF TypeOK
<1>2. link' \in [Agents -> {"none", "up", "cut", "gone"}]
  BY <1>1 DEF Cut
<1> DEFINE q == Forget(calls[a])
<1>3. calls[a] \in Seq(Call) /\ DOMAIN calls[a] = 1..Len(calls[a]) /\ Len(calls[a]) \in Nat
  BY <1>1
<1>4. ASSUME NEW i \in 1..Len(calls[a])
      PROVE  [calls[a][i] EXCEPT !.by = None] \in Call /\ [calls[a][i] EXCEPT !.by = None].by = None
  <2>1. calls[a][i] \in Call
    BY <1>3
  <2>2. QED
    BY <2>1 DEF Call
<1>5. q = [i \in 1..Len(calls[a]) |-> [calls[a][i] EXCEPT !.by = None]]
  BY <1>3 DEF Forget
<1>6. q \in Seq(Call) /\ \A i \in DOMAIN q : q[i].by = None
  BY <1>3, <1>4, <1>5
<1> HIDE DEF q
<1>7. calls' = [calls EXCEPT ![a] = q]
  BY DEF Cut, q
<1>8. /\ calls' \in [Agents -> Seq(Call)]
      /\ \A b \in Agents : calls'[b] = IF b = a THEN q ELSE calls[b]
  BY <1>1, <1>6, <1>7
<1>9. ASSUME NEW b \in Agents, NEW i \in DOMAIN calls'[b], NEW t \in Sessions,
             calls'[b][i].by = t
      PROVE  /\ op'[t].agent = b /\ op'[t].at \in {"wait", "unwait"}
             /\ \A j \in DOMAIN calls'[b] : calls'[b][j].by = t => j = i
  <2>1. b # a
    BY <1>6, <1>8, <1>9, BoundsAssumption
  <2>2. calls'[b] = calls[b]
    BY <1>8, <2>1
  <2>3. op[t].agent = b /\ op[t].at \in {"wait", "unwait"}
        /\ \A j \in DOMAIN calls[b] : calls[b][j].by = t => j = i
    BY <1>9, <2>2 DEF OpsInv, CallersWait
  <2>4. QED
    BY <2>1, <2>2, <2>3
<1>10. CallersWait'
  BY <1>9 DEF CallersWait
<1>11. QED
  BY <1>2, <1>8, <1>10

(***************************************************************************)
(* A caller told that the connection is closed goes on to drop its         *)
(* registration.                                                           *)
(***************************************************************************)
LEMMA ClosedGoesOn ==
    ASSUME NEW o \in Op
    PROVE  /\ Closed(o) \in Op /\ Closed(o).at \in {"rollback", "drop"}
           /\ Closed(o).agent = o.agent /\ Closed(o).name = o.name
  BY DEF Closed, Op, Steps

(***************************************************************************)
(* Entries keep their owner while no entry, agent or kill changes.         *)
(***************************************************************************)
LEMMA OwnersKept ==
    ASSUME ProxiesOwned, UNCHANGED <<index, stream, listening, unowned>>, map \subseteq map',
           \A t \in Sessions : op[t].at \in {"killHttp", "killStream"} => op'[t] = op[t]
    PROVE  ProxiesOwned'
  BY DEF ProxiesOwned

(***************************************************************************)
(* The two maps stay right while neither changes.                          *)
(***************************************************************************)
LEMMA MapsKept == MapsInv /\ UNCHANGED <<index, byToken, nextToken>> => MapsInv'
  BY DEF MapsInv, TokensOnce, IndexExact

(***************************************************************************)
(* Agents come and go: spawn, detach() and lost connections.               *)
(***************************************************************************)
LEMMA AgentsStep ==
    ASSUME ProxyInv,
           \/ Attach
           \/ \E a \in Agents : LinkLost(a)
           \/ \E s \in Sessions, a \in Agents : Detach(s, a)
    PROVE  ProxyInv'
<1> USE BoundsAssumption
<1>0. TypeOK /\ MapsInv /\ OpsInv /\ ProxiesOwned
  BY DEF ProxyInv, MapsInv, OpsInv
<1>1. CASE Attach
  <2>1. /\ UNCHANGED <<index, byToken, nextToken, stream, listening, calls, file, inst, op,
                       unowned, unsettled>>
        /\ map' = map \cup {nextAgent} /\ nextAgent' = nextAgent + 1 /\ nextAgent <= MaxAgents
        /\ link' = [link EXCEPT ![nextAgent] = "up"]
    BY <1>1 DEF Attach, http, streams, container
  <2>2. TypeOK'
    BY <1>0, <2>1, SMTT(30) DEF TypeOK, Agents
  <2>3. MapsInv' /\ ProxiesOwned'
    BY <1>0, <2>1, MapsKept, OwnersKept
  <2>4. OpsInv'
    BY <1>0, <2>1 DEF OpsInv, OpsNamed, CallersWait
  <2>5. QED
    BY <2>2, <2>3, <2>4 DEF ProxyInv, MapsInv, OpsInv
<1>2. ASSUME NEW a \in Agents, Cut(a),
             op' = [t \in Sessions |-> IF t \in Waiting(a) THEN Closed(op[t]) ELSE op[t]]
      PROVE  /\ OpsInv' /\ op' \in [Sessions -> Op] /\ calls' \in [Agents -> Seq(Call)]
             /\ link' \in [Agents -> {"none", "up", "cut", "gone"}]
             /\ \A t \in Sessions : op[t].at \in {"killHttp", "killStream"} => op'[t] = op[t]
  <2>1. op \in [Sessions -> Op]
    BY <1>0 DEF TypeOK
  <2>2. op' \in [Sessions -> Op]
    BY <1>2, <2>1, ClosedGoesOn
  <2>3. \A t \in Sessions : op'[t] = IF t \in Waiting(a) THEN Closed(op[t]) ELSE op[t]
    BY <1>2
  <2>4. \A t \in Sessions :
          /\ op[t].at \in {"wait", "unwait"} /\ op[t].agent # a => op'[t] = op[t]
          /\ op[t].at \in {"killHttp", "killStream"} => op'[t] = op[t]
    BY <2>3 DEF Waiting
  <2>5. /\ CallersWait' /\ calls' \in [Agents -> Seq(Call)]
        /\ link' \in [Agents -> {"none", "up", "cut", "gone"}]
    BY <1>0, <1>2, <2>4, Cuts
  <2>6. ASSUME NEW t \in Sessions
        PROVE  /\ op'[t].at # "free" => op'[t].agent \in Agents
               /\ op'[t].at \in {"insert", "invoke", "wait", "rollback", "bind", "unwait", "drop"}
                     => op'[t].name \in Names
    <3>1. CASE t \in Waiting(a)
      BY <1>0, <2>1, <2>3, <3>1, ClosedGoesOn DEF Waiting, OpsInv, OpsNamed
    <3>2. CASE t \notin Waiting(a)
      BY <1>0, <2>3, <3>2 DEF OpsInv, OpsNamed
    <3>3. QED
      BY <3>1, <3>2
  <2>7. QED
    BY <2>2, <2>4, <2>5, <2>6 DEF OpsInv, OpsNamed
<1>3. ASSUME NEW a \in Agents, LinkLost(a) PROVE ProxyInv'
  <2>1. UNCHANGED <<map, nextAgent, index, byToken, nextToken, stream, listening, file, inst,
                    unowned, unsettled>>
    BY <1>3 DEF LinkLost, gateway, container
  <2>2. /\ OpsInv' /\ op' \in [Sessions -> Op] /\ calls' \in [Agents -> Seq(Call)]
        /\ link' \in [Agents -> {"none", "up", "cut", "gone"}]
        /\ \A t \in Sessions : op[t].at \in {"killHttp", "killStream"} => op'[t] = op[t]
    BY <1>2, <1>3 DEF LinkLost
  <2>3. TypeOK'
    BY <1>0, <2>1, <2>2 DEF TypeOK
  <2>4. MapsInv' /\ ProxiesOwned'
    BY <1>0, <2>1, <2>2, MapsKept, OwnersKept
  <2>5. QED
    BY <2>2, <2>3, <2>4 DEF ProxyInv, MapsInv, OpsInv
<1>4. ASSUME NEW s \in Sessions, NEW a \in Agents, Detach(s, a) PROVE ProxyInv'
  <2>1. /\ UNCHANGED <<nextAgent, index, byToken, nextToken, stream, listening, file, inst, unsettled>>
        /\ map' = map \ {a}
        /\ unowned' = unowned
             \cup {<<"http", k>> : k \in {k \in OfAgent(a) : index[k] # 0}}
             \cup {<<"stream", k>> : k \in {k \in OfAgent(a) : stream[k] # 0}}
    BY <1>4 DEF Detach, http, streams, container
  <2>2. /\ OpsInv' /\ op' \in [Sessions -> Op] /\ calls' \in [Agents -> Seq(Call)]
        /\ link' \in [Agents -> {"none", "up", "cut", "gone"}]
        /\ \A t \in Sessions : op[t].at \in {"killHttp", "killStream"} => op'[t] = op[t]
    BY <1>2, <1>4 DEF Detach
  <2>3. unowned' \subseteq Kinds \X Keys
    <3>1. unowned \subseteq Kinds \X Keys
      BY <1>0 DEF TypeOK
    <3>2. \A k \in OfAgent(a) : <<"http", k>> \in Kinds \X Keys /\ <<"stream", k>> \in Kinds \X Keys
      BY DEF Kinds, OfAgent
    <3>3. QED
      BY <2>1, <3>1, <3>2, ZenonT(30)
  <2>4. TypeOK'
    BY <1>0, <2>1, <2>2, <2>3 DEF TypeOK
  <2>5. MapsInv'
    BY <1>0, <2>1, MapsKept
  <2>6. ASSUME NEW k \in Keys, k[1] \notin map'
        PROVE  /\ index'[k] # 0 => \/ <<"http", k>> \in unowned'
                                   \/ \E t \in Sessions : op'[t].agent = k[1] /\ op'[t].at = "killHttp"
               /\ stream'[k] # 0 => \/ <<"stream", k>> \in unowned'
                                    \/ \E t \in Sessions : /\ op'[t].agent = k[1]
                                                           /\ op'[t].at \in {"killHttp", "killStream"}
    <3>1. CASE k[1] = a
      BY <2>1, <3>1 DEF OfAgent
    <3>2. CASE k[1] # a
      <4>1. k[1] \notin map
        BY <2>1, <2>6, <3>2
      <4>2. unowned \subseteq unowned' /\ index'[k] = index[k] /\ stream'[k] = stream[k]
        BY <2>1
      <4>3. /\ index[k] # 0 => \/ <<"http", k>> \in unowned
                               \/ \E t \in Sessions : op[t].agent = k[1] /\ op[t].at = "killHttp"
            /\ stream[k] # 0 => \/ <<"stream", k>> \in unowned
                                \/ \E t \in Sessions : /\ op[t].agent = k[1]
                                                       /\ op[t].at \in {"killHttp", "killStream"}
        BY <1>0, <4>1 DEF ProxiesOwned
      <4>4. QED
        BY <2>2, <4>2, <4>3
    <3>3. QED
      BY <3>1, <3>2
  <2>7. ProxiesOwned'
    <3>1. listening' \subseteq {stream'[k] : k \in Keys}
      BY <1>0, <2>1 DEF ProxiesOwned
    <3>2. QED
      BY <2>6, <3>1 DEF ProxiesOwned
  <2>8. QED
    BY <2>2, <2>4, <2>5, <2>7 DEF ProxyInv, MapsInv, OpsInv
<1>5. QED
  BY <1>1, <1>3, <1>4

(***************************************************************************)
(* A request begins: nothing but the session's own state and the history   *)
(* of contested sockets changes.                                           *)
(***************************************************************************)
LEMMA BeginStep ==
    ASSUME ProxyInv, NEW s \in Sessions, NEW a \in Agents, NEW n \in Names,
           RegisterGet(s, a, n) \/ UnregisterInvoke(s, a, n) \/ StreamGet(s, a, n)
    PROVE  ProxyInv'
<1> USE BoundsAssumption
<1>0. TypeOK /\ MapsInv /\ OpsInv /\ ProxiesOwned
  BY DEF ProxyInv, MapsInv, OpsInv
<1>1. /\ UNCHANGED <<map, nextAgent, index, byToken, nextToken, stream, listening, link, file,
                     inst, unowned>>
  BY DEF RegisterGet, UnregisterInvoke, StreamGet, gateway, container
<1>2. PICK at \in {"insert", "bind", "unwait", "drop"} :
        /\ Begin(s, at, a, n)
        /\ \/ at # "unwait" /\ UNCHANGED calls
           \/ /\ at = "unwait"
              /\ calls' = [calls EXCEPT ![a] = Append(@,
                    [kind |-> "unregister", path |-> Path[n], tok |-> 0, by |-> s])]
  BY DEF RegisterGet, UnregisterInvoke, StreamGet
<1> DEFINE o == [at |-> at, agent |-> a, name |-> n, tok |-> 0, known |-> FALSE]
<1>3. op[s] = Free /\ op' = [op EXCEPT ![s] = o]
  BY <1>2 DEF Begin, Become
<1>4. /\ o \in Op /\ o.at = at /\ o.agent = a /\ o.name = n
      /\ op[s].at \notin {"wait", "unwait", "killHttp", "killStream"}
  <2>1. at \in Steps /\ a \in 0..MaxAgents /\ 0 \in 0..MaxToken
    BY DEF Steps, Agents
  <2>2. o \in Op
    BY <2>1 DEF Op
  <2>3. QED
    BY <1>3, <2>2, FreeIsOp
<1>5. unsettled' \subseteq Keys
  <2>1. unsettled \subseteq Keys
    BY <1>0 DEF TypeOK
  <2>2. UNCHANGED unsettled \/ Contest(s, a, n)
    BY DEF RegisterGet, UnregisterInvoke, StreamGet
  <2>3. QED
    BY <2>1, <2>2 DEF Contest, Sharing
<1> HIDE DEF o
<1>6. OpsInv' /\ op' \in [Sessions -> Op] /\ calls' \in [Agents -> Seq(Call)]
  <2>1. CASE at # "unwait"
    BY <1>0, <1>2, <1>3, <1>4, <2>1, Proceeds DEF TypeOK
  <2>2. CASE at = "unwait"
    <3> DEFINE c == [kind |-> "unregister", path |-> Path[n], tok |-> 0, by |-> s]
    <3>1. c \in Call /\ c.by = s
      BY DEF Call, Sockets
    <3>2. calls' = [calls EXCEPT ![a] = Append(@, c)]
      BY <1>2, <2>2
    <3> HIDE DEF c
    <3>3. QED
      BY <1>0, <1>3, <1>4, <2>2, <3>1, <3>2, Calls
  <2>3. QED
    BY <2>1, <2>2
<1>7. TypeOK'
  BY <1>0, <1>1, <1>5, <1>6 DEF TypeOK
<1>8. \A t \in Sessions : op[t].at \in {"killHttp", "killStream"} => op'[t] = op[t]
  BY <1>0, <1>3, <1>4 DEF TypeOK
<1>9. MapsInv' /\ ProxiesOwned'
  BY <1>0, <1>1, <1>8, MapsKept, OwnersKept
<1>10. QED
  BY <1>6, <1>7, <1>9 DEF ProxyInv, MapsInv, OpsInv

(***************************************************************************)
(* HTTP entries are dropped, by a request for one key or by a kill for all *)
(* keys of its agent: what is left keeps its owner.                        *)
(***************************************************************************)
LEMMA HttpDropped ==
    ASSUME ProxiesOwned, UNCHANGED <<map, stream, listening>>, NEW ks \in SUBSET Keys,
           \A k \in Keys : index'[k] = IF k \in ks THEN 0 ELSE index[k],
           unowned' = unowned \ {<<"http", k>> : k \in ks},
           \A t \in Sessions :
              /\ op[t].at = "killStream" => op'[t] = op[t]
              /\ op[t].at = "killHttp" =>
                    \/ op'[t] = op[t]
                    \/ /\ op'[t].at = "killStream" /\ op'[t].agent = op[t].agent
                       /\ \A k \in Keys : k[1] = op[t].agent => k \in ks
    PROVE  ProxiesOwned'
<1>1. ASSUME NEW k \in Keys, k[1] \notin map, index'[k] # 0
      PROVE  \/ <<"http", k>> \in unowned'
             \/ \E s \in Sessions : op'[s].agent = k[1] /\ op'[s].at = "killHttp"
  <2>1. k \notin ks /\ index[k] # 0
    BY <1>1
  <2>2. CASE <<"http", k>> \in unowned
    BY <2>1, <2>2
  <2>3. CASE \E s \in Sessions : op[s].agent = k[1] /\ op[s].at = "killHttp"
    BY <1>1, <2>1, <2>3
  <2>4. QED
    BY <1>1, <2>1, <2>2, <2>3 DEF ProxiesOwned
<1>2. ASSUME NEW k \in Keys, k[1] \notin map, stream'[k] # 0
      PROVE  \/ <<"stream", k>> \in unowned'
             \/ \E s \in Sessions : op'[s].agent = k[1] /\ op'[s].at \in {"killHttp", "killStream"}
  <2>1. CASE <<"stream", k>> \in unowned
    BY <2>1
  <2>2. CASE \E s \in Sessions : op[s].agent = k[1] /\ op[s].at \in {"killHttp", "killStream"}
    BY <2>2
  <2>3. QED
    BY <1>2, <2>1, <2>2 DEF ProxiesOwned
<1>3. QED
  BY <1>1, <1>2 DEF ProxiesOwned
=============================================================================
