---------------------------- MODULE GatewayProofs ----------------------------
(***************************************************************************)
(* The theorems about the two ends of the gateway: the sessions of its     *)
(* frontends (GatewaySession) and its connections to the agents            *)
(* (AgentConn).                                                            *)
(*                                                                         *)
(* Sessions: SessionInv is inductive, for every set of sessions, every set *)
(* of hellos and every MaxSkew, however long a check waits for the lock.   *)
(***************************************************************************)
EXTENDS GatewaySession, AgentConn, TLAPS

(***************************************************************************)
(* What purging the nonce cache at time "now" cannot lose: a hello that is *)
(* remembered before line 67 of session.rs is remembered, or out of every  *)
(* window still in use, after it.                                          *)
(***************************************************************************)
LEMMA PurgeSafe ==
    ASSUME SessionTypeOK, AcceptedRemembered,
           NEW now \in Nat, Purged(now),
           NEW h \in Hellos, accepts[h] > 0
    PROVE  \/ \E e \in Retained(nonceCache, now) :
                  e.nonce = h.nonce /\ e.seen >= h.ts - MaxSkew
           \/ purgedAt' > h.ts + MaxSkew
<1>1. /\ h.ts \in Int /\ purgedAt \in Nat /\ purgedAt' \in Nat
      /\ purgedAt' >= purgedAt /\ purgedAt' >= now
  BY HellosAssumption DEF SessionTypeOK, Purged
<1>2. CASE purgedAt > h.ts + MaxSkew
  BY <1>1, <1>2, TimeAssumption
<1>3. CASE \E e \in nonceCache : e.nonce = h.nonce /\ e.seen >= h.ts - MaxSkew
  <2>1. PICK e \in nonceCache : e.nonce = h.nonce /\ e.seen >= h.ts - MaxSkew
    BY <1>3
  <2>2. e.seen \in Nat
    BY <2>1 DEF SessionTypeOK
  <2>3. CASE now - e.seen <= 2 * MaxSkew
    BY <2>1, <2>3 DEF Retained
  <2>4. CASE ~(now - e.seen <= 2 * MaxSkew)
    BY <1>1, <2>1, <2>2, <2>4, TimeAssumption
  <2>5. QED
    BY <2>3, <2>4
<1>4. QED
  BY <1>2, <1>3 DEF AcceptedRemembered

(***************************************************************************)
(* A hello whose check is in progress and whose nonce is not in the purged *)
(* cache was never accepted before, unless the cache was purged with a     *)
(* later time than the check's (lines 67-71 of session.rs).                *)
(***************************************************************************)
LEMMA NotCachedNotAccepted ==
    ASSUME SessionTypeOK, VerifyingFresh, AcceptedRemembered,
           NEW v \in verifying, Purged(v.now),
           ~Cached(Retained(nonceCache, v.now), v.hello.nonce)
    PROVE  accepts[v.hello] = 0 \/ v.now < purgedAt
<1>1. /\ v.hello \in Hellos /\ v.now \in Nat /\ purgedAt \in Nat
      /\ v.hello.ts \in Int
      /\ accepts[v.hello] \in Nat
  BY HellosAssumption DEF SessionTypeOK
<1>2. v.now <= v.hello.ts + MaxSkew
  BY <1>1, TimeAssumption DEF VerifyingFresh, InWindow, Abs
<1>3. SUFFICES ASSUME accepts[v.hello] > 0 PROVE v.now < purgedAt
  BY <1>1
<1>4. \/ \E e \in Retained(nonceCache, v.now) :
            e.nonce = v.hello.nonce /\ e.seen >= v.hello.ts - MaxSkew
      \/ purgedAt' > v.hello.ts + MaxSkew
  BY <1>1, <1>3, PurgeSafe
<1>5. purgedAt' > v.hello.ts + MaxSkew
  BY <1>4 DEF Cached
<1>6. QED
  BY <1>1, <1>2, <1>5, TimeAssumption DEF Purged

(***************************************************************************)
(* Every step of every session, and every tick of the clock, preserves the *)
(* strengthened invariant (one step per action of session.rs).             *)
(***************************************************************************)
LEMMA SessionInvStep == SessionInv /\ [SessionNext]_sessionVars => SessionInv'
<1> SUFFICES ASSUME SessionInv, [SessionNext]_sessionVars PROVE SessionInv'
  OBVIOUS
<1> USE HellosAssumption, TimeAssumption
<1>0. /\ SessionTypeOK /\ VerifyingFresh /\ AcceptedRemembered /\ SingleUse
      /\ ViaAccepted /\ ServedOnlyAfterHello
  BY Zenon DEF SessionInv
<1>1. CASE UNCHANGED sessionVars
  BY <1>0, <1>1, Zenon DEF SessionInv, sessionVars, SessionTypeOK, VerifyingFresh, AcceptedRemembered,
     SingleUse, ViaAccepted, ServedOnlyAfterHello
<1>2. CASE Tick
  <2>1. SessionTypeOK'
    BY <1>0, <1>2 DEF SessionTypeOK, Tick
  <2>2. VerifyingFresh'
    BY <1>0, <1>2 DEF SessionTypeOK, Tick, VerifyingFresh
  <2>3. AcceptedRemembered'
    BY <1>0, <1>2 DEF SessionTypeOK, Tick, AcceptedRemembered
  <2>4. SingleUse' /\ ViaAccepted' /\ ServedOnlyAfterHello'
    BY <1>0, <1>2, Zenon DEF Tick, SingleUse, ViaAccepted, ServedOnlyAfterHello
  <2>5. QED
    BY <2>1, <2>2, <2>3, <2>4, Zenon DEF SessionInv
<1>3. ASSUME NEW s \in Sessions, Connect(s) PROVE SessionInv'
  BY <1>0, <1>3, Zenon DEF SessionInv, Connect, SessionTypeOK, VerifyingFresh, AcceptedRemembered,
     SingleUse, ViaAccepted, ServedOnlyAfterHello
<1>4. ASSUME NEW s \in Sessions, Disconnect(s) PROVE SessionInv'
  <2>1. SessionTypeOK'
    BY <1>0, <1>4, Zenon DEF SessionTypeOK, Disconnect, Free
  <2>2. VerifyingFresh' /\ AcceptedRemembered' /\ SingleUse'
    BY <1>0, <1>4, Zenon DEF Disconnect, VerifyingFresh, AcceptedRemembered, SingleUse
  <2>3. ViaAccepted' /\ ServedOnlyAfterHello'
    BY <1>0, <1>4, Zenon DEF SessionTypeOK, Disconnect, ViaAccepted, ServedOnlyAfterHello
  <2>4. QED
    BY <2>1, <2>2, <2>3, Zenon DEF SessionInv
<1>5. ASSUME NEW s \in Sessions, HandleRequest(s) \/ Notify(s) PROVE SessionInv'
  <2>1. SessionTypeOK'
    BY <1>0, <1>5, Zenon DEF SessionTypeOK, HandleRequest, Notify, Free, Reply, Served
  <2>2. VerifyingFresh' /\ AcceptedRemembered' /\ SingleUse' /\ ViaAccepted'
    BY <1>0, <1>5, Zenon DEF HandleRequest, Notify, VerifyingFresh, AcceptedRemembered,
       SingleUse, ViaAccepted
  <2>3. ServedOnlyAfterHello'
    BY <1>0, <1>5 DEF SessionTypeOK, HandleRequest, Notify, Reply, Served, ViaAccepted, ServedOnlyAfterHello
  <2>4. QED
    BY <2>1, <2>2, <2>3, Zenon DEF SessionInv
<1>6. ASSUME NEW s \in Sessions, NEW h \in Hellos, HelloRefused(s, h) PROVE SessionInv'
  <2>1. SessionTypeOK'
    BY <1>0, <1>6, Zenon DEF SessionTypeOK, HelloRefused, Reply, Served
  <2>2. VerifyingFresh' /\ AcceptedRemembered' /\ SingleUse' /\ ViaAccepted'
    BY <1>0, <1>6, Zenon DEF HelloRefused, VerifyingFresh, AcceptedRemembered,
       SingleUse, ViaAccepted
  <2>3. ServedOnlyAfterHello'
    BY <1>0, <1>6 DEF SessionTypeOK, HelloRefused, Reply, Served, ServedOnlyAfterHello
  <2>4. QED
    BY <2>1, <2>2, <2>3, Zenon DEF SessionInv
<1>7. ASSUME NEW s \in Sessions, NEW h \in Hellos, HelloReadClock(s, h)
      PROVE SessionInv'
  <2>1. SessionTypeOK'
    BY <1>0, <1>7 DEF SessionTypeOK, HelloReadClock, Free
  <2>2. VerifyingFresh'
    BY <1>0, <1>7 DEF SessionTypeOK, HelloReadClock, VerifyingFresh
  <2>3. AcceptedRemembered' /\ SingleUse' /\ ViaAccepted' /\ ServedOnlyAfterHello'
    BY <1>0, <1>7, Zenon DEF HelloReadClock, AcceptedRemembered, SingleUse, ViaAccepted,
       ServedOnlyAfterHello
  <2>4. QED
    BY <2>1, <2>2, <2>3, Zenon DEF SessionInv
<1>8. ASSUME NEW v \in verifying, HelloReplayed(v) PROVE SessionInv'
  <2>1. SessionTypeOK'
    BY <1>0, <1>8 DEF SessionTypeOK, HelloReplayed, Retained, Purged, Reply, Served
  <2>2. VerifyingFresh' /\ SingleUse' /\ ViaAccepted'
    BY <1>0, <1>8, Zenon DEF HelloReplayed, VerifyingFresh, SingleUse, ViaAccepted
  <2>3. AcceptedRemembered'
    <3>1. v.now \in Nat
      BY <1>0, Zenon DEF SessionTypeOK, VerifyingFresh
    <3>2. QED
      BY <1>0, <1>8, <3>1, PurgeSafe, Zenon DEF HelloReplayed, AcceptedRemembered
  <2>4. ServedOnlyAfterHello'
    BY <1>0, <1>8 DEF SessionTypeOK, HelloReplayed, Reply, Served, ServedOnlyAfterHello
  <2>5. QED
    BY <2>1, <2>2, <2>3, <2>4, Zenon DEF SessionInv
<1>9. ASSUME NEW v \in verifying, HelloBadSignature(v) PROVE SessionInv'
  <2>1. SessionTypeOK'
    BY <1>0, <1>9 DEF SessionTypeOK, HelloBadSignature, InsertNonce, Retained, Purged, Reply, Served
  <2>2. VerifyingFresh' /\ SingleUse' /\ ViaAccepted'
    BY <1>0, <1>9, Zenon DEF HelloBadSignature, InsertNonce, VerifyingFresh, SingleUse, ViaAccepted
  <2>3. AcceptedRemembered'
    <3>1. v.now \in Nat
      BY <1>0, Zenon DEF SessionTypeOK, VerifyingFresh
    <3>2. QED
      BY <1>0, <1>9, <3>1, PurgeSafe, Zenon DEF HelloBadSignature, InsertNonce, AcceptedRemembered
  <2>4. ServedOnlyAfterHello'
    BY <1>0, <1>9 DEF SessionTypeOK, HelloBadSignature, Reply, Served, ServedOnlyAfterHello
  <2>5. QED
    BY <2>1, <2>2, <2>3, <2>4, Zenon DEF SessionInv
<1>10. ASSUME NEW v \in verifying, HelloAccepted(v) PROVE SessionInv'
  <2>1. /\ v.session \in Sessions /\ v.session \in open
        /\ v.hello \in Hellos /\ v.hello.ts \in Int
        /\ v.now \in Nat /\ purgedAt \in Nat
        /\ v.hello.known /\ InWindow(v.now, v.hello)
    BY <1>0, Zenon DEF SessionTypeOK, VerifyingFresh
  <2>2. accepts[v.hello] = 0 \/ v.now < purgedAt
    BY <1>0, <1>10, NotCachedNotAccepted, Zenon DEF HelloAccepted, InsertNonce
  <2>3. /\ accepts' = [accepts EXCEPT ![v.hello] = @ + 1] /\ accepts \in [Hellos -> Nat]
        /\ accepts' \in [Hellos -> Nat] /\ accepts'[v.hello] > 0
        /\ \A h \in Hellos : h # v.hello => accepts'[h] = accepts[h]
        /\ \A h \in Hellos : accepts[h] > 0 => accepts'[h] > 0
    BY <1>0, <1>10, <2>1 DEF SessionTypeOK, HelloAccepted
  <2>4. SessionTypeOK'
    BY <1>0, <1>10, <2>1, <2>3
    DEF SessionTypeOK, HelloAccepted, InsertNonce, Retained, Purged, Reply, Served
  <2>5. VerifyingFresh'
    BY <1>0, <1>10, Zenon DEF HelloAccepted, InsertNonce, VerifyingFresh
  <2>6. SingleUse'
    <3>1. overtaken \subseteq overtaken' /\ (v.now < purgedAt => v.hello \in overtaken')
      BY <1>10, Zenon DEF HelloAccepted
    <3>2. CASE v.now < purgedAt
      BY <1>0, <2>3, <3>1, <3>2 DEF SingleUse
    <3>3. CASE accepts[v.hello] = 0
      BY <1>0, <2>1, <2>3, <3>1, <3>3 DEF SingleUse
    <3>4. QED
      BY <2>2, <3>2, <3>3
  <2>7. AcceptedRemembered'
    <3>1. SUFFICES ASSUME NEW h \in Hellos, accepts'[h] > 0
                   PROVE  \/ \E e \in nonceCache' :
                                e.nonce = h.nonce /\ e.seen >= h.ts - MaxSkew
                          \/ purgedAt' > h.ts + MaxSkew
      BY <1>10, Zenon DEF AcceptedRemembered, HelloAccepted
    <3>2. CASE h = v.hello
      <4> DEFINE new == [nonce |-> v.hello.nonce, seen |-> v.now]
      <4>1. new \in nonceCache'
        BY <1>10, Zenon DEF HelloAccepted, InsertNonce
      <4>2. v.now >= v.hello.ts - MaxSkew
        BY <2>1 DEF InWindow, Abs
      <4>3. QED
        BY <3>2, <4>1, <4>2, Zenon
    <3>3. CASE h # v.hello
      <4>1. accepts[h] > 0
        BY <2>1, <2>3, <3>1, <3>3, Zenon
      <4>2. QED
        BY <1>0, <1>10, <2>1, <4>1, PurgeSafe, Zenon DEF HelloAccepted, InsertNonce
    <3>4. QED
      BY <3>2, <3>3, Zenon
  <2>8. ViaAccepted'
    BY <1>0, <1>10, <2>1, <2>3 DEF SessionTypeOK, HelloAccepted, ViaAccepted
  <2>9. ServedOnlyAfterHello'
    BY <1>0, <1>10, <2>1, <2>3 DEF SessionTypeOK, HelloAccepted, Reply, ViaAccepted, ServedOnlyAfterHello
  <2>10. QED
    BY <2>4, <2>5, <2>6, <2>7, <2>8, <2>9, Zenon DEF SessionInv
<1>11. QED
  BY <1>1, <1>2, <1>3, <1>4, <1>5, <1>6, <1>7, <1>8, <1>9, <1>10, Zenon DEF SessionNext

(***************************************************************************)
(* The strengthened invariant holds in every reachable state.              *)
(***************************************************************************)
THEOREM SessionInvariant == SessionSpec => []SessionInv
<1>1. SessionInit => SessionInv
  BY DEF SessionInit, SessionInv, SessionTypeOK, VerifyingFresh, AcceptedRemembered, SingleUse,
     ViaAccepted, ServedOnlyAfterHello
<1>2. QED
  BY <1>1, SessionInvStep, PTL DEF SessionSpec

(***************************************************************************)
(* A signed hello is accepted a second time only when another check, with  *)
(* a later time, overtook its own at the lock: for every skew window,      *)
(* every set of hellos and however long checks wait (verify_hello of       *)
(* session.rs).                                                            *)
(***************************************************************************)
THEOREM HelloSingleUse == SessionSpec => []SingleUse
<1>1. SessionInv => SingleUse
  BY Zenon DEF SessionInv
<1>2. QED
  BY <1>1, SessionInvariant, PTL

(***************************************************************************)
(* Nothing but rejections is sent on a connection before a valid hello was *)
(* accepted on it (handle_value and the notify task of session.rs).        *)
(***************************************************************************)
THEOREM GateHolds == SessionSpec => []ServedOnlyAfterHello
<1>1. SessionInv => ServedOnlyAfterHello
  BY Zenon DEF SessionInv
<1>2. QED
  BY <1>1, SessionInvariant, PTL

-----------------------------------------------------------------------------
(***************************************************************************)
(* Connections: ConnInv is inductive, for every set of calls, every        *)
(* channel capacity and any number of requests of the agent.               *)
(***************************************************************************)

(***************************************************************************)
(* The parts of the invariant that speak of the calls alone.               *)
(***************************************************************************)
CallInv == IdsFresh /\ (\A e \in pending : Carries(e)) /\ AnswerMatches /\ WaitingHasResolver

\* Every request on its way to the agent, or there, carries its call's id ...
SentInv == \A m \in outgoing \cup atAgent : m.kind = "request" => Carries(m)

\* ... and so does every response on its way back.
ArrivedInv == \A i \in DOMAIN incoming : incoming[i].kind = "response" => Carries(incoming[i])

(***************************************************************************)
(* An entry of the pending map and a frame that carry the same id are      *)
(* about the same call (next_id of agent_conn.rs is handed out once).      *)
(***************************************************************************)
LEMMA SameIdSameCall ==
    ASSUME IdsFresh, NEW c \in Calls, NEW d \in Calls, id[c] = id[d], id[c] # 0
    PROVE  c = d
  BY Zenon DEF IdsFresh

(***************************************************************************)
(* A step that leaves the calls alone keeps what is said of them.          *)
(***************************************************************************)
LEMMA CallsUntouched == CallInv /\ UNCHANGED callState => CallInv'
  BY DEF CallInv, callState, IdsFresh, Carries, AnswerMatches, WaitingHasResolver

(***************************************************************************)
(* Served stay right when a right one is queued for run_reader() ...       *)
(***************************************************************************)
LEMMA AppendFrame ==
    ASSUME TypeOK, ArrivedInv, UNCHANGED id, NEW f \in Event,
           incoming' = Append(incoming, f), f.kind = "response" => Carries(f)
    PROVE  incoming' \in Seq(Event) /\ ArrivedInv'
<1>1. incoming \in Seq(Event)
  BY Zenon DEF TypeOK
<1>2. /\ incoming' \in Seq(Event)
      /\ DOMAIN incoming' = 1..(Len(incoming) + 1) /\ DOMAIN incoming = 1..Len(incoming)
      /\ Len(incoming) \in Nat
      /\ \A i \in 1..Len(incoming) : incoming'[i] = incoming[i]
      /\ incoming'[Len(incoming) + 1] = f
  BY <1>1
<1>3. ASSUME NEW i \in DOMAIN incoming', incoming'[i].kind = "response"
      PROVE  incoming'[i].id = id[incoming'[i].call]
  <2>1. CASE i \in 1..Len(incoming)
    BY <1>2, <1>3, <2>1, Zenon DEF ArrivedInv, Carries
  <2>2. CASE i = Len(incoming) + 1
    BY <1>2, <1>3, <2>2, Zenon DEF Carries
  <2>3. QED
    BY <1>2, <2>1, <2>2
<1>4. QED
  BY <1>2, <1>3, Zenon DEF ArrivedInv, Carries

(***************************************************************************)
(* ... and when the loop takes the first, which is right itself.           *)
(***************************************************************************)
LEMMA TakeFrame ==
    ASSUME TypeOK, ArrivedInv, UNCHANGED id, incoming # << >>, incoming' = Tail(incoming)
    PROVE  /\ incoming' \in Seq(Event) /\ ArrivedInv'
           /\ Head(incoming) \in Event
           /\ Head(incoming).kind = "response" => Carries(Head(incoming))
<1>1. incoming \in Seq(Event)
  BY Zenon DEF TypeOK
<1>2. /\ incoming' \in Seq(Event) /\ Head(incoming) \in Event
      /\ 1 \in DOMAIN incoming /\ Head(incoming) = incoming[1]
      /\ \A i \in DOMAIN incoming' : i + 1 \in DOMAIN incoming /\ incoming'[i] = incoming[i + 1]
  BY <1>1
<1>3. QED
  BY <1>2, Zenon DEF ArrivedInv, Carries

(***************************************************************************)
(* The steps of invoke() keep the types and the invariant.                 *)
(***************************************************************************)
LEMMA InvokeStep ==
    ASSUME ConnInv, NEW c \in Calls, Invoke(c)
    PROVE  ConnInv'
<1> USE CallsAssumption DEF Goto
<1>0. TypeOK /\ CallInv /\ SentInv /\ ArrivedInv
  BY Zenon DEF ConnInv, CallInv, SentInv, ArrivedInv
<1>1. pc[c] # "done" /\ id[c] \in Nat /\ nextId \in Nat \ {0}
  BY <1>0, Zenon DEF TypeOK, Invoke, CheckClosed, AllocateId, Register, Send, SendFails, Return
<1>2. CASE CheckClosed(c) \/ SendFails(c) \/ Return(c)
  <2>1. TypeOK'
    BY <1>0, <1>2, Zenon DEF TypeOK, CheckClosed, SendFails, Return, channel, agent
  <2>2. CallInv'
    <3>1. IdsFresh' /\ \A e \in pending' : Carries(e)'
      BY <1>0, <1>2 DEF TypeOK, CheckClosed, SendFails, Return, CallInv, IdsFresh, Carries
    <3>2. AnswerMatches' /\ WaitingHasResolver'
      BY <1>0, <1>2 DEF TypeOK, CheckClosed, SendFails, Return, CallInv, AnswerMatches,
                        WaitingHasResolver
    <3>3. QED
      BY <3>1, <3>2, Zenon DEF CallInv
  <2>3. SentInv' /\ ArrivedInv'
    BY <1>0, <1>2, Zenon DEF CheckClosed, SendFails, Return, channel, agent, SentInv, ArrivedInv, Carries
  <2>4. QED
    BY <2>1, <2>2, <2>3, Zenon DEF ConnInv, CallInv, SentInv, ArrivedInv
<1>3. CASE AllocateId(c)
  <2>1. TypeOK'
    BY <1>0, <1>3 DEF TypeOK, AllocateId, channel, agent
  <2>2. /\ id[c] = 0
        /\ \A d \in Calls : id'[d] = IF d = c THEN nextId ELSE id[d]
        /\ UNCHANGED <<pending, result, outgoing, atAgent, incoming>>
    BY <1>0, <1>3, Zenon DEF TypeOK, AllocateId, CallInv, IdsFresh, channel, agent
  <2>3. ASSUME NEW m \in Entry \cup Request \cup Event, m \in Entry \/ m.kind # "ask",
               m \in Entry \/ m.kind # "disconnected", Carries(m)
        PROVE  Carries(m)'
    <3>1. m.call \in Calls /\ m.id # 0
      BY <2>3, Zenon DEF Entry, Request, Event
    <3>2. QED
      BY <2>2, <2>3, <3>1, Zenon DEF Carries
  <2>4. IdsFresh'
    BY <1>0, <1>3, <2>2 DEF TypeOK, AllocateId, CallInv, IdsFresh
  <2>5. \A e \in pending' : Carries(e)'
    BY <1>0, <2>2, <2>3, Zenon DEF TypeOK, CallInv
  <2>6. AnswerMatches' /\ WaitingHasResolver'
    BY <1>0, <1>3, <2>2 DEF TypeOK, AllocateId, CallInv, AnswerMatches, WaitingHasResolver
  <2>7. SentInv'
    BY <1>0, <2>2, <2>3, Zenon DEF TypeOK, SentInv, Answer
  <2>8. ArrivedInv'
    BY <1>0, <2>2, <2>3 DEF TypeOK, ArrivedInv, Event
  <2>9. QED
    BY <2>1, <2>4, <2>5, <2>6, <2>7, <2>8, Zenon DEF ConnInv, SentInv, ArrivedInv
<1>4. CASE Register(c)
  <2>1. [id |-> id[c], call |-> c] \in Entry /\ id[c] # 0
    BY <1>0, <1>4, Zenon DEF TypeOK, Register, CallInv, IdsFresh, Entry
  <2>2. TypeOK'
    BY <1>0, <1>4, <2>1, Zenon DEF TypeOK, Register, channel, agent
  <2>3. IdsFresh' /\ AnswerMatches' /\ \A e \in pending' : Carries(e)'
    BY <1>0, <1>4, <2>1 DEF TypeOK, Register, CallInv, IdsFresh, AnswerMatches, Carries
  <2>4. ASSUME NEW d \in Calls, pc'[d] \in {"registered", "waiting"}, result'[d] = "none"
        PROVE  [id |-> id'[d], call |-> d] \in pending'
    <3>1. CASE d = c
      BY <1>4, <3>1, Zenon DEF Register
    <3>2. CASE d # c
      <4>1. [id |-> id[d], call |-> d] \in pending
        BY <1>0, <1>4, <2>4, <3>2, Zenon DEF TypeOK, Register, CallInv, WaitingHasResolver
      <4>2. id[d] # id[c]
        BY <1>0, <2>1, <3>2, SameIdSameCall, Zenon DEF CallInv
      <4>3. QED
        BY <1>4, <4>1, <4>2, Zenon DEF Register
    <3>3. QED
      BY <3>1, <3>2, Zenon
  <2>5. SentInv' /\ ArrivedInv'
    BY <1>0, <1>4, Zenon DEF Register, channel, agent, SentInv, ArrivedInv, Carries
  <2>6. QED
    BY <2>2, <2>3, <2>4, <2>5, Zenon DEF ConnInv, SentInv, ArrivedInv, WaitingHasResolver
<1>5. CASE Send(c)
  <2>1. id[c] # 0 /\ [kind |-> "request", id |-> id[c], call |-> c] \in Request
    BY <1>0, <1>5, Zenon DEF TypeOK, Send, CallInv, IdsFresh, Request
  <2>2. TypeOK'
    BY <1>0, <1>5, <2>1, Zenon DEF TypeOK, Send, agent
  <2>3. CallInv'
    BY <1>0, <1>5 DEF TypeOK, Send, CallInv, IdsFresh, Carries, AnswerMatches, WaitingHasResolver
  <2>4. SentInv' /\ ArrivedInv'
    BY <1>0, <1>5 DEF Send, agent, SentInv, ArrivedInv, Carries
  <2>5. QED
    BY <2>2, <2>3, <2>4, Zenon DEF ConnInv, CallInv, SentInv, ArrivedInv
<1>6. QED
  BY <1>2, <1>3, <1>4, <1>5, Zenon DEF Invoke

(***************************************************************************)
(* So do the steps of the channel's tasks, the link and the agent.         *)
(***************************************************************************)
LEMMA ChannelStep ==
    ASSUME ConnInv, Writer \/ ReaderEnds \/ Peer \/ Handlers
    PROVE  ConnInv'
<1>0. TypeOK /\ CallInv /\ SentInv /\ ArrivedInv
  BY Zenon DEF ConnInv, CallInv, SentInv, ArrivedInv
<1>1. UNCHANGED callState /\ CallInv'
  BY <1>0, CallsUntouched, Zenon DEF Writer, WriterSends, WriterFails, ReaderEnds, Peer, LinkDrops,
     AgentAsks, AgentResponds, Handlers, HandlerReplies
<1>2. UNCHANGED <<pc, id, nextId, pending, result>>
  BY <1>1, Zenon DEF callState
<1>3. Disconnected \in Event /\ Disconnected.kind # "response"
  BY Zenon DEF Disconnected, Event
<1>4. ASSUME TypeOK', SentInv', ArrivedInv' PROVE ConnInv'
  BY <1>1, <1>4, Zenon DEF ConnInv, CallInv, SentInv, ArrivedInv
<1>5. ASSUME NEW m \in outgoing, WriterSends(m) PROVE ConnInv'
  <2>1. m.kind # "request" => m \in Answer
    BY <1>0, Zenon DEF TypeOK, Request, Answer
  <2>2. m.kind = "request" => m \in Request
    BY <1>0, Zenon DEF TypeOK, Request, Answer
  <2>3. TypeOK'
    BY <1>0, <1>2, <1>5, <2>1, <2>2, Zenon DEF TypeOK, WriterSends, Answer
  <2>4. SentInv' /\ ArrivedInv'
    BY <1>0, <1>2, <1>5, Zenon DEF WriterSends, SentInv, ArrivedInv, Carries
  <2>5. QED
    BY <1>4, <2>3, <2>4, Zenon
<1>6. CASE WriterFails \/ ReaderEnds
  <2>1. incoming' \in Seq(Event) /\ ArrivedInv'
    BY <1>0, <1>2, <1>3, <1>6, AppendFrame, Zenon DEF WriterFails, ReaderEnds
  <2>2. tasks' \in [{"reader", "writer", "loop"} -> {"up", "ended", "flagged", "down"}]
    BY <1>0, <1>6 DEF TypeOK, WriterFails, ReaderEnds
  <2>3. UNCHANGED <<closed, aborting, closing, link, atAgent, asks, handlers, answered>>
        /\ outgoing' \in {outgoing, {}}
    BY <1>6, Zenon DEF WriterFails, ReaderEnds, agent
  <2>4. TypeOK'
    BY <1>0, <1>2, <2>1, <2>2, <2>3, Zenon DEF TypeOK
  <2>5. SentInv'
    BY <1>0, <1>2, <2>3, Zenon DEF SentInv, Carries
  <2>6. QED
    BY <1>4, <2>1, <2>4, <2>5, Zenon
<1>7. CASE LinkDrops
  <2>1. TypeOK'
    BY <1>0, <1>2, <1>7, Zenon DEF TypeOK, LinkDrops, agent
  <2>2. SentInv' /\ ArrivedInv'
    BY <1>0, <1>2, <1>7, Zenon DEF LinkDrops, agent, SentInv, ArrivedInv, Carries
  <2>3. QED
    BY <1>4, <2>1, <2>2, Zenon
<1>8. CASE AgentAsks
  <2>1. asks + 1 \in 0..MaxAsks /\ asks + 1 \in Nat \ {0}
    BY <1>0, <1>8, CapacityAssumption DEF TypeOK, AgentAsks
  <2>2. [kind |-> "ask", id |-> asks + 1] \in Event
    BY <2>1, Zenon DEF Event
  <2>3. incoming' \in Seq(Event) /\ ArrivedInv'
    BY <1>0, <1>2, <1>8, <2>2, AppendFrame, Zenon DEF AgentAsks
  <2>4. TypeOK'
    BY <1>0, <1>2, <1>8, <2>1, <2>3, Zenon DEF TypeOK, AgentAsks
  <2>5. SentInv'
    BY <1>0, <1>2, <1>8, Zenon DEF AgentAsks, SentInv, Carries
  <2>6. QED
    BY <1>4, <2>3, <2>4, <2>5, Zenon
<1>9. ASSUME NEW m \in atAgent, AgentResponds(m) PROVE ConnInv'
  <2> DEFINE f == [kind |-> "response", id |-> m.id, call |-> m.call]
  <2>1. m \in Request
    BY <1>0, Zenon DEF TypeOK
  <2>2. f \in Event
    BY <2>1, Zenon DEF Event, Request
  <2>3. Carries(f)
    BY <1>0, <2>1, Zenon DEF SentInv, Carries, Request
  <2>4. incoming' = Append(incoming, f)
    BY <1>9, Zenon DEF AgentResponds
  <2>5. incoming' \in Seq(Event) /\ ArrivedInv'
    BY <1>0, <1>2, <2>2, <2>3, <2>4, AppendFrame, Zenon
  <2>6. TypeOK'
    BY <1>0, <1>2, <1>9, <2>5, Zenon DEF TypeOK, AgentResponds
  <2>7. SentInv'
    BY <1>0, <1>2, <1>9, Zenon DEF AgentResponds, SentInv, Carries
  <2>8. QED
    BY <1>4, <2>5, <2>6, <2>7, Zenon
<1>10. ASSUME NEW n \in handlers, HandlerReplies(n) PROVE ConnInv'
  <2>1. [kind |-> "answer", id |-> n] \in Answer
    BY <1>0, Zenon DEF TypeOK, Answer
  <2>2. TypeOK'
    BY <1>0, <1>2, <1>10, <2>1, Zenon DEF TypeOK, HandlerReplies
  <2>3. SentInv' /\ ArrivedInv'
    BY <1>0, <1>2, <1>10 DEF HandlerReplies, SentInv, ArrivedInv, Carries
  <2>4. QED
    BY <1>4, <2>2, <2>3, Zenon
<1>11. QED
  BY <1>5, <1>6, <1>7, <1>8, <1>9, <1>10, Zenon DEF Writer, Peer, Handlers

(***************************************************************************)
(* Draining the pending map leaves nobody waiting without a resolver       *)
(* (drain_pending of agent_conn.rs).                                       *)
(***************************************************************************)
LEMMA DrainKeeps ==
    ASSUME TypeOK, CallInv, DrainPending
    PROVE  CallInv' /\ pending' = {} /\ UNCHANGED <<pc, id, nextId>>
           /\ result' \in [Calls -> Calls \cup {"none", "closed"}]
<1> USE CallsAssumption
<1>1. /\ pending' = {} /\ UNCHANGED <<pc, id, nextId>>
      /\ result' \in [Calls -> Calls \cup {"none", "closed"}]
      /\ \A c \in Calls : result'[c] =
            IF pc[c] # "done" /\ \E e \in pending : e.call = c THEN "closed" ELSE result[c]
  BY Zenon DEF TypeOK, DrainPending, Resolve
<1>2. IdsFresh' /\ \A e \in pending' : Carries(e)'
  BY <1>1, Zenon DEF CallInv, IdsFresh
<1>3. AnswerMatches'
  BY <1>1, Zenon DEF CallInv, AnswerMatches
<1>4. ASSUME NEW c \in Calls, pc'[c] \in {"registered", "waiting"}, result'[c] = "none"
      PROVE  FALSE
  <2>1. result[c] = "none"
    BY <1>1, <1>4, Zenon
  <2>2. [id |-> id[c], call |-> c] \in pending
    BY <1>1, <1>4, <2>1, Zenon DEF CallInv, WaitingHasResolver
  <2>3. QED
    BY <1>1, <1>4, <2>2, Zenon
<1>5. QED
  BY <1>1, <1>2, <1>3, <1>4, Zenon DEF CallInv, WaitingHasResolver

(***************************************************************************)
(* The steps of run_reader(): a response resolves the call it is for.      *)
(***************************************************************************)
LEMMA LoopStep ==
    ASSUME ConnInv, Loop
    PROVE  ConnInv'
<1> USE CallsAssumption
<1>0. TypeOK /\ CallInv /\ SentInv /\ ArrivedInv
  BY Zenon DEF ConnInv, CallInv, SentInv, ArrivedInv
<1>1. CASE DispatchResponse
  <2> DEFINE f == Head(incoming)
             R == Matching(f)
  <2>1. /\ incoming # << >> /\ incoming' = Tail(incoming)
        /\ R # {} /\ pending' = pending \ R
        /\ result' = [c \in Calls |->
                IF pc[c] # "done" /\ \E e \in R : e.call = c THEN Payload(f, c) ELSE result[c]]
        /\ UNCHANGED <<pc, id, nextId, closed, outgoing, tasks, aborting, link, closing,
                       atAgent, asks, handlers, answered>>
    BY <1>1, Zenon DEF DispatchResponse, LoopTakes, Resolve, agent
  <2>2. /\ incoming' \in Seq(Event) /\ ArrivedInv'
        /\ f \in Event /\ (f.kind = "response" => Carries(f))
    BY <1>0, <2>1, TakeFrame, Zenon
  <2>3. f.kind = "response" /\ f.call \in Calls /\ f.id # 0 /\ f.id = id[f.call]
    BY <2>1, <2>2, Zenon DEF Matching, Event, Carries
  <2>4. ASSUME NEW e \in R PROVE e.call = f.call
    <3>1. e \in pending /\ e.id = f.id
      BY Zenon DEF Matching
    <3>2. e.call \in Calls /\ e.id = id[e.call]
      BY <1>0, <3>1, Zenon DEF TypeOK, Entry, CallInv, Carries
    <3>3. QED
      BY <1>0, <2>3, <3>1, <3>2, SameIdSameCall, Zenon DEF CallInv
  <2>5. ASSUME NEW c \in Calls
        PROVE  result'[c] = IF pc[c] # "done" /\ \E e \in R : e.call = c THEN c ELSE result[c]
    BY <2>1, <2>3, <2>4, Zenon DEF Payload
  <2> HIDE DEF R
  <2>6. TypeOK'
    <3>1. result' \in [Calls -> Calls \cup {"none", "closed"}]
      BY <1>0, <2>1, <2>5, Zenon DEF TypeOK
    <3>2. QED
      BY <1>0, <2>1, <2>2, <3>1, Zenon DEF TypeOK
  <2>7. IdsFresh' /\ \A e \in pending' : Carries(e)'
    BY <1>0, <2>1, Zenon DEF CallInv, IdsFresh, Carries
  <2>8. AnswerMatches'
    BY <1>0, <2>5, Zenon DEF CallInv, AnswerMatches
  <2>9. ASSUME NEW c \in Calls, pc'[c] \in {"registered", "waiting"}, result'[c] = "none"
        PROVE  [id |-> id'[c], call |-> c] \in pending'
    <3>1. pc[c] # "done" /\ pc[c] \in {"registered", "waiting"}
      BY <2>1, <2>9, Zenon
    <3>2. ~ \E e \in R : e.call = c
      BY <2>5, <2>9, <3>1, Zenon
    <3>3. result[c] = "none"
      BY <2>5, <2>9, <3>2, Zenon
    <3>4. [id |-> id[c], call |-> c] \in pending
      BY <1>0, <3>1, <3>3, Zenon DEF CallInv, WaitingHasResolver
    <3>5. QED
      BY <2>1, <3>2, <3>4, Zenon
  <2>10. SentInv'
    BY <1>0, <2>1, Zenon DEF SentInv, Carries
  <2>11. QED
    BY <2>2, <2>6, <2>7, <2>8, <2>9, <2>10, Zenon DEF ConnInv, SentInv, ArrivedInv, WaitingHasResolver
<1>2. CASE DispatchToHandler
  <2>1. /\ incoming # << >> /\ incoming' = Tail(incoming)
        /\ Head(incoming).kind \in {"response", "ask"}
        /\ handlers' = handlers \cup {Head(incoming).id}
        /\ UNCHANGED <<pc, id, nextId, pending, result, closed, outgoing, tasks, aborting, link,
                       closing, atAgent, asks, answered>>
    BY <1>2, Zenon DEF DispatchToHandler, LoopTakes, callState
  <2>2. incoming' \in Seq(Event) /\ ArrivedInv' /\ Head(incoming) \in Event
    BY <1>0, <2>1, TakeFrame, Zenon
  <2>3. Head(incoming).id \in Nat \ {0}
    BY <2>1, <2>2, Zenon DEF Event
  <2>4. TypeOK'
    BY <1>0, <2>1, <2>2, <2>3, Zenon DEF TypeOK
  <2>5. CallInv'
    BY <1>0, <2>1, CallsUntouched, Zenon DEF callState
  <2>6. SentInv'
    BY <1>0, <2>1, Zenon DEF SentInv, Carries
  <2>7. QED
    BY <2>2, <2>4, <2>5, <2>6, Zenon DEF ConnInv, CallInv, SentInv, ArrivedInv
<1>3. CASE LoopEnds \/ LoopFlags
  <2>1. /\ \/ incoming # << >> /\ incoming' = Tail(incoming)
           \/ incoming' = incoming
        /\ closed' \in BOOLEAN
        /\ UNCHANGED <<pc, id, nextId, pending, result, outgoing, aborting, link, closing,
                       atAgent, asks, handlers, answered>>
    BY <1>0, <1>3, Zenon DEF TypeOK, LoopEnds, LoopFlags, LoopTakes, callState, agent
  <2>0. tasks' \in [{"reader", "writer", "loop"} -> {"up", "ended", "flagged", "down"}]
    BY <1>0, <1>3 DEF TypeOK, LoopEnds, LoopFlags
  <2>2. incoming' \in Seq(Event) /\ ArrivedInv'
    <3>1. CASE incoming' = incoming
      BY <1>0, <2>1, <3>1, Zenon DEF TypeOK, ArrivedInv, Carries
    <3>2. QED
      BY <1>0, <2>1, <3>1, TakeFrame, Zenon
  <2>3. TypeOK'
    BY <1>0, <2>0, <2>1, <2>2, Zenon DEF TypeOK
  <2>4. CallInv'
    BY <1>0, <2>1, CallsUntouched, Zenon DEF callState
  <2>5. SentInv'
    BY <1>0, <2>1, Zenon DEF SentInv, Carries
  <2>6. QED
    BY <2>2, <2>3, <2>4, <2>5, Zenon DEF ConnInv, CallInv, SentInv, ArrivedInv
<1>4. CASE LoopDrains
  <2>1. /\ DrainPending
        /\ tasks' \in [{"reader", "writer", "loop"} -> {"up", "ended", "flagged", "down"}]
        /\ UNCHANGED <<closed, outgoing, incoming, aborting, link, closing,
                       atAgent, asks, handlers, answered>>
    BY <1>0, <1>4, Zenon DEF TypeOK, LoopDrains, agent
  <2>2. CallInv' /\ pending' = {} /\ UNCHANGED <<pc, id, nextId>>
        /\ result' \in [Calls -> Calls \cup {"none", "closed"}]
    BY <1>0, <2>1, DrainKeeps, Zenon
  <2>3. TypeOK'
    BY <1>0, <2>1, <2>2, Zenon DEF TypeOK
  <2>4. SentInv' /\ ArrivedInv'
    BY <1>0, <2>1, <2>2, Zenon DEF SentInv, ArrivedInv, Carries
  <2>5. QED
    BY <2>2, <2>3, <2>4, Zenon DEF ConnInv, CallInv, SentInv, ArrivedInv
<1>5. QED
  BY <1>1, <1>2, <1>3, <1>4, Zenon DEF Loop

(***************************************************************************)
(* The steps of close(), and the end of the tasks it aborts.               *)
(***************************************************************************)
LEMMA CloseStep ==
    ASSUME ConnInv, CloseFlags \/ CloseAborts \/ CloseDrains \/ \E t \in aborting : TaskAborted(t)
    PROVE  ConnInv'
<1>0. TypeOK /\ CallInv /\ SentInv /\ ArrivedInv
  BY Zenon DEF ConnInv, CallInv, SentInv, ArrivedInv
<1>1. CASE CloseFlags \/ CloseAborts
  <2>0. DOMAIN tasks = {"reader", "writer", "loop"}
    BY <1>0, Zenon DEF TypeOK
  <2>1. /\ closed' \in BOOLEAN /\ closing' \in {"no", "flagged", "aborted", "drained"}
        /\ aborting' \subseteq {"reader", "writer", "loop"}
        /\ UNCHANGED <<pc, id, nextId, pending, result, outgoing, incoming, tasks, link,
                       atAgent, asks, handlers, answered>>
    <3>1. CASE CloseFlags
      BY <1>0, <3>1, Zenon DEF TypeOK, CloseFlags, callState, channel, agent
    <3>2. CASE CloseAborts
      BY <1>0, <2>0, <3>2, Zenon DEF TypeOK, CloseAborts, callState, agent
    <3>3. QED
      BY <1>1, <3>1, <3>2, Zenon
  <2>2. TypeOK'
    BY <1>0, <2>1, Zenon DEF TypeOK
  <2>3. CallInv'
    BY <1>0, <2>1, CallsUntouched, Zenon DEF callState
  <2>4. SentInv' /\ ArrivedInv'
    BY <1>0, <2>1, Zenon DEF SentInv, ArrivedInv, Carries
  <2>5. QED
    BY <2>2, <2>3, <2>4, Zenon DEF ConnInv, CallInv, SentInv, ArrivedInv
<1>2. CASE CloseDrains
  <2>1. /\ DrainPending /\ closing' = "drained"
        /\ UNCHANGED <<closed, outgoing, incoming, tasks, aborting, link,
                       atAgent, asks, handlers, answered>>
    BY <1>2, Zenon DEF CloseDrains, channel, agent
  <2>2. CallInv' /\ pending' = {} /\ UNCHANGED <<pc, id, nextId>>
        /\ result' \in [Calls -> Calls \cup {"none", "closed"}]
    BY <1>0, <2>1, DrainKeeps, Zenon
  <2>3. TypeOK'
    BY <1>0, <2>1, <2>2, Zenon DEF TypeOK
  <2>4. SentInv' /\ ArrivedInv'
    BY <1>0, <2>1, <2>2, Zenon DEF SentInv, ArrivedInv, Carries
  <2>5. QED
    BY <2>2, <2>3, <2>4, Zenon DEF ConnInv, CallInv, SentInv, ArrivedInv
<1>3. ASSUME NEW t \in aborting, TaskAborted(t) PROVE ConnInv'
  <2>1. /\ outgoing' \subseteq outgoing
        /\ UNCHANGED <<pc, id, nextId, pending, result, closed, closing, incoming, aborting,
                       link, atAgent, asks, handlers, answered>>
    BY <1>3, Zenon DEF TaskAborted, callState, agent
  <2>2. tasks' \in [{"reader", "writer", "loop"} -> {"up", "ended", "flagged", "down"}]
    BY <1>0, <1>3, Zenon DEF TypeOK, TaskAborted
  <2>3. TypeOK'
    BY <1>0, <2>1, <2>2, Zenon DEF TypeOK
  <2>4. CallInv'
    BY <1>0, <2>1, CallsUntouched, Zenon DEF callState
  <2>5. SentInv' /\ ArrivedInv'
    BY <1>0, <2>1, Zenon DEF SentInv, ArrivedInv, Carries
  <2>6. QED
    BY <2>3, <2>4, <2>5, Zenon DEF ConnInv, CallInv, SentInv, ArrivedInv
<1>4. QED
  BY <1>1, <1>2, <1>3, Zenon

(***************************************************************************)
(* Nothing the tasks of the connection do, in any order, breaks ConnInv.   *)
(***************************************************************************)
THEOREM ConnInvariant == Spec => []ConnInv
<1>1. ASSUME Init PROVE ConnInv
  <2>1. /\ pc \in [Calls -> {"idle", "checked", "allocated", "registered", "waiting", "done"}]
        /\ id \in [Calls -> Nat]
        /\ result \in [Calls -> Calls \cup {"none", "closed"}]
        /\ tasks \in [{"reader", "writer", "loop"} -> {"up", "ended", "flagged", "down"}]
    BY <1>1, Zenon DEF Init
  <2>2. incoming = << >> /\ incoming \in Seq(Event) /\ DOMAIN incoming = {}
    BY <1>1 DEF Init
  <2>3. TypeOK
    <3>1. asks \in 0..MaxAsks /\ nextId \in Nat \ {0}
      BY <1>1, CapacityAssumption DEF Init
    <3>2. QED
      BY <1>1, <2>1, <2>2, <3>1, Zenon DEF Init, TypeOK
  <2>4. IdsFresh /\ AnswerMatches /\ WaitingHasResolver
    BY <1>1, CallsAssumption DEF Init, IdsFresh, AnswerMatches, WaitingHasResolver
  <2>5. QED
    BY <1>1, <2>2, <2>3, <2>4, Zenon DEF Init, ConnInv
<1>2. ASSUME ConnInv, UNCHANGED vars PROVE ConnInv'
  <2>1. UNCHANGED callState /\ UNCHANGED <<id, closed, outgoing, incoming, tasks, aborting,
                              link, closing, atAgent, asks, handlers, answered>>
    BY <1>2, Zenon DEF vars, callState, channel, agent
  <2>2. CallInv'
    BY <1>2, <2>1, CallsUntouched, Zenon DEF ConnInv, CallInv
  <2>3. TypeOK'
    BY <1>2, <2>1, Zenon DEF ConnInv, TypeOK, callState
  <2>4. SentInv' /\ ArrivedInv'
    BY <1>2, <2>1, Zenon DEF ConnInv, SentInv, ArrivedInv, Carries
  <2>5. QED
    BY <2>2, <2>3, <2>4, Zenon DEF ConnInv, CallInv, SentInv, ArrivedInv
<1>3. ConnInv /\ Next => ConnInv'
  BY InvokeStep, ChannelStep, LoopStep, CloseStep, Zenon DEF Next
<1>4. QED
  BY <1>1, <1>2, <1>3, PTL DEF Spec

(***************************************************************************)
(* invoke() never returns the agent's answer to another request, however   *)
(* many calls are in flight and whatever ids the agent's own requests have *)
(* (dispatch_frame of agent_conn.rs).                                      *)
(***************************************************************************)
THEOREM AnswersMatch == Spec => []AnswerMatches
<1>1. ConnInv => AnswerMatches
  BY Zenon DEF ConnInv
<1>2. QED
  BY <1>1, ConnInvariant, PTL

(***************************************************************************)
(* A call that waits without a value is in the pending map, where the      *)
(* drain at the end of the connection finds it.                            *)
(***************************************************************************)
THEOREM WaitersAreResolvable == Spec => []WaitingHasResolver
<1>1. ConnInv => WaitingHasResolver
  BY Zenon DEF ConnInv
<1>2. QED
  BY <1>1, ConnInvariant, PTL

=============================================================================
