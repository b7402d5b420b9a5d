------------------------------ MODULE AgentConn ------------------------------
(***************************************************************************)
(* The gateway's connection to one nexal-agent: AgentConn (crates/         *)
(* nexal-gateway/src/agent_conn.rs) over MessageChannel (crates/utils/     *)
(* transport/src/message_channel.rs).                                      *)
(*                                                                         *)
(* Several calls of invoke() run at once.  Both ends number their requests *)
(* from 1, so a frame from the agent is a response to the gateway or a     *)
(* request of the agent's own with the same id; only the presence of       *)
(* "method" tells them apart.  Tasks: the channel's reader and writer, the *)
(* loop of run_reader(), one handler task per request of the agent, and    *)
(* the caller of close().  abort() only asks a task to stop: it stops at   *)
(* its next await.  Notifications are left out.                            *)
(***************************************************************************)
EXTENDS Naturals, Sequences, FiniteSets

CONSTANTS
    Calls,          \* the calls of invoke()
    Capacity,       \* CHANNEL_CAPACITY
    MaxAsks         \* bound: requests the agent sends

ASSUME CapacityAssumption == Capacity \in Nat \ {0} /\ MaxAsks \in Nat
ASSUME CallsAssumption == {"none", "closed"} \cap Calls = {}

VARIABLES
    pc,             \* where each invoke() is
    id,             \* its request id
    nextId,
    pending,        \* id -> oneshot sender, as a set of pairs
    result,         \* what the oneshot of a call holds
    closed,
    outgoing,       \* the mpsc queue of the writer
    incoming,       \* the mpsc queue of run_reader()
    tasks,          \* state of the tasks "reader", "writer" and "loop"
    aborting,       \* tasks whose abort() has been called
    closing,        \* progress of close()
    link,           \* the socket is connected
    atAgent,        \* requests the agent has and has not answered
    asks,           \* number of requests the agent has sent
    handlers,       \* ids of the agent's requests being handled
    answered        \* ids the agent has got an answer for

callState == <<pc, id, nextId, pending, result>>
channel == <<outgoing, incoming, tasks, aborting, link>>
agent == <<atAgent, asks, handlers, answered>>
vars == <<callState, closed, channel, closing, agent>>

Entry == [id : Nat \ {0}, call : Calls]
Request == [kind : {"request"}, id : Nat \ {0}, call : Calls]
Answer == [kind : {"answer"}, id : Nat \ {0}]
Event ==
    [kind : {"response"}, id : Nat \ {0}, call : Calls]
        \cup [kind : {"ask"}, id : Nat \ {0}] \cup [kind : {"disconnected"}]

TypeOK ==
    /\ pc \in [Calls -> {"idle", "checked", "allocated", "registered", "waiting", "done"}]
    /\ id \in [Calls -> Nat]
    /\ nextId \in Nat \ {0}
    /\ pending \subseteq Entry
    /\ result \in [Calls -> Calls \cup {"none", "closed"}]
    /\ closed \in BOOLEAN
    /\ outgoing \subseteq Request \cup Answer
    /\ incoming \in Seq(Event)
    /\ tasks \in [{"reader", "writer", "loop"} -> {"up", "ended", "flagged", "down"}]
    /\ aborting \subseteq {"reader", "writer", "loop"}
    /\ closing \in {"no", "flagged", "aborted", "drained"}
    /\ link \in BOOLEAN
    /\ atAgent \subseteq Request
    /\ asks \in 0..MaxAsks
    /\ handlers \subseteq Nat \ {0}
    /\ answered \subseteq Nat \ {0}

Init ==
    /\ pc = [c \in Calls |-> "idle"]
    /\ id = [c \in Calls |-> 0]
    /\ nextId = 1
    /\ pending = {}
    /\ result = [c \in Calls |-> "none"]
    /\ closed = FALSE
    /\ outgoing = {}
    /\ incoming = << >>
    /\ tasks = [t \in {"reader", "writer", "loop"} |-> "up"]
    /\ aborting = {}
    /\ closing = "no"
    /\ link = TRUE
    /\ atAgent = {}
    /\ asks = 0
    /\ handlers = {}
    /\ answered = {}

-----------------------------------------------------------------------------
(* invoke(): every lock is a step of its own.                               *)

Goto(c, at) == pc' = [pc EXCEPT ![c] = at]

CheckClosed(c) ==
    /\ pc[c] = "idle"
    /\ IF closed
         THEN Goto(c, "done") /\ result' = [result EXCEPT ![c] = "closed"]
         ELSE Goto(c, "checked") /\ UNCHANGED result
    /\ UNCHANGED <<id, nextId, pending, closed, channel, closing, agent>>

\* Mutant of AllocateId: the counter is read and written back without its lock held.
AllocateIdUnlocked(c) ==
    /\ pc[c] = "checked"
    /\ id' = [id EXCEPT ![c] = nextId]
    /\ \E n \in {nextId, nextId + 1} : nextId' = n
    /\ Goto(c, "allocated")
    /\ UNCHANGED <<pending, result, closed, channel, closing, agent>>

AllocateId(c) ==
    /\ pc[c] = "checked"
    /\ id' = [id EXCEPT ![c] = nextId]
    /\ nextId' = nextId + 1
    /\ Goto(c, "allocated")
    /\ UNCHANGED <<pending, result, closed, channel, closing, agent>>

\* HashMap::insert replaces an entry with the same id.
Register(c) ==
    /\ pc[c] = "allocated"
    /\ pending' = {e \in pending : e.id # id[c]} \cup {[id |-> id[c], call |-> c]}
    /\ Goto(c, "registered")
    /\ UNCHANGED <<id, nextId, result, closed, channel, closing, agent>>

Send(c) ==
    /\ pc[c] = "registered"
    /\ tasks["writer"] = "up"
    /\ Cardinality(outgoing) < Capacity
    /\ outgoing' = outgoing \cup {[kind |-> "request", id |-> id[c], call |-> c]}
    /\ Goto(c, "waiting")
    /\ UNCHANGED <<id, nextId, pending, result, closed, incoming, tasks, aborting, link,
                   closing, agent>>

\* The receiver is gone; the entry in pending stays.
SendFails(c) ==
    /\ pc[c] = "registered"
    /\ tasks["writer"] = "down"
    /\ result' = [result EXCEPT ![c] = "closed"]
    /\ Goto(c, "done")
    /\ UNCHANGED <<id, nextId, pending, closed, channel, closing, agent>>

Return(c) ==
    /\ pc[c] = "waiting"
    /\ result[c] # "none"
    /\ Goto(c, "done")
    /\ UNCHANGED <<id, nextId, pending, result, closed, channel, closing, agent>>

-----------------------------------------------------------------------------
(* The channel's tasks, the socket and the agent at its other end.          *)

Disconnected == [kind |-> "disconnected"]

WriterSends(m) ==
    /\ tasks["writer"] = "up"
    /\ link
    /\ m \in outgoing
    /\ outgoing' = outgoing \ {m}
    /\ IF m.kind = "request"
         THEN atAgent' = atAgent \cup {m} /\ UNCHANGED answered
         ELSE answered' = answered \cup {m.id} /\ UNCHANGED atAgent
    /\ UNCHANGED <<callState, closed, incoming, tasks, aborting, link, closing, asks, handlers>>

\* A failed write ends the writer, which drops what is queued.
WriterFails ==
    /\ tasks["writer"] = "up"
    /\ ~link
    /\ outgoing # {}
    /\ outgoing' = {}
    /\ incoming' = Append(incoming, Disconnected)
    /\ tasks' = [tasks EXCEPT !["writer"] = "down"]
    /\ UNCHANGED <<callState, closed, aborting, link, closing, agent>>

LinkDrops ==
    /\ link
    /\ link' = FALSE
    /\ UNCHANGED <<callState, closed, outgoing, incoming, tasks, aborting, closing, agent>>

ReaderEnds ==
    /\ tasks["reader"] = "up"
    /\ ~link
    /\ incoming' = Append(incoming, Disconnected)
    /\ tasks' = [tasks EXCEPT !["reader"] = "down"]
    /\ UNCHANGED <<callState, closed, outgoing, aborting, link, closing, agent>>

\* The agent answers in any order; the frame reaches the reader task, perhaps
\* after the link is lost.
AgentResponds(m) ==
    /\ tasks["reader"] = "up"
    /\ m \in atAgent
    /\ atAgent' = atAgent \ {m}
    /\ incoming' = Append(incoming, [kind |-> "response", id |-> m.id, call |-> m.call])
    /\ UNCHANGED <<callState, closed, outgoing, tasks, aborting, link, closing, asks,
                   handlers, answered>>

\* The agent's own requests are numbered from 1 too.
AgentAsks ==
    /\ tasks["reader"] = "up"
    /\ asks < MaxAsks
    /\ asks' = asks + 1
    /\ incoming' = Append(incoming, [kind |-> "ask", id |-> asks + 1])
    /\ UNCHANGED <<callState, closed, outgoing, tasks, aborting, link, closing, atAgent,
                   handlers, answered>>

-----------------------------------------------------------------------------
(* run_reader() and dispatch_frame().                                       *)

Resolve(entries, value(_)) ==
    result' = [c \in Calls |->
        IF pc[c] # "done" /\ \E e \in entries : e.call = c THEN value(c) ELSE result[c]]

\* Mutant of Matching: a frame is taken for a response because its id is pending,
\* whether or not it has a method.
MatchingAnyFrame(f) == {e \in pending : f.kind # "disconnected" /\ e.id = f.id}

\* The pending call a frame answers: it has an id and no method.
Matching(f) == {e \in pending : f.kind = "response" /\ e.id = f.id}

\* What a frame tells the call it is taken to answer; the parameters of a request
\* are nobody's answer.
Payload(f, c) == IF f.kind = "response" THEN f.call ELSE CHOOSE d \in Calls : d # c

LoopTakes(kinds) ==
    /\ tasks["loop"] = "up"
    /\ incoming # << >>
    /\ Head(incoming).kind \in kinds
    /\ incoming' = Tail(incoming)

DispatchResponse ==
    /\ LoopTakes({"response", "ask"})
    /\ LET f == Head(incoming) IN
         /\ Matching(f) # {}
         /\ pending' = pending \ Matching(f)
         /\ Resolve(Matching(f), LAMBDA c : Payload(f, c))
    /\ UNCHANGED <<pc, id, nextId, closed, outgoing, tasks, aborting, link, closing, agent>>

\* A frame that matches no pending call goes to the request handler.
DispatchToHandler ==
    /\ LoopTakes({"response", "ask"})
    /\ Matching(Head(incoming)) = {}
    /\ handlers' = handlers \cup {Head(incoming).id}
    /\ UNCHANGED <<callState, closed, outgoing, tasks, aborting, link, closing, atAgent,
                   asks, answered>>

HandlerReplies(n) ==
    /\ n \in handlers
    /\ handlers' = handlers \ {n}
    /\ \/ tasks["writer"] = "down" /\ UNCHANGED outgoing
       \/ /\ tasks["writer"] = "up"
          /\ Cardinality(outgoing) < Capacity
          /\ outgoing' = outgoing \cup {[kind |-> "answer", id |-> n]}
    /\ UNCHANGED <<callState, closed, incoming, tasks, aborting, link, closing, atAgent,
                   asks, answered>>

LoopEnds ==
    /\ LoopTakes({"disconnected"})
    /\ tasks' = [tasks EXCEPT !["loop"] = "ended"]
    /\ UNCHANGED <<callState, closed, outgoing, aborting, link, closing, agent>>

\* Mutant of LoopFlags: the reader task ends without draining.
LoopFlagsOnly ==
    /\ tasks["loop"] = "ended"
    /\ closed' = TRUE
    /\ tasks' = [tasks EXCEPT !["loop"] = "down"]
    /\ UNCHANGED <<callState, outgoing, incoming, aborting, link, closing, agent>>

LoopFlags ==
    /\ tasks["loop"] = "ended"
    /\ closed' = TRUE
    /\ tasks' = [tasks EXCEPT !["loop"] = "flagged"]
    /\ UNCHANGED <<callState, outgoing, incoming, aborting, link, closing, agent>>

DrainPending ==
    /\ Resolve(pending, LAMBDA c : "closed")
    /\ pending' = {}
    /\ UNCHANGED <<pc, id, nextId>>

LoopDrains ==
    /\ tasks["loop"] = "flagged"
    /\ DrainPending
    /\ tasks' = [tasks EXCEPT !["loop"] = "down"]
    /\ UNCHANGED <<closed, outgoing, incoming, aborting, link, closing, agent>>

-----------------------------------------------------------------------------
(* close().                                                                 *)

CloseFlags ==
    /\ closing = "no"
    /\ closed' = TRUE
    /\ closing' = "flagged"
    /\ UNCHANGED <<callState, channel, agent>>

CloseAborts ==
    /\ closing = "flagged"
    /\ aborting' = {t \in DOMAIN tasks : tasks[t] # "down"}
    /\ closing' = "aborted"
    /\ UNCHANGED <<callState, closed, outgoing, incoming, tasks, link, agent>>

CloseDrains ==
    /\ closing = "aborted"
    /\ DrainPending
    /\ closing' = "drained"
    /\ UNCHANGED <<closed, channel, agent>>

\* The runtime drops an aborted task, and a dropped writer its queue.
TaskAborted(t) ==
    /\ t \in aborting
    /\ tasks[t] # "down"
    /\ tasks' = [tasks EXCEPT ![t] = "down"]
    /\ outgoing' = IF t = "writer" THEN {} ELSE outgoing
    /\ UNCHANGED <<callState, closed, incoming, aborting, link, closing, agent>>

-----------------------------------------------------------------------------
Invoke(c) ==
    CheckClosed(c) \/ AllocateId(c) \/ Register(c) \/ Send(c) \/ SendFails(c) \/ Return(c)

Writer == WriterFails \/ \E m \in outgoing : WriterSends(m)

Loop == DispatchResponse \/ DispatchToHandler \/ LoopEnds \/ LoopFlags \/ LoopDrains

Peer == LinkDrops \/ AgentAsks \/ \E m \in atAgent : AgentResponds(m)

Handlers == \E n \in handlers : HandlerReplies(n)

Next ==
    \/ \E c \in Calls : Invoke(c)
    \/ Writer \/ ReaderEnds \/ Loop \/ Peer \/ Handlers
    \/ CloseFlags \/ CloseAborts \/ CloseDrains
    \/ \E t \in aborting : TaskAborted(t)

Spec == Init /\ [][Next]_vars

(***************************************************************************)
(* The runtime polls every ready task: callers, channel tasks, the loop,   *)
(* handlers, a started close().  Nothing forces the agent to answer, the   *)
(* link to drop or anyone to call close().                                 *)
(***************************************************************************)
Fairness ==
    /\ \A c \in Calls : WF_vars(Invoke(c))
    /\ WF_vars(Writer) /\ WF_vars(ReaderEnds) /\ WF_vars(Loop) /\ WF_vars(Handlers)
    /\ WF_vars(CloseAborts) /\ WF_vars(CloseDrains)
    /\ \A t \in {"reader", "writer", "loop"} : WF_vars(TaskAborted(t))

FairSpec == Spec /\ Fairness

-----------------------------------------------------------------------------
(* Properties.                                                              *)

\* A call of invoke() that gets an answer gets the agent's answer to its own
\* request, whatever ids the agent uses for requests of its own and in whatever
\* order it answers (dispatch_frame, ids of next_id).
AnswerMatches == \A c \in Calls : result[c] \in Calls => result[c] = c

\* While a call waits for its oneshot, somebody can still resolve it: its sender
\* is in the pending map until a value is sent.  This is what makes the drain at
\* the end of the connection sufficient for the calls registered by then.
WaitingHasResolver ==
    \A c \in Calls :
        pc[c] \in {"registered", "waiting"} /\ result[c] = "none"
            => [id |-> id[c], call |-> c] \in pending

\* The inductive invariant behind the two: ids are given out once, and every entry,
\* request and response carries the id of the call it is about.
IdsFresh ==
    \A c \in Calls :
        /\ id[c] < nextId
        /\ pc[c] \in {"idle", "checked"} => id[c] = 0
        /\ pc[c] \in {"allocated", "registered", "waiting"} => id[c] # 0
        /\ \A d \in Calls \ {c} : id[c] = id[d] => id[c] = 0

Carries(m) == m.id = id[m.call]

ConnInv ==
    /\ TypeOK
    /\ IdsFresh
    /\ \A e \in pending : Carries(e)
    /\ \A m \in outgoing \cup atAgent : m.kind = "request" => Carries(m)
    /\ \A i \in DOMAIN incoming : incoming[i].kind = "response" => Carries(incoming[i])
    /\ AnswerMatches
    /\ WaitingHasResolver

\* A call that is in the pending map when the reader loop ends, or when close()
\* is about to drain, returns.
RegisteredResolves ==
    \A c \in Calls :
        ( /\ closing # "drained"
          /\ tasks["loop"] = "ended" \/ closing = "aborted"
          /\ [id |-> id[c], call |-> c] \in pending ) ~> pc[c] = "done"

\* What the module comment of agent_conn.rs says of close(): pending invocations
\* resolve with Closed, so no call in progress outlasts it.
CloseResolves ==
    \A c \in Calls : (closing = "drained" /\ pc[c] # "idle") ~> pc[c] = "done"
=============================================================================
