----------------------------- MODULE Connection -----------------------------
(***************************************************************************)
(* The client end of one multiplexed RPC link, in both implementations     *)
(* that speak the protocol: the Rust pair Transport / Connection           *)
(* (crates/utils/transport/src/{transport,connection}.rs) and the          *)
(* TypeScript pair (packages/transport/src/{transport,connection}.ts).     *)
(* opts.impl says which one a behaviour runs, opts.reconnect whether       *)
(* reconnecting is configured, opts.closes whether the TypeScript owner    *)
(* closes the connection in its onDisconnect, as GatewayClient does and    *)
(* the web client does not.                                                *)
(*                                                                         *)
(* Rust: user calls push commands into `cmds`; a driver task owns the      *)
(* socket and pushes `events`; a pump task dispatches them.  TypeScript:   *)
(* everything runs in socket callbacks, so a callback runs to completion   *)
(* before anything else (`Quiet`).                                         *)
(*                                                                         *)
(* A request is registered with a channel state (the root channel or one   *)
(* incarnation of a stream); `reg` is the stream map, which only finds the *)
(* current incarnation of a stream.                                        *)
(***************************************************************************)
EXTENDS Naturals, Sequences, FiniteSets, Functions

CONSTANTS
    Streams,      \* stream ids
    MaxReqs,      \* bound: requests of any plan
    MaxGen,       \* bound: incarnations of a stream, of any plan
    MaxAttempts,  \* ReconnectOptions.attempts
    Plans         \* what a behaviour may do: bounds on its requests, stream
                  \* incarnations, reconnects, peer frames, pings in flight
                  \* and heartbeat calls

ASSUME BoundsNat == MaxReqs \in Nat /\ MaxGen \in Nat /\ MaxAttempts \in Nat
ASSUME PlansBounded == Plans \subseteq [reqs : 0..MaxReqs, gens : 0..MaxGen, socks : Nat,
                                        notes : Nat, pings : Nat, toggles : Nat]

VARIABLES
    opts,      \* [impl, reconnect, closes, plan]
    closed,    \* the transport's closed flag
    cmds,      \* Rust: commands not yet taken by the driver
    sock,      \* "open" | "lost" (not noticed yet) | "wait" | "dial" | "gone"
               \*   | "dead": a TypeScript dial that failed after the first connect
    socks,     \* sockets opened by reconnecting
    attempts,  \* reconnect_attempts
    out,       \* frames on their way to the peer
    in,        \* frames on their way from the peer
    hb,        \* [on, tick, armed]: heartbeat enabled, TypeScript's interval timer
               \*   running, pong deadline running
    late,      \* TypeScript: timed-out sockets whose close event is still to come
    toggles,   \* heartbeat calls made
    events,    \* events not yet dispatched
    pump,      \* Rust pump task: "run" | "streams" | "ended"
    made,      \* incarnations of each stream so far
    reg,       \* the stream map: current incarnation, 0 if absent
    pend,      \* pending requests of each channel state
    dying,     \* Rust: states removed by a stream close, not yet rejected
    closer,    \* Connection::close: "idle" | "streams" | "transport" | "done"
    req,       \* [Reqs -> [inst, st]]
    busy,      \* requests the peer is handling for the current socket
    notes,     \* notifications the peer has sent
    \* history
    sends,     \* requests in the order they were handed to the transport
    served,    \* requests in the order the peer took them up
    got,       \* notifications in the order they were dispatched
    silent,    \* a ping of this socket is unanswered
    reported,  \* the end of the link was reported upwards
    stranded   \* requests registered where no later sweep looks

link == <<opts, closed, cmds, sock, socks, attempts, out, in, hb, late, toggles, events, silent, reported>>
chan == <<pump, made, reg, pend, dying, closer, req, sends, got, stranded>>
peer == <<busy, notes, served>>
vars == <<link, chan, peer>>

Root == <<"root", 0>>
Reqs == 1..MaxReqs
Insts == {Root} \cup (Streams \X (1..MaxGen))
Rust == opts.impl = "rust"
Ts == opts.impl = "ts"
Quiet == Rust \/ events = <<>>

Waiting == {r \in Reqs : req[r].st \in {"inserted", "sent"}}
Made == {r \in Reqs : req[r].st # "new"}
\* Requests are numbered in the order they are made.
Fresh(r) == r = Cardinality(Made) + 1 /\ r <= opts.plan.reqs
Frame(k, r) == [k |-> k, r |-> r]
ReqNames(i) == i[1]

Init ==
    /\ opts \in [impl : {"rust", "ts"}, reconnect : BOOLEAN, closes : BOOLEAN, plan : Plans]
    /\ Rust => ~opts.closes
    /\ closed = FALSE /\ cmds = <<>> /\ sock = "open" /\ socks = 0 /\ attempts = 0
    /\ out = <<>> /\ in = <<>> /\ toggles = 0 /\ events = <<>>
    /\ hb \in {[on |-> b, tick |-> b, armed |-> FALSE] : b \in BOOLEAN} /\ late = 0
    /\ pump = "run" /\ made = [n \in Streams |-> 0] /\ reg = made
    /\ pend = [i \in Insts |-> {}] /\ dying = {} /\ closer = "idle"
    /\ req = [r \in Reqs |-> [inst |-> Root, st |-> "new"]]
    /\ busy = {} /\ notes = 0
    /\ sends = <<>> /\ served = <<>> /\ got = <<>>
    /\ silent = FALSE /\ reported = FALSE /\ stranded = {}

-----------------------------------------------------------------------------
(* Channel states.                                                         *)

\* ChannelState::reject_all_pending on a set of states.
Reject(is) ==
    /\ pend' = [i \in Insts |-> IF i \in is THEN {} ELSE pend[i]]
    /\ req' = [r \in Reqs |-> IF r \in UNION {pend[i] : i \in is} THEN [req[r] EXCEPT !.st = "err"] ELSE req[r]]

Registered == {<<n, reg[n]>> : n \in {m \in Streams : reg[m] # 0}}

\* No sweep that is still to come covers this state: it has left the map, or
\* the sweep of the root or of the map has already passed.
Swept(i) ==
    \/ pump = "ended" \/ closer \in {"transport", "done"}
    \/ i = Root /\ (pump = "streams" \/ closer = "streams")
    \/ i # Root /\ i \notin Registered \cup dying

\* stream(): look up or insert.
Open(n) ==
    /\ Quiet /\ reg[n] = 0 /\ made[n] < opts.plan.gens
    /\ made' = [made EXCEPT ![n] = @ + 1] /\ reg' = [reg EXCEPT ![n] = made[n] + 1]
    /\ UNCHANGED <<link, peer, pump, pend, dying, closer, req, sends, got, stranded>>

OpenStream(n) == Rust /\ Open(n)
TsOpenStream(n) == Ts /\ Open(n)

Handles == {Root} \cup {i \in Streams \X (1..MaxGen) : i[2] <= made[i[1]]}

\* send_request, first half: register the reply slot.
Insert(r, i) ==
    /\ Rust /\ Fresh(r) /\ i \in Handles
    /\ pend' = [pend EXCEPT ![i] = @ \cup {r}]
    /\ req' = [req EXCEPT ![r] = [inst |-> i, st |-> "inserted"]]
    /\ stranded' = IF Swept(i) THEN stranded \cup {r} ELSE stranded
    /\ UNCHANGED <<link, peer, pump, made, reg, dying, closer, sends, got>>

\* send_request, second half, with Transport::send: dropped once closed is set
\* or the driver has returned.
SendReq(r) ==
    /\ Rust /\ req[r].st \in {"inserted", "err"} /\ r \notin Range(sends)
    /\ req' = [req EXCEPT ![r].st = IF @ = "inserted" THEN "sent" ELSE @]
    /\ sends' = Append(sends, r)
    /\ cmds' = IF closed \/ sock = "gone" THEN cmds ELSE Append(cmds, Frame("req", r))
    /\ UNCHANGED <<peer, pump, made, reg, pend, dying, closer, got, stranded,
                   opts, closed, sock, socks, attempts, out, in, hb, late, toggles, events, silent, reported>>

\* Connection.request / Stream.request: slot and frame in one go; the frame is
\* dropped unless the socket is open.
TsRequest(r, i) ==
    /\ Ts /\ Quiet /\ Fresh(r) /\ i \in Handles
    /\ pend' = [pend EXCEPT ![i] = @ \cup {r}]
    /\ req' = [req EXCEPT ![r] = [inst |-> i, st |-> "sent"]]
    /\ stranded' = IF Swept(i) THEN stranded \cup {r} ELSE stranded
    /\ sends' = Append(sends, r)
    /\ out' = IF sock = "open" /\ ~closed THEN Append(out, Frame("req", r)) ELSE out
    /\ UNCHANGED <<peer, pump, made, reg, dying, closer, got,
                   opts, closed, cmds, sock, socks, attempts, in, hb, late, toggles, events, silent, reported>>

\* Stream::close from any handle, and close_stream: whatever the map holds
\* under the id is removed; its requests are rejected by a task of its own.
CloseStream(n) ==
    /\ Rust /\ reg[n] # 0
    /\ dying' = dying \cup {<<n, reg[n]>>} /\ reg' = [reg EXCEPT ![n] = 0]
    /\ UNCHANGED <<link, peer, pump, made, pend, closer, req, sends, got, stranded>>

RejectClosed(i) ==
    /\ i \in dying /\ dying' = dying \ {i} /\ Reject({i})
    /\ UNCHANGED <<link, peer, pump, made, reg, closer, sends, got, stranded>>

\* Stream.close of the handle i, then closeStream: its own requests and those
\* of the incarnation the map holds.
TsCloseStream(i) ==
    /\ Ts /\ Quiet /\ i \in Handles \ {Root}
    /\ Reject({i} \cup {j \in Registered : j[1] = i[1]})
    /\ reg' = [reg EXCEPT ![i[1]] = 0]
    /\ UNCHANGED <<link, peer, pump, made, dying, closer, sends, got, stranded>>

-----------------------------------------------------------------------------
(* Closing the connection.                                                 *)

\* Connection::close: reject_all, root first, then the streams it takes out of
\* the map, then Transport::close.
CloseRoot ==
    /\ Rust /\ closer = "idle" /\ closer' = "streams" /\ Reject({Root})
    /\ UNCHANGED <<link, peer, pump, made, reg, dying, sends, got, stranded>>

\* Mutant of CloseStreams: the streams are dropped without rejecting their requests.
CloseStreamsForgets ==
    /\ closer = "streams" /\ closer' = "transport" /\ reg' = [n \in Streams |-> 0]
    /\ UNCHANGED <<link, peer, pump, made, dying, sends, got, stranded, pend, req>>

CloseStreams ==
    /\ closer = "streams" /\ closer' = "transport"
    /\ Reject(Registered) /\ reg' = [n \in Streams |-> 0]
    /\ UNCHANGED <<link, peer, pump, made, dying, sends, got, stranded>>

CloseTransport ==
    /\ closer = "transport" /\ closer' = "done" /\ closed' = TRUE
    /\ cmds' = IF closed \/ sock = "gone" THEN cmds ELSE Append(cmds, Frame("close", 0))
    /\ UNCHANGED <<peer, pump, made, reg, pend, dying, req, sends, got, stranded,
                   opts, sock, socks, attempts, out, in, hb, late, toggles, events, silent, reported>>

\* Connection.close, with the transport's close: all in one call.
TsCloseAll ==
    /\ closer' = "done" /\ Reject(Insts \cap ({Root} \cup Registered)) /\ reg' = [n \in Streams |-> 0]
    /\ closed' = TRUE /\ hb' = [hb EXCEPT !.armed = FALSE, !.tick = FALSE]

TsClose ==
    /\ Ts /\ Quiet /\ TsCloseAll
    /\ sock' = (IF sock \in {"open", "lost"} THEN "lost" ELSE "gone") /\ busy' = {}
    /\ UNCHANGED <<pump, made, dying, sends, got, stranded, notes, served,
                   opts, cmds, socks, attempts, out, in, late, toggles, events, silent, reported>>

-----------------------------------------------------------------------------
(* The Rust driver task.                                                   *)

Driving == Rust /\ sock \in {"open", "lost"}

\* A reconnect round starts, or the driver gives up and says so.
\* attempt_reconnect, top of the loop.
EnterWait ==
    IF attempts < MaxAttempts
    THEN sock' = "wait" /\ attempts' = attempts + 1 /\ UNCHANGED <<events, reported>>
    ELSE sock' = "gone" /\ events' = Append(events, Frame("disconnected", 0)) /\ reported' = TRUE
         /\ UNCHANGED attempts

\* The inner loop broke: reconnect if configured, otherwise report and return.
LeaveSocket ==
    IF opts.reconnect
    THEN EnterWait /\ UNCHANGED closed
    ELSE /\ sock' = "gone" /\ events' = Append(events, Frame("disconnected", 0))
         /\ reported' = TRUE /\ closed' = TRUE /\ UNCHANGED attempts

\* DriverCmd::Send, StartHeartbeat and StopHeartbeat.  A write to a lost socket
\* may be accepted by the kernel; the frame is gone either way.
DriverCmd ==
    /\ Driving /\ cmds # <<>> /\ Head(cmds).k # "close"
    /\ cmds' = Tail(cmds)
    /\ CASE Head(cmds).k = "start" -> hb' = [hb EXCEPT !.on = TRUE] /\ UNCHANGED out
         [] Head(cmds).k = "stop" -> hb' = [hb EXCEPT !.on = FALSE, !.armed = FALSE] /\ UNCHANGED out
         [] OTHER -> out' = (IF sock = "open" THEN Append(out, Head(cmds)) ELSE out) /\ UNCHANGED hb
    /\ UNCHANGED <<chan, peer, opts, closed, sock, socks, attempts, in, late, toggles, events, silent, reported>>

\* DriverCmd::Close: close the socket and return; no event is sent.
DriverClose ==
    /\ Driving /\ cmds # <<>> /\ Head(cmds).k = "close"
    /\ cmds' = <<>> /\ sock' = "gone" /\ closed' = TRUE /\ in' = <<>> /\ busy' = {}
    /\ UNCHANGED <<chan, notes, served, opts, socks, attempts, out, hb, late, toggles, events, silent, reported>>

\* Mutant of DriverNotice: the end of the read side goes unnoticed.
DriverNoticeWrites ==
    /\ Driving /\ sock = "lost" /\ cmds # <<>> /\ Head(cmds).k # "close" /\ LeaveSocket
    /\ in' = <<>> /\ cmds' = Tail(cmds)
    /\ UNCHANGED <<chan, peer, opts, socks, out, hb, late, toggles, silent>>

\* A failed write or the end of the read side.
DriverNotice ==
    /\ Driving /\ sock = "lost" /\ LeaveSocket
    /\ in' = <<>>
    /\ cmds' \in {cmds, IF cmds # <<>> /\ Head(cmds).k # "close" THEN Tail(cmds) ELSE cmds}
    /\ UNCHANGED <<chan, peer, opts, socks, out, hb, late, toggles, silent>>

\* An inbound frame: heartbeats are handled here, the rest becomes an event.
DriverRead ==
    /\ Driving /\ in # <<>> /\ in' = Tail(in)
    /\ CASE Head(in).k = "pong" -> /\ hb' = [hb EXCEPT !.armed = FALSE] /\ silent' = FALSE
                                   /\ UNCHANGED <<out, events>>
         [] Head(in).k = "ping" -> /\ out' = IF sock = "open" THEN Append(out, Frame("pong", 0)) ELSE out
                                   /\ UNCHANGED <<hb, silent, events>>
         [] OTHER -> events' = Append(events, Head(in)) /\ UNCHANGED <<hb, silent, out>>
    /\ UNCHANGED <<chan, peer, opts, closed, cmds, sock, socks, attempts, late, toggles, reported>>

\* Pings and pongs in flight.
Beats == Cardinality({j \in DOMAIN out : out[j].k = "ping"}) + Cardinality({j \in DOMAIN in : in[j].k = "pong"})

\* The heartbeat ticks: a ping, and a new deadline.
Ping ==
    /\ Quiet /\ (IF Rust THEN hb.on ELSE hb.tick) /\ sock \in {"open", "lost"}
    /\ Beats < opts.plan.pings
    /\ out' = IF sock = "open" THEN Append(out, Frame("ping", 0)) ELSE out
    /\ hb' = [hb EXCEPT !.armed = TRUE] /\ silent' = TRUE
    /\ UNCHANGED <<chan, peer, opts, closed, cmds, sock, socks, attempts, in, late, toggles, events, reported>>

HbTick == Rust /\ Ping
TsSendPing == Ts /\ Ping

\* The deadline passes: HeartbeatDead / onDead, which the connection ignores.
HbDead ==
    /\ Quiet /\ hb.armed /\ sock \in {"open", "lost"}
    /\ hb' = [hb EXCEPT !.armed = FALSE]
    /\ UNCHANGED <<chan, peer, opts, closed, cmds, sock, socks, attempts, out, in, late, toggles, events, silent, reported>>

\* Mutant of WaitCmd: the command that ends the wait goes back into the queue.
WaitCmdRequeues ==
    /\ Rust /\ sock = "wait" /\ cmds # <<>> /\ sock' = "dial"
    /\ cmds' = Append(Tail(cmds), Head(cmds)) /\ UNCHANGED closed
    /\ UNCHANGED <<chan, peer, opts, socks, attempts, out, in, hb, late, toggles, events, silent, reported>>

\* attempt_reconnect: any command ends the wait at once.  Close ends the
\* driver, every other command is dropped.
WaitCmd ==
    /\ Rust /\ sock = "wait" /\ cmds # <<>>
    /\ IF Head(cmds).k = "close"
       THEN sock' = "gone" /\ closed' = TRUE /\ cmds' = <<>>
       ELSE sock' = "dial" /\ cmds' = Tail(cmds) /\ UNCHANGED closed
    /\ UNCHANGED <<chan, peer, opts, socks, attempts, out, in, hb, late, toggles, events, silent, reported>>

\* The delay has passed (both implementations).
WaitTimer ==
    /\ sock = "wait" /\ sock' = "dial"
    /\ UNCHANGED <<chan, peer, opts, closed, cmds, socks, attempts, out, in, hb, late, toggles, events, silent, reported>>

\* Mutant of Opened: the pong deadline of the lost socket survives.
OpenedKeepsDeadline ==
    /\ sock = "dial" /\ socks < opts.plan.socks
    /\ sock' = "open" /\ socks' = socks + 1 /\ attempts' = 0
    /\ silent' = FALSE
    /\ UNCHANGED <<chan, peer, opts, closed, cmds, out, in, late, toggles, events, reported, hb>>

\* A dial succeeds: a new socket with a heartbeat state of its own.
Opened ==
    /\ sock = "dial" /\ socks < opts.plan.socks
    /\ sock' = "open" /\ socks' = socks + 1 /\ attempts' = 0
    /\ hb' = [hb EXCEPT !.armed = FALSE, !.tick = hb.on] /\ silent' = FALSE
    /\ UNCHANGED <<chan, peer, opts, closed, cmds, out, in, late, toggles, events, reported>>

DialOk == Rust /\ Opened
TsOnOpen == Ts /\ Opened

\* Mutant of DialFail: the driver returns after a failed dial.
DialFailReturns ==
    /\ Rust /\ sock = "dial" /\ sock' = "gone"
    /\ UNCHANGED <<chan, peer, opts, closed, cmds, socks, out, in, hb, late, toggles, silent, attempts, events, reported>>

DialFail ==
    /\ Rust /\ sock = "dial" /\ EnterWait
    /\ UNCHANGED <<chan, peer, opts, closed, cmds, socks, out, in, hb, late, toggles, silent>>

\* start_heartbeat / stop_heartbeat.
HeartbeatCmd(k) ==
    /\ Rust /\ toggles < opts.plan.toggles /\ toggles' = toggles + 1
    /\ cmds' = IF sock = "gone" THEN cmds ELSE Append(cmds, Frame(k, 0))
    /\ UNCHANGED <<chan, peer, opts, closed, sock, socks, attempts, out, in, hb, late, events, silent, reported>>

-----------------------------------------------------------------------------
(* The TypeScript transport's callbacks.                                   *)

TsHeartbeat(on) ==
    /\ Ts /\ Quiet /\ toggles < opts.plan.toggles /\ toggles' = toggles + 1
    /\ hb' = [on |-> on, tick |-> on /\ sock \in {"open", "lost"}, armed |-> FALSE]
    /\ UNCHANGED <<chan, peer, opts, closed, cmds, sock, socks, attempts, out, in, late, events, silent, reported>>

\* The "message" listener.
TsMessage ==
    /\ Ts /\ Quiet /\ sock \in {"open", "lost"} /\ in # <<>> /\ in' = Tail(in)
    /\ CASE Head(in).k = "pong" -> /\ hb' = [hb EXCEPT !.armed = FALSE] /\ silent' = FALSE
                                   /\ UNCHANGED <<out, events>>
         [] Head(in).k = "ping" -> /\ out' = IF sock = "open" THEN Append(out, Frame("pong", 0)) ELSE out
                                   /\ UNCHANGED <<hb, silent, events>>
         [] OTHER -> events' = <<Head(in)>> /\ UNCHANGED <<hb, silent, out>>
    /\ UNCHANGED <<chan, peer, opts, closed, cmds, sock, socks, attempts, late, toggles, reported>>

\* scheduleReconnect: arm the timer, or report the failure.
TsScheduleReconnect ==
    IF attempts < MaxAttempts
    THEN sock' = "wait" /\ attempts' = attempts + 1 /\ UNCHANGED reported
    ELSE sock' = "gone" /\ reported' = TRUE /\ UNCHANGED attempts

\* The "close" listener of a socket that had opened: the owner's onDisconnect, which
\* may close the connection, then scheduleReconnect.  Nothing else tells the callers.
TsSocketClosed ==
    /\ Ts /\ Quiet /\ sock = "lost" /\ in = <<>>
    /\ IF ~closed /\ opts.closes
       THEN TsCloseAll /\ sock' = "gone" /\ reported' = TRUE /\ UNCHANGED attempts
       ELSE /\ hb' = [hb EXCEPT !.armed = FALSE, !.tick = FALSE] /\ UNCHANGED <<closer, pend, req, reg, closed>>
            /\ CASE closed -> sock' = "gone" /\ UNCHANGED <<attempts, reported>>
                 [] ~closed /\ opts.reconnect -> TsScheduleReconnect
                 [] OTHER -> sock' = "gone" /\ reported' = TRUE /\ UNCHANGED attempts
    /\ UNCHANGED <<pump, made, dying, sends, got, stranded, peer,
                   opts, cmds, socks, out, in, late, toggles, events, silent>>

\* connect(): the connect timeout passes before the socket opens; its close event is
\* still to come ...
TsConnectTimeout ==
    /\ Ts /\ sock = "dial" /\ TsScheduleReconnect /\ late' = late + 1
    /\ UNCHANGED <<chan, peer, opts, closed, cmds, socks, out, in, hb, toggles, events, silent>>

\* ... and stops whatever heartbeat runs then, that of a newer socket included.
TsLateClose ==
    /\ Ts /\ Quiet /\ late > 0 /\ late' = late - 1
    /\ hb' = [hb EXCEPT !.armed = FALSE, !.tick = FALSE]
    /\ UNCHANGED <<chan, peer, opts, closed, cmds, sock, socks, attempts, out, in, toggles, events, silent, reported>>

\* connect(): the socket fails before it opens.  Once the first connect has
\* settled, onError schedules nothing and the close listener returns early.
TsDialError ==
    /\ Ts /\ sock = "dial" /\ sock' = "dead"
    /\ UNCHANGED <<chan, peer, opts, closed, cmds, socks, attempts, out, in, hb, late, toggles, events, silent, reported>>

-----------------------------------------------------------------------------
(* Dispatch: the Rust pump task, and handleMessage in TypeScript.          *)

\* handle_frame and dispatch: a tagged frame goes to the incarnation the map
\* holds, if any; a response resolves the request it names if that channel
\* state is waiting for it; a notification reaches the handlers.
Deliver ==
    /\ pump = "run" /\ events # <<>> /\ Head(events).k \in {"resp", "note"}
    /\ events' = Tail(events)
    /\ LET e == Head(events)
           n == IF e.k = "resp" THEN ReqNames(req[e.r].inst) ELSE "root"
           i == IF n = "root" THEN Root ELSE <<n, reg[n]>>
       IN IF e.k = "note" THEN got' = Append(got, e.r) /\ UNCHANGED <<pend, req>>
          ELSE IF i \in Insts /\ e.r \in pend[i]
          THEN /\ pend' = [pend EXCEPT ![i] = @ \ {e.r}]
               /\ req' = [req EXCEPT ![e.r].st = "ok"] /\ UNCHANGED got
          ELSE UNCHANGED <<pend, req, got>>
    /\ UNCHANGED <<peer, pump, made, reg, dying, closer, sends, stranded,
                   opts, closed, cmds, sock, socks, attempts, out, in, hb, late, toggles, silent, reported>>

\* The pump's Frame branch, and Connection.handleMessage.
Dispatch == Rust /\ Deliver
HandleMessage == Ts /\ Deliver

\* TransportEvent::Disconnected: reject_all, then the pump returns.
PumpRoot ==
    /\ pump = "run" /\ events # <<>> /\ Head(events).k = "disconnected"
    /\ events' = Tail(events) /\ pump' = "streams" /\ Reject({Root})
    /\ UNCHANGED <<peer, made, reg, dying, closer, sends, got, stranded,
                   opts, closed, cmds, sock, socks, attempts, out, in, hb, late, toggles, silent, reported>>

PumpStreams ==
    /\ pump = "streams" /\ pump' = "ended"
    /\ Reject(Registered) /\ reg' = [n \in Streams |-> 0]
    /\ UNCHANGED <<link, peer, made, dying, closer, sends, got, stranded>>

\* The driver is gone without an event: the event queue ends.
PumpEof ==
    /\ Rust /\ pump = "run" /\ events = <<>> /\ sock = "gone" /\ pump' = "ended"
    /\ UNCHANGED <<link, peer, made, reg, pend, dying, closer, req, sends, got, stranded>>

-----------------------------------------------------------------------------
(* The network and the peer.                                               *)

\* The socket fails.  What had reached this side can still be read; requests
\* the peer is handling will be answered into the dead socket.
SockLost ==
    /\ sock = "open" /\ sock' = "lost"
    /\ out' = <<>> /\ busy' = {} /\ \E k \in 0..Len(in) : in' = SubSeq(in, 1, k)
    /\ UNCHANGED <<chan, notes, served, opts, closed, cmds, socks, attempts, hb, late, toggles, events, silent, reported>>

\* The peer reads a frame: a request with a handler starts a task, one without
\* is ignored; a ping is answered, unless the peer hangs.
PeerRead ==
    /\ out # <<>> /\ out' = Tail(out)
    /\ \/ /\ Head(out).k = "req" /\ served' = Append(served, Head(out).r)
          /\ busy' = IF sock = "open" THEN busy \cup {Head(out).r} ELSE busy
          /\ UNCHANGED in
       \/ /\ Head(out).k = "ping" /\ sock = "open" /\ in' = Append(in, Frame("pong", 0))
          /\ UNCHANGED <<busy, served>>
       \/ UNCHANGED <<busy, served, in>>
    /\ UNCHANGED <<chan, notes, opts, closed, cmds, sock, socks, attempts, hb, late, toggles, events, silent, reported>>

\* A handler task finishes: the response carries the id and the stream tag.
PeerAnswer(r) ==
    /\ sock = "open" /\ r \in busy /\ busy' = busy \ {r} /\ in' = Append(in, Frame("resp", r))
    /\ UNCHANGED <<chan, notes, served, opts, closed, cmds, sock, socks, attempts, out, hb, late, toggles, events, silent, reported>>

PeerNotify ==
    /\ sock = "open" /\ notes < opts.plan.notes /\ notes' = notes + 1
    /\ in' = Append(in, Frame("note", notes + 1))
    /\ UNCHANGED <<chan, busy, served, opts, closed, cmds, sock, socks, attempts, out, hb, late, toggles, events, silent, reported>>

PeerPing ==
    /\ sock = "open" /\ notes < opts.plan.notes /\ notes' = notes + 1
    /\ in' = Append(in, Frame("ping", 0))
    /\ UNCHANGED <<chan, busy, served, opts, closed, cmds, sock, socks, attempts, out, hb, late, toggles, events, silent, reported>>

-----------------------------------------------------------------------------
UserNext ==
    \/ \E n \in Streams : OpenStream(n) \/ TsOpenStream(n) \/ CloseStream(n)
    \/ \E i \in Insts : TsCloseStream(i) \/ \E r \in Reqs : Insert(r, i) \/ TsRequest(r, i)
    \/ \E k \in {"start", "stop"} : HeartbeatCmd(k)
    \/ \E on \in BOOLEAN : TsHeartbeat(on)
    \/ CloseRoot \/ TsClose

CallNext == CloseStreams \/ CloseTransport \/ (\E r \in Reqs : SendReq(r)) \/ (\E i \in Insts : RejectClosed(i))
DriverNext == DriverCmd \/ DriverClose \/ DriverNotice \/ DriverRead \/ WaitCmd \/ DialFail
TsNext == TsMessage \/ TsSocketClosed \/ TsConnectTimeout \/ TsLateClose \/ TsDialError
TimerNext == WaitTimer \/ DialOk \/ TsOnOpen \/ HbTick \/ TsSendPing \/ HbDead
PumpNext == Dispatch \/ HandleMessage \/ PumpRoot \/ PumpStreams \/ PumpEof
PeerNext == SockLost \/ PeerRead \/ PeerNotify \/ PeerPing \/ \E r \in Reqs : PeerAnswer(r)

Next == UserNext \/ CallNext \/ DriverNext \/ TsNext \/ TimerNext \/ PumpNext \/ PeerNext

Spec == Init /\ [][Next]_vars

\* Tasks, callbacks and timers run; users, the network and the peer need not.
FairSpec ==
    /\ Spec
    /\ WF_vars(CallNext) /\ WF_vars(DriverNext \/ TsNext \/ WaitTimer) /\ WF_vars(PumpNext)

-----------------------------------------------------------------------------
(* Properties.                                                             *)

Ended == IF Rust THEN pump = "ended" ELSE closer = "done"

\* Once the connection has ended, by close or by a reported disconnect, the
\* only callers still waiting are those that registered after the sweep had
\* passed their channel state (they wait for ever: no request has a timeout).
\* reject_all, close_stream and their callers.
NoneLeftWaiting == Ended => \A r \in Waiting : r \in stranded \/ req[r].inst \in dying

\* The peer takes up a request at most once and in the order the requests were
\* handed to the transport, across socket losses, dropped commands and
\* reconnects; a caller gets a result only for a request the peer took up.
\* Notification handlers see the peer's notifications in order and without
\* repetition.  The event queue and handle_frame.
ServedInOrder ==
    /\ \A j, k \in DOMAIN served : j < k =>
          \E a, b \in DOMAIN sends : a < b /\ sends[a] = served[j] /\ sends[b] = served[k]
    /\ \A r \in Reqs : req[r].st = "ok" => r \in Range(served)
    /\ \A j, k \in DOMAIN got : j < k => got[j] < got[k]

\* A pong deadline only runs while a ping sent on the current socket is
\* unanswered, so HeartbeatDead never condemns a socket for an earlier one.
\* The heartbeat branches of the drivers and of connect().
DeadlineIsCurrent == hb.armed /\ sock \in {"open", "lost"} => silent

\* With reconnecting configured, a transport nobody closed has a socket, is on
\* its way to one, or has reported its end.  The one state outside is the
\* TypeScript dial that fails with an error after the first connect: it is
\* neither retried nor reported.
RetryAlive ==
    opts.reconnect /\ ~closed =>
        sock \in {"open", "lost", "wait", "dial"} \/ reported \/ (Ts /\ sock = "dead")

\* A lost socket is noticed, and a caller still registered when the link is gone for
\* good is told so.  In TypeScript the transport tells nobody but the owner: callers
\* hear of it from an owner that closes the connection in onDisconnect, as
\* GatewayClient does, and wait for ever with one that does not, as the web client.
\* run_client_driver, the pump task, the close listener.
LossSettles ==
    /\ sock = "lost" ~> sock # "lost"
    /\ \A r \in Reqs : (sock = "gone" /\ r \in Waiting \ stranded /\ (Rust \/ opts.closes)) ~> (r \notin Waiting)
=============================================================================
