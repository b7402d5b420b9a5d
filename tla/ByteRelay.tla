------------------------------ MODULE ByteRelay ------------------------------
(***************************************************************************)
(* One connection through each of the paths that relay bytes:              *)
(*   "tcp"      a stream proxy of the gateway (proxy/tcp.rs),              *)
(*   "http"     a proxy socket in the container (nexal-agent/src/proxy.rs),*)
(*   "forward"  one request to the HTTP proxy (proxy/server.rs),           *)
(*   "sprites"  the tunnel to a sprite (backend/sprites.rs),               *)
(*   "accept"   the gateway's front door, which reads a request head to    *)
(*              tell WebSocket from health check and replays it            *)
(*              (server.rs).                                               *)
(* Bytes are items: "get" opens a request head, "up" is its upgrade line,  *)
(* "blank" ends it; "ack" is a text message of the sprites service.  TCP   *)
(* delivers in order what was written before a close.                      *)
(***************************************************************************)
EXTENDS Naturals, Sequences, SequencesExt

CONSTANT Dialogs   \* [kind, say] : what each side wants to send

VARIABLES kind, todo,   \* the dialog of this behaviour, and what is left to say
          at,           \* where the relay is
          fin,          \* side -> it has closed its sending end
          sent,         \* side -> history: all it sent
          wire,         \* side -> sent and not yet read by the relay
          hold,         \* side -> read by the relay and not yet passed on
          got,          \* side -> received from the relay
          first,        \* the side whose end of stream ended the relay, or "none"
          late          \* the sprites service acknowledged after the time-out

relayVars == <<kind, todo, at, fin, sent, wire, hold, got, first, late>>
ends == <<todo, fin, sent>>

Sides == {"client", "upstream"}
Other(s) == IF s = "client" THEN "upstream" ELSE "client"

RelayInit ==
  /\ \E d \in Dialogs : kind = d.kind /\ todo = d.say
  /\ at = CASE kind = "http" -> "head" [] kind = "forward" -> "lookup"
            [] kind = "accept" -> "head" [] OTHER -> "dial"
  /\ fin = [s \in Sides |-> FALSE] /\ sent = [s \in Sides |-> <<>>]
  /\ wire = [s \in Sides |-> <<>>] /\ hold = [s \in Sides |-> <<>>] /\ got = [s \in Sides |-> <<>>]
  /\ first = "none" /\ late = FALSE

-----------------------------------------------------------------------------
(* The two ends.                                                            *)

Reached(s) == s = "client" \/ at \in {"init", "bridge", "stream"}

Speak(s) ==
  /\ at # "done" /\ Reached(s) /\ ~fin[s] /\ todo[s] # <<>>
  /\ todo' = [todo EXCEPT ![s] = Tail(@)] /\ sent' = [sent EXCEPT ![s] = Append(@, Head(todo[s]))]
  /\ wire' = [wire EXCEPT ![s] = Append(@, Head(todo[s]))]
  /\ UNCHANGED <<kind, at, fin, hold, got, first, late>>

HangUp(s) ==
  /\ at # "done" /\ Reached(s) /\ ~fin[s]
  /\ fin' = [fin EXCEPT ![s] = TRUE]
  /\ UNCHANGED <<kind, todo, at, sent, wire, hold, got, first, late>>

-----------------------------------------------------------------------------
(* The relay.                                                               *)

Eof(s) == fin[s] /\ wire[s] = <<>>
Tell(s, items) == got' = [got EXCEPT ![s] = @ \o items]

\* A read takes some of what has arrived.
Take(s) == \E n \in 1..Len(wire[s]) :
  /\ wire' = [wire EXCEPT ![s] = SubSeq(@, n + 1, Len(@))]
  /\ hold' = [hold EXCEPT ![s] = @ \o SubSeq(wire[s], 1, n)]

\* A connection or a write fails: both ends are dropped.
Broken ==
  /\ at \in {"dial", "init", "bridge"} \/ (at = "head" /\ kind = "http")
  /\ at' = "done"
  /\ UNCHANGED <<kind, ends, wire, hold, got, first, late>>

HeadEnd(items) == IF \E i \in DOMAIN items : items[i] = "blank" THEN SelectInSeq(items, LAMBDA x : x = "blank") ELSE 0

\* handle_connection: read until the head is complete; without one, return.
ReadHead ==
  /\ at = "head" /\ kind = "http" /\ HeadEnd(hold["client"]) = 0
  /\ \/ Take("client") /\ UNCHANGED at
     \/ Eof("client") /\ at' = "done" /\ UNCHANGED <<wire, hold>>
  /\ UNCHANGED <<kind, ends, got, first, late>>

\* Mutant of Rewrite: what was read behind the head is not sent.
RewriteHeadOnly(items) == <<"H">>

\* The rewritten head and the bytes read behind it.
Rewrite(items) == <<"H">> \o SubSeq(items, HeadEnd(items) + 1, Len(items))

Rewritten ==
  /\ at = "head" /\ kind = "http" /\ HeadEnd(hold["client"]) > 0
  /\ at' = "bridge" /\ Tell("upstream", Rewrite(hold["client"]))
  /\ hold' = [hold EXCEPT !["client"] = <<>>]
  /\ UNCHANGED <<kind, ends, wire, first, late>>

\* serve: lines up to the blank one or the end of input; a head that asks for
\* no upgrade is answered as a health check.
ReadLine ==
  /\ at = "head" /\ kind = "accept" /\ HeadEnd(hold["client"]) = 0 /\ wire["client"] # <<>>
  /\ hold' = [hold EXCEPT !["client"] = Append(@, Head(wire["client"]))]
  /\ wire' = [wire EXCEPT !["client"] = Tail(@)]
  /\ UNCHANGED <<kind, ends, at, got, first, late>>

Accepted ==
  /\ at = "head" /\ kind = "accept" /\ (HeadEnd(hold["client"]) > 0 \/ Eof("client"))
  /\ IF Contains(hold["client"], "up") THEN at' = "bridge" /\ UNCHANGED got
     ELSE at' = "done" /\ Tell("client", <<"200">>)
  /\ UNCHANGED <<kind, ends, wire, hold, first, late>>

\* relay, proxy_one: the connection to the other side.
Dialed ==
  /\ at = "dial" /\ at' = IF kind = "sprites" THEN "init" ELSE "bridge"
  /\ UNCHANGED <<kind, ends, wire, hold, got, first, late>>

\* proxy_one: the first message within 500 ms is dropped when it is a text.
InitResponse ==
  /\ at = "init" /\ wire["upstream"] # <<>>
  /\ at' = "bridge" /\ wire' = [wire EXCEPT !["upstream"] = Tail(@)]
  /\ Tell("client", IF Head(wire["upstream"]) = "ack" THEN <<>> ELSE <<Head(wire["upstream"])>>)
  /\ UNCHANGED <<kind, ends, hold, first, late>>

InitTimeout ==
  /\ at = "init" /\ at' = "bridge" /\ late' = (got["client"] = <<>>)
  /\ UNCHANGED <<kind, ends, wire, hold, got, first>>

\* The two copies of select!: read, write, and the end of either, with which
\* the other is dropped together with what it holds.
CopyRead(s) ==
  /\ at = "bridge" /\ hold[s] = <<>> /\ Take(s)
  /\ UNCHANGED <<kind, ends, at, got, first, late>>

CopyWrite(s) ==
  /\ at = "bridge" /\ hold[s] # <<>>
  /\ Tell(Other(s), hold[s]) /\ hold' = [hold EXCEPT ![s] = <<>>]
  /\ UNCHANGED <<kind, ends, at, wire, first, late>>

CopyEnds(s) ==
  /\ at = "bridge" /\ hold[s] = <<>> /\ Eof(s)
  /\ at' = "done" /\ first' = s
  /\ UNCHANGED <<kind, ends, wire, hold, got, late>>

\* forward: an unknown token, a body that breaks off, an upstream that fails
\* and one that answers; the body is collected before anything is sent.
Lookup ==
  /\ at = "lookup" /\ HeadEnd(wire["client"]) > 0
  /\ \/ at' = "collect" /\ UNCHANGED got
     \/ at' = "done" /\ Tell("client", <<"404">>)
  /\ UNCHANGED <<kind, ends, wire, hold, first, late>>

CollectBody ==
  /\ at = "collect"
  /\ \/ Take("client") /\ UNCHANGED <<at, got>>
     \/ Eof("client") /\ at' = "send" /\ UNCHANGED <<wire, hold, got>>
     \/ at' = "done" /\ Tell("client", <<"400">>) /\ UNCHANGED <<wire, hold>>
  /\ UNCHANGED <<kind, ends, first, late>>

SendUpstream ==
  /\ at = "send"
  /\ \/ at' = "stream" /\ Tell("upstream", Rewrite(hold["client"]))
     \/ at' = "done" /\ Tell("client", <<"502">>)
  /\ UNCHANGED <<kind, ends, wire, hold, first, late>>

StreamResponse ==
  /\ at = "stream"
  /\ \/ /\ wire["upstream"] # <<>> /\ Tell("client", wire["upstream"])
        /\ wire' = [wire EXCEPT !["upstream"] = <<>>] /\ UNCHANGED <<at, first>>
     \/ Eof("upstream") /\ at' = "done" /\ first' = "upstream" /\ UNCHANGED <<wire, got>>
  /\ UNCHANGED <<kind, ends, hold, late>>

RelayNext ==
  \/ \E s \in Sides : Speak(s) \/ HangUp(s) \/ CopyRead(s) \/ CopyWrite(s) \/ CopyEnds(s)
  \/ Broken \/ ReadHead \/ Rewritten \/ ReadLine \/ Accepted \/ Dialed \/ InitResponse \/ InitTimeout
  \/ Lookup \/ CollectBody \/ SendUpstream \/ StreamResponse

-----------------------------------------------------------------------------
\* What upstream and client may see of what the other side sent.
Passed(s) ==
  CASE s = "client" /\ kind \in {"http", "forward"} -> <<"H">> \o SubSeq(sent[s], HeadEnd(sent[s]) + 1, Len(sent[s]))
    [] s = "upstream" /\ kind = "sprites" -> IF sent[s] # <<>> /\ Head(sent[s]) = "ack" THEN Tail(sent[s]) ELSE sent[s]
    [] OTHER -> sent[s]

\* Each side receives, in order and without gap or repetition, what the other
\* sent, with the first request head rewritten where the proxy does so and the
\* head the front door looked at replayed; the direction whose end of stream
\* ended the relay is complete, and a forwarded request reaches upstream whole
\* or not at all.  Only the other direction may be cut short (select! drops
\* it).  A proxy that answers itself sends one status and nothing else, and an
\* acknowledgement of the sprites service that comes after 500 ms reaches the
\* client as data.
RelayExact ==
  /\ \A s \in Sides : \/ IsPrefix(got[Other(s)], Passed(s))
                      \/ s = "upstream" /\ got["client"] \in {<<"200">>, <<"400">>, <<"404">>, <<"502">>}
                      \/ s = "upstream" /\ late /\ IsPrefix(got["client"], sent[s])
  /\ at = "done" /\ first # "none" /\ ~late => got[Other(first)] = Passed(first)
  /\ kind = "forward" => got["upstream"] \in {<<>>, Passed("client")}
=============================================================================
