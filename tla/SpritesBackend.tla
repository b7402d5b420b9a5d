--------------------------- MODULE SpritesBackend ---------------------------
(***************************************************************************)
(* backend/sprites.rs: one Sprites API call per step, plus the map of      *)
(* local tunnels.  ensure works on the prefixed name, the other operations *)
(* on the name they are given.                                             *)
(***************************************************************************)
EXTENDS BackendCalls

\* sprite_exists
SpriteFind(c) ==
  /\ At(c, "ensure", "start")
  /\ \/ Goto(c, IF Exists(call[c].key) THEN "ready" ELSE "create") /\ Steady
     \/ Fails(c) /\ UNCHANGED <<tun, raced>>

\* create_sprite: 409 counts as created.
SpriteCreate(c) ==
  /\ At(c, "ensure", "create") /\ UNCHANGED <<tun, raced>>
  /\ LET n == call[c].key
     IN  \/ ~ Exists(n) /\ Becomes(n, [id |-> call[c].seq, st |-> "made"], c, "ready") /\ UNCHANGED faults
         \/ Exists(n) /\ Goto(c, "ready") /\ UNCHANGED faults
         \/ Fails(c)

\* wait_ready: 120 polls, a 404 included.
SpriteReady(c) ==
  /\ At(c, "ensure", "ready")
  /\ \/ Goto(c, IF box[call[c].key].st \in {"down", "up"} THEN "halt" ELSE "err") /\ Steady
     \/ Fails(c) /\ UNCHANGED <<tun, raced>>

\* stop_agent: 404 (no such service, or sprite) counts as stopped.
SpriteHalt(c) ==
  /\ At(c, "ensure", "halt") /\ UNCHANGED <<tun, raced>>
  /\ LET n == call[c].key
     IN  \/ Up(box[n]) /\ Becomes(n, [box[n] EXCEPT !.st = "down"], c, "upload") /\ UNCHANGED faults
         \/ ~ Up(box[n]) /\ Goto(c, "upload") /\ UNCHANGED faults
         \/ Fails(c)

\* upload_agent
SpriteUpload(c) ==
  /\ At(c, "ensure", "upload")
  /\ \/ Goto(c, IF Exists(call[c].key) THEN "launch" ELSE "err") /\ Steady
     \/ Fails(c) /\ UNCHANGED <<tun, raced>>

\* start_agent: mkdir, define the service, start it
SpriteLaunch(c) ==
  /\ At(c, "ensure", "launch") /\ UNCHANGED <<tun, raced>>
  /\ LET n == call[c].key
     IN  \/ box[n].st \in {"down", "up"} /\ Becomes(n, [box[n] EXCEPT !.st = "up"], c, "tunnel") /\ UNCHANGED faults
         \/ box[n].st \notin {"down", "up"} /\ Goto(c, "err") /\ UNCHANGED faults
         \/ Fails(c)

\* local_tunnel_url: reuse or open the tunnel, under the lock of the map.
SpriteTunnel(c) ==
  /\ At(c, "ensure", "tunnel") \/ At(c, "url", "start")
  /\ LET n == call[c].key
     IN  \/ /\ Goto(c, "ok") /\ tun' = tun \cup {n} /\ UNCHANGED faults
            /\ raced' = IF \E d \in Callers : Active(d) /\ call[d].fn = "destroy" /\ call[d].key = n
                        THEN raced \cup {n} ELSE raced
         \/ n \notin tun /\ Fails(c) /\ UNCHANGED <<tun, raced>>

\* Mutant of SpriteUntunnel: destroy keeps the tunnel.
SpriteUntunnelKeeps(c) == At(c, "destroy", "start") /\ Goto(c, "delete") /\ Steady

\* destroy forgets the tunnel first ...
SpriteUntunnel(c) ==
  /\ At(c, "destroy", "start")
  /\ Goto(c, "delete") /\ tun' = tun \ {call[c].key} /\ UNCHANGED <<raced, faults>>

\* ... and then deletes the sprite; 404 counts as done.
SpriteDelete(c) ==
  /\ At(c, "destroy", "delete") /\ UNCHANGED tun
  /\ LET n == call[c].key
         used == \E d \in Callers \ {c} : call[d].op \in {"spawn", "attach"} /\ n \in {call[d].key, call[d].name}
     IN  \/ /\ IF Exists(n) THEN Becomes(n, Absent, c, "removed") ELSE Goto(c, "removed")
            /\ raced' = IF used THEN raced \cup {n} ELSE raced
            /\ UNCHANGED faults
         \/ Fails(c) /\ UNCHANGED raced

SpritesStep(c) ==
  /\ kind.name = "sprites"
  /\ \/ SpriteFind(c) \/ SpriteCreate(c) \/ SpriteReady(c) \/ SpriteHalt(c)
     \/ SpriteUpload(c) \/ SpriteLaunch(c) \/ SpriteTunnel(c)
     \/ SpriteUntunnel(c) \/ SpriteDelete(c)
=============================================================================
