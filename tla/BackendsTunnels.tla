-------------------------- MODULE BackendsTunnels ---------------------------
(***************************************************************************)
(* The local tunnels of the Sprites backend: TunnelInv is inductive relative *)
(* to BackendInv, so every tunnel leads to a sprite unless its sprite was  *)
(* destroyed under another request.                                        *)
(***************************************************************************)
EXTENDS BackendsProofs

\* A caller moving on leaves the tunnels sound if it relies on nothing new.
LEMMA TunnelGoto ==
  ASSUME BackendInv, TunnelInv, kind.name = "sprites", NEW c \in Callers, NEW p, Goto(c, p),
         tun' \subseteq tun, raced \subseteq raced',
         call[c].fn = "ensure" /\ p \in {"ready", "halt", "upload", "launch", "tunnel"} => Here(call[c].key),
         call[c].op = "attach" /\ (call[c].fn \in {"ensure", "url"} \/ p = "ok") => Here(call[c].name),
         call[c].fn = "destroy" /\ p = "delete" => call[c].key \notin tun' \/ call[c].key \in raced
  PROVE  TunnelInv'
<1>1. call \in [Callers -> Requests] /\ tun \subseteq Names /\ TunnelsLead /\ \A d \in Callers : Relies(call[d])
  BY DEF BackendInv, TraitInv, TypeOK, Requests, TunnelInv
<1>2. box' = box /\ kind' = kind
  BY DEF Goto, GotoWith, world
<1>3. \A d \in Callers : /\ call'[d].op = call[d].op /\ call'[d].name = call[d].name
                         /\ call'[d].fn = call[d].fn /\ call'[d].key = call[d].key
                         /\ call'[d].at = IF d = c THEN p ELSE call[d].at
  BY <1>1 DEF Goto, GotoWith, Requests
<1>4. \A n : Here(n) => Here(n)'
  BY <1>2 DEF Here, Exists
<1>5. TunnelsLead'
  BY <1>1, <1>2 DEF TunnelsLead, Exists
<1>6. ASSUME NEW d \in Callers
      PROVE  Relies(call[d])'
  BY <1>1, <1>3, <1>4 DEF Relies
<1> QED BY <1>1, <1>2, <1>5, <1>6 DEF TunnelInv

\* A container changing without going leaves the tunnels sound.
LEMMA TunnelTurn ==
  ASSUME BackendInv, TunnelInv, kind.name = "sprites", NEW n \in Names, NEW b, NEW c, NEW p, NEW i,
         BecomesWith(n, b, c, p, i), b.id > 0, UNCHANGED <<tun, raced>>,
         c \in Callers => call[c].fn = "ensure" /\ call[c].key = n
  PROVE  TunnelInv'
<1>1. /\ call \in [Callers -> Requests] /\ box \in [Names -> Boxes]
      /\ tun \subseteq Names /\ TunnelsLead /\ \A d \in Callers : Relies(call[d])
  BY DEF BackendInv, TraitInv, TypeOK, Requests, Boxes, TunnelInv
<1>2. box' = [box EXCEPT ![n] = b] /\ kind' = kind
  BY DEF BecomesWith, world
<1>3. \A d \in Callers : /\ call'[d].op = call[d].op /\ call'[d].name = call[d].name
                         /\ call'[d].fn = call[d].fn /\ call'[d].key = call[d].key
                         /\ call'[d].at = IF d = c THEN p ELSE call[d].at
  BY <1>1, ZenonT(60) DEF BecomesWith, Requests
<1>4. \A m \in Names : Here(m) => Here(m)'
  BY <1>1, <1>2 DEF Here, Exists
<1>5. TunnelsLead'
  BY <1>1, <1>4 DEF TunnelsLead, Here
<1>6. Here(n)'
  BY <1>1, <1>2 DEF Here, Exists
<1>7. ASSUME NEW d \in Callers
      PROVE  Relies(call[d])'
  <2>1. call[d].key \in Names /\ call[d].name \in Names
    BY <1>1 DEF Requests
  <2> QED BY <1>1, <1>3, <1>4, <1>6, <2>1 DEF Relies
<1> QED BY <1>1, <1>2, <1>5, <1>7 DEF TunnelInv

\* The registry's requests: attach goes on only from a sprite it has found.
LEMMA TunnelRegistry ==
  ASSUME BackendInv, TunnelInv, kind.name = "sprites", NEW c \in Callers, Begin(c) \/ Deliver(c)
  PROVE  TunnelInv'
<1>1. /\ call \in [Callers -> Requests] /\ tun \subseteq Names /\ TunnelsLead /\ \A d \in Callers : Relies(call[d])
  BY DEF BackendInv, TraitInv, TypeOK, Requests, TunnelInv
<1>2. box' = box /\ kind' = kind /\ tun' = tun /\ raced' = raced
  BY DEF Begin, Deliver, Enter, Steady
<1>3. TunnelsLead'
  BY <1>1, <1>2 DEF TunnelsLead, Exists
<1>4. \A n : Here(n)' <=> Here(n)
  BY <1>2 DEF Here, Exists
<1>5. \A d \in Callers \ {c} : call'[d] = call[d]
  BY <1>1 DEF Begin, Deliver, Enter
<1>6. ASSUME NEW op, NEW fn, NEW n, NEW s, Enter(c, op, fn, n, s), op = "attach" /\ fn \in {"ensure", "url"} => Here(n)
      PROVE  Relies(call[c])'
  <2>1. /\ call'[c].op = op /\ call'[c].name = n /\ call'[c].fn = fn /\ call'[c].at = "start"
    BY <1>1, <1>6 DEF Enter
  <2> QED BY <1>4, <1>6, <2>1 DEF Relies
<1>7. Relies(call[c])'
  <2>1. CASE Begin(c)
    BY <1>6, <2>1 DEF Begin
  <2>2. CASE Deliver(c)
    <3>1. call[c].op = "attach" /\ call[c].at = "ok" => Here(call[c].name)
      BY <1>1 DEF Relies
    <3>2. CASE /\ call[c].op = "attach" /\ call[c].at = "ok"
               /\ \/ Enter(c, "attach", "ensure", call[c].name, call[c].seq)
                  \/ Enter(c, "attach", "url", call[c].name, call[c].seq)
      BY <1>6, <3>1, <3>2
    <3>3. CASE call' = [call EXCEPT ![c] = NoCall]
      <4>1. call'[c] = NoCall
        BY <1>1, <3>3
      <4> QED BY <4>1 DEF NoCall, Relies
    <3> QED BY <2>2, <3>2, <3>3 DEF Deliver
  <2> QED BY <2>1, <2>2
<1> QED BY <1>1, <1>2, <1>3, <1>4, <1>5, <1>7 DEF TunnelInv, Relies

\* Opening a tunnel: its sprite was found or made by this request, and a destroy
\* about to delete it counts as having raced.
LEMMA TunnelOpened ==
  ASSUME BackendInv, TunnelInv, kind.name = "sprites", NEW c \in Callers, SpriteTunnel(c)
  PROVE  TunnelInv'
<1> DEFINE n == call[c].key
<1>1. /\ call \in [Callers -> Requests] /\ tun \subseteq Names /\ TunnelsLead /\ \A d \in Callers : Relies(call[d])
      /\ \A d \in Callers : Named(call[d])
  BY DEF BackendInv, TraitInv, TypeOK, NamesInv, Requests, TunnelInv
<1>2. Here(n) /\ (call[c].op = "attach" => Here(call[c].name))
  BY <1>1 DEF SpriteTunnel, At, Relies, Named
<1>3. CASE Fails(c) /\ UNCHANGED <<tun, raced>>
  BY <1>2, <1>3, TunnelGoto DEF Fails
<1>4. CASE /\ Goto(c, "ok") /\ tun' = tun \cup {n}
           /\ raced' = IF \E d \in Callers : Active(d) /\ call[d].fn = "destroy" /\ call[d].key = n
                       THEN raced \cup {n} ELSE raced
  <2>1. box' = box /\ kind' = kind
    BY <1>4 DEF Goto, GotoWith, world
  <2>2. \A d \in Callers : /\ call'[d].op = call[d].op /\ call'[d].name = call[d].name
                           /\ call'[d].fn = call[d].fn /\ call'[d].key = call[d].key
                           /\ call'[d].at = IF d = c THEN "ok" ELSE call[d].at
    BY <1>1, <1>4 DEF Goto, GotoWith, Requests
  <2>3. \A m : Here(m) => Here(m)'
    BY <1>4, <2>1 DEF Here, Exists
  <2>4. TunnelsLead'
    BY <1>1, <1>2, <1>4, <2>3 DEF TunnelsLead, Here
  <2>5. ASSUME NEW d \in Callers, call'[d].fn = "destroy", call'[d].at = "delete"
        PROVE  call'[d].key \notin tun' \/ call'[d].key \in raced'
    <3>1. call[d].fn = "destroy" /\ call[d].at = "delete" /\ call'[d].key = call[d].key
      BY <2>2, <2>5
    <3>2. Active(d)
      BY <3>1 DEF Active, Ended
    <3> QED BY <1>1, <1>4, <3>1, <3>2 DEF Relies
  <2>6. ASSUME NEW d \in Callers
        PROVE  Relies(call[d])'
    BY <1>1, <1>2, <2>2, <2>3, <2>5 DEF Relies
  <2>7. tun' \subseteq Names
    BY <1>1, <1>4 DEF Requests
  <2> QED BY <2>1, <2>4, <2>6, <2>7 DEF TunnelInv
<1> QED BY <1>3, <1>4 DEF SpriteTunnel

\* Deleting a sprite: its own tunnel is down by then, and whoever relies on the
\* sprite makes the deletion count as a race.
LEMMA TunnelDeleted ==
  ASSUME BackendInv, TunnelInv, kind.name = "sprites", NEW c \in Callers, SpriteDelete(c)
  PROVE  TunnelInv'
<1> DEFINE n == call[c].key
           used == \E d \in Callers \ {c} : call[d].op \in {"spawn", "attach"} /\ n \in {call[d].key, call[d].name}
<1>1. /\ call \in [Callers -> Requests] /\ box \in [Names -> Boxes]
      /\ tun \subseteq Names /\ TunnelsLead /\ \A d \in Callers : Relies(call[d])
      /\ \A d \in Callers : Named(call[d]) /\ (call[d].op = "none" <=> call[d].fn = "none")
  BY DEF BackendInv, TraitInv, TypeOK, NamesInv, Requests, Boxes, TunnelInv
<1>2. /\ call[c].fn = "destroy" /\ call[c].at = "delete" /\ call[c].op = "kill" /\ tun' = tun
      /\ n \notin tun \/ n \in raced
  BY <1>1 DEF SpriteDelete, At, Named, Relies
<1>3. CASE Fails(c) /\ UNCHANGED raced
  BY <1>2, <1>3, TunnelGoto DEF Fails
<1>4. CASE Goto(c, "removed") /\ raced' = IF used THEN raced \cup {n} ELSE raced
  BY <1>2, <1>4, TunnelGoto
<1>5. CASE Becomes(n, Absent, c, "removed") /\ raced' = IF used THEN raced \cup {n} ELSE raced
  <2>1. box' = [box EXCEPT ![n] = Absent] /\ kind' = kind
    BY <1>5 DEF Becomes, BecomesWith, world
  <2>2. \A d \in Callers : /\ call'[d].op = call[d].op /\ call'[d].name = call[d].name
                           /\ call'[d].fn = call[d].fn /\ call'[d].key = call[d].key
                           /\ call'[d].at = IF d = c THEN "removed" ELSE call[d].at
    BY <1>1, <1>5, ZenonT(60) DEF Becomes, BecomesWith, Requests
  <2>3. \A m \in Names : Here(m) /\ (m = n => used \/ m \in raced) => Here(m)'
    <3>1. \A m \in Names : m # n => box'[m] = box[m]
      BY <1>1, <2>1
    <3>2. raced \subseteq raced' /\ (used => n \in raced')
      BY <1>5
    <3> QED BY <3>1, <3>2 DEF Here, Exists
  <2>4. TunnelsLead'
    BY <1>1, <1>2, <2>3 DEF TunnelsLead, Here
  <2>5. ASSUME NEW d \in Callers \ {c}
        PROVE  Relies(call[d])'
    <3>1. call[d].op \in {"spawn", "attach"} => \A m \in {call[d].key, call[d].name} : Here(m) => Here(m)'
      <4>1. call[d].key \in Names /\ call[d].name \in Names
        BY <1>1 DEF Requests
      <4> QED BY <2>3, <2>5, <4>1
    <3>2. call[d].fn = "ensure" => call[d].op \in {"spawn", "attach"}
      BY <1>1, <2>5 DEF Requests, Named
    <3>3. Relies(call[d]) /\ tun' = tun /\ raced \subseteq raced'
      BY <1>1, <1>2, <1>5, <2>5
    <3>4. /\ call'[d].op = call[d].op /\ call'[d].name = call[d].name
          /\ call'[d].fn = call[d].fn /\ call'[d].key = call[d].key /\ call'[d].at = call[d].at
      BY <2>2, <2>5
    <3> QED BY <3>1, <3>2, <3>3, <3>4 DEF Relies
  <2>6. Relies(call[c])'
    BY <1>2, <2>2 DEF Relies
  <2> QED BY <1>1, <1>2, <2>1, <2>4, <2>5, <2>6 DEF TunnelInv
<1> QED BY <1>3, <1>4, <1>5 DEF SpriteDelete

\* The other steps of the Sprites backend, one API call each.
LEMMA TunnelSprites ==
  ASSUME BackendInv, TunnelInv, NEW c \in Callers, SpritesStep(c)
  PROVE  TunnelInv'
<1> DEFINE n == call[c].key
<1>0. kind.name = "sprites"
  BY DEF SpritesStep
<1>1. /\ call \in [Callers -> Requests] /\ box \in [Names -> Boxes] /\ MaxCalls \in Nat
      /\ Relies(call[c]) /\ (\A m \in Names : box[m].id = 0 <=> box[m].st = "none")
      /\ (call[c].fn # "none" => call[c].seq > 0)
  BY <1>0, BoundsAssumption DEF BackendInv, TraitInv, TypeOK, Requests, Boxes, TunnelInv
<1>2. n \in Names /\ call[c].seq \in Nat /\ box[n] \in Boxes
  BY <1>1 DEF Requests
<1>3. ASSUME call[c].fn = "ensure", Fails(c), UNCHANGED <<tun, raced>>
      PROVE  TunnelInv'
  BY <1>0, <1>1, <1>3, TunnelGoto DEF Fails, Relies
<1>4. ASSUME call[c].fn = "ensure", NEW p \in Points \ {"ok"}, Goto(c, p), UNCHANGED <<tun, raced>>,
             p \in {"ready", "halt", "upload", "launch", "tunnel"} => Here(n)
      PROVE  TunnelInv'
  BY <1>0, <1>1, <1>4, TunnelGoto DEF Relies
<1>5. ASSUME call[c].fn = "ensure", NEW t, NEW p, box[n].id > 0, UNCHANGED <<tun, raced>>,
             Becomes(n, [box[n] EXCEPT !.st = t], c, p)
      PROVE  TunnelInv'
  <2>1. [box[n] EXCEPT !.st = t].id = box[n].id
    BY <1>2 DEF Boxes
  <2> QED BY <1>0, <1>2, <1>5, <2>1, TunnelTurn DEF Becomes
<1>6. CASE SpriteFind(c)
  BY <1>3, <1>4, <1>6 DEF SpriteFind, At, Steady, Points, Here
<1>7. CASE SpriteCreate(c)
  <2>1. CASE Becomes(n, [id |-> call[c].seq, st |-> "made"], c, "ready")
    BY <1>0, <1>1, <1>2, <1>7, <2>1, TunnelTurn DEF SpriteCreate, At, Becomes
  <2> QED BY <1>3, <1>4, <1>7, <2>1 DEF SpriteCreate, At, Points, Here
<1>8. CASE SpriteReady(c)
  BY <1>1, <1>3, <1>4, <1>8 DEF SpriteReady, At, Steady, Points, Relies, Ended
<1>9. CASE SpriteHalt(c)
  <2>1. CASE Up(box[n]) /\ Becomes(n, [box[n] EXCEPT !.st = "down"], c, "upload")
    <3>1. box[n].id > 0
      BY <1>1, <1>2, <2>1 DEF Up, Boxes
    <3> QED BY <1>5, <1>9, <2>1, <3>1 DEF SpriteHalt, At
  <2> QED BY <1>1, <1>3, <1>4, <1>9, <2>1 DEF SpriteHalt, At, Points, Relies
<1>10. CASE SpriteUpload(c)
  BY <1>1, <1>3, <1>4, <1>10 DEF SpriteUpload, At, Steady, Points, Relies, Ended
<1>11. CASE SpriteLaunch(c)
  <2>1. CASE box[n].st \in {"down", "up"} /\ Becomes(n, [box[n] EXCEPT !.st = "up"], c, "tunnel")
    <3>1. box[n].id > 0
      BY <1>1, <1>2, <2>1 DEF Boxes
    <3> QED BY <1>5, <1>11, <2>1, <3>1 DEF SpriteLaunch, At
  <2> QED BY <1>1, <1>3, <1>4, <1>11, <2>1 DEF SpriteLaunch, At, Points, Relies, Ended
<1>12. CASE SpriteUntunnel(c)
  <2>1. ~ (call[c].op = "attach")
    BY <1>12 DEF BackendInv, NamesInv, Named, SpriteUntunnel, At
  <2> QED BY <1>0, <1>12, <2>1, TunnelGoto DEF SpriteUntunnel, At
<1> QED BY <1>0, <1>6, <1>7, <1>8, <1>9, <1>10, <1>11, <1>12, TunnelOpened, TunnelDeleted DEF SpritesStep

\* exists, the end of a destroy, and the runtime's own steps.
LEMMA TunnelCommon ==
  ASSUME BackendInv, TunnelInv, kind.name = "sprites",
         (\E c \in Callers : Removed(c) \/ ExistsCall(c)) \/ (\E n \in Names : Boot(n) \/ Crash(n))
  PROVE  TunnelInv'
<1>1. /\ call \in [Callers -> Requests] /\ box \in [Names -> Boxes] /\ MaxCalls \in Nat
      /\ \A d \in Callers : Relies(call[d]) /\ Named(call[d])
      /\ \A m \in Names : box[m].id = 0 <=> box[m].st = "none"
  BY BoundsAssumption DEF BackendInv, TraitInv, NamesInv, TypeOK, Requests, Boxes, TunnelInv
<1>2. ASSUME NEW c \in Callers, Removed(c)
      PROVE  TunnelInv'
  BY <1>1, <1>2, TunnelGoto DEF Removed, At, Steady, Named
<1>3. ASSUME NEW c \in Callers, ExistsCall(c)
      PROVE  TunnelInv'
  <2>1. call[c].fn = "exists" /\ call[c].key = call[c].name
    BY <1>1, <1>3 DEF ExistsCall, At, Named
  <2> QED BY <1>3, <2>1, TunnelGoto DEF ExistsCall, Steady, Fails, Here
<1>4. ASSUME NEW n \in Names, NEW t, Becomes(n, [box[n] EXCEPT !.st = t], "none", ""),
             box[n].st # "none", UNCHANGED <<tun, raced>>
      PROVE  TunnelInv'
  <2>1. box[n] \in Boxes
    BY <1>1
  <2>2. [box[n] EXCEPT !.st = t].id = box[n].id
    BY <2>1 DEF Boxes
  <2>3. box[n].id # 0
    BY <1>1, <1>4, Zenon
  <2>4. box[n].id > 0
    BY <1>1, <2>1, <2>3 DEF Boxes
  <2> QED BY <1>4, <2>2, <2>4, TunnelTurn, CallersAssumption DEF Becomes
<1>5. ASSUME NEW n \in Names, Boot(n) \/ Crash(n)
      PROVE  TunnelInv'
  BY <1>4, <1>5 DEF Boot, Crash, Up
<1> QED BY <1>2, <1>3, <1>5

\* No other backend has tunnels.
LEMMA NoTunnels ==
  ASSUME TunnelInv, kind.name # "sprites", Next
  PROVE  TunnelInv'
<1>1. tun = {}
  BY DEF TunnelInv
<1>2. ASSUME NEW c \in Callers, Begin(c) \/ Deliver(c) \/ Removed(c) \/ ExistsCall(c)
      PROVE  tun' = tun /\ kind' = kind
  BY <1>2 DEF Begin, Deliver, Removed, ExistsCall, Enter, Steady, Fails, Ignored, Goto, GotoWith, world
<1>3. ASSUME NEW n \in Names, Boot(n) \/ Crash(n)
      PROVE  tun' = tun /\ kind' = kind
  BY <1>3 DEF Boot, Crash, Becomes, BecomesWith, world
<1>4. ASSUME NEW c \in Callers, PodmanStep(c) \/ FlyStep(c) \/ KubernetesStep(c)
      PROVE  tun' = tun /\ kind' = kind
  <2> USE DEF Fails, Ignored, Goto, GotoWith, Becomes, BecomesWith, Steady, world
  <2>1. CASE PodmanStep(c)
    BY <2>1 DEF PodmanStep, PodmanExists, PodmanStop, PodmanCreate, PodmanCopy, PodmanStart, PodmanPort,
                PodmanDestroy
  <2>2. CASE FlyStep(c)
    BY <2>2 DEF FlyStep, FlyFind, FlyStart, FlyCreate, FlyWait, FlyStop, FlyDelete
  <2>3. CASE KubernetesStep(c)
    BY <2>3 DEF KubernetesStep, K8sGet, K8sDelete, K8sGone, K8sCreate, K8sWait, K8sDestroy
  <2> QED BY <1>4, <2>1, <2>2, <2>3
<1> QED BY <1>1, <1>2, <1>3, <1>4 DEF Next, SpritesStep, TunnelInv

\* A local tunnel of the Sprites backend leads to an existing sprite, unless the
\* sprite was destroyed while another request was using its name; no other
\* backend opens one.
THEOREM TunnelsReachSprites == Spec => []TunnelsLead
<1>1. Init => TunnelInv
  <2>1. \A c \in Callers : Init => call[c] = NoCall
    BY DEF Init, BackendInit
  <2> QED BY <2>1 DEF Init, BackendInit, TunnelInv, TunnelsLead, Relies, NoCall
<1>2. BackendInv /\ TunnelInv /\ [Next]_vars => TunnelInv'
  <2>1. ASSUME BackendInv, TunnelInv, Next
        PROVE  TunnelInv'
    <3>1. CASE kind.name = "sprites"
      BY <2>1, <3>1, TunnelRegistry, TunnelCommon, TunnelSprites DEF Next, PodmanStep, FlyStep, KubernetesStep
    <3> QED BY <2>1, <3>1, NoTunnels
  <2>2. ASSUME TunnelInv, UNCHANGED vars
        PROVE  TunnelInv'
    BY <2>2 DEF vars, TunnelInv, TunnelsLead, Relies, Here, Exists
  <2> QED BY <2>1, <2>2
<1>3. TunnelInv => TunnelsLead
  BY DEF TunnelInv, TunnelsLead
<1> QED BY <1>1, <1>2, <1>3, BackendInvariant, PTL DEF Spec
=============================================================================
