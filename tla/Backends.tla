------------------------------ MODULE Backends ------------------------------
(***************************************************************************)
(* The gateway's container backends behind the ContainerBackend trait: the *)
(* configured one serves overlapping spawn, attach and kill requests while *)
(* commands fail and containers crash.                                     *)
(***************************************************************************)
EXTENDS PodmanBackend, FlyBackend, KubernetesBackend, SpritesBackend

Init == BackendInit

Next ==
  \/ \E c \in Callers : \/ Begin(c) \/ Deliver(c) \/ Removed(c) \/ ExistsCall(c)
                        \/ PodmanStep(c) \/ FlyStep(c) \/ KubernetesStep(c) \/ SpritesStep(c)
  \/ \E n \in Names : Boot(n) \/ Crash(n)

Spec == Init /\ [][Next]_vars

-----------------------------------------------------------------------------
\* Which promises of the trait each backend does not keep.
LapsesOf(name) ==
  CASE name = "podman" -> {"forgives", "guesses"}
    [] name = "kubernetes" -> {"recreates"}
    [] name = "sprites" -> {"blindUrl"}
    [] OTHER -> {}

AbsBox == [n \in Names |-> [id |-> box[n].id, up |-> Up(box[n])]]
AbsCall == [c \in Callers |->
  [fn |-> call[c].fn, key |-> call[c].key, met |-> call[c].met,
   res |-> IF call[c].fn # "none" /\ call[c].at \in Ended THEN call[c].at ELSE "run"]]

Trait == INSTANCE ContainerBackend
           WITH lapses <- LapsesOf(kind.name), box <- AbsBox, call <- AbsCall, Ids <- 1..MaxCalls

\* Every backend keeps the trait's promise, up to the lapses named for it:
\* containers appear only under an ensure of their name and go only under a
\* destroy (on Kubernetes also under an ensure that met the pod not running),
\* and each answer was true at some moment of its call.
KeepsTrait == Trait!Spec

\* What a call in progress rests on when it has reached `at`: it will answer
\* or delete on the strength of it.
Grounded(fn, at, id, met, b) ==
  /\ at \in {"boot", "wait"} => fn \in {"ensure", "url"}
  /\ at = "removed" => "absent" \in met \/ kind.name = "podman"
  /\ kind.name = "fly" /\ at \in {"stop", "delete"} => b.id = id \/ "absent" \in met
  /\ fn = "ensure" /\ at = "delete" => "down" \in met
  /\ fn = "ensure" /\ at = "tunnel" => "up" \in met

\* The points a call can have reached, of all four backends.
Points == Ended \cup {"start", "stop", "create", "copy", "copyNew", "startNew", "port", "boot", "wait",
                     "delete", "gone", "ready", "halt", "upload", "launch", "tunnel", "removed"}

TypeOK ==
  /\ kind \in Kinds
  /\ box \in [Names -> [id : 0..MaxCalls, st : {"none", "made", "down", "up", "dead"}]]
  /\ call \in [Callers -> [op : {"none", "spawn", "attach", "kill"}, name : Names,
                           fn : {"none", "exists", "ensure", "url", "destroy"}, at : Points,
                           key : Names, seq : 0..MaxCalls, id : 0..MaxCalls,
                           met : SUBSET {"absent", "present", "up", "down"}]]
  /\ handed \subseteq Names
  /\ begun \in 0..MaxCalls

\* A local tunnel of the Sprites backend leads to an existing sprite, unless
\* the sprite was destroyed while another request was using its name.
TunnelsLead == \A n \in tun : Exists(n) \/ n \in raced

\* No container is left behind that no frontend knows of: one whose name was
\* not handed out belongs to a request in progress or to an ensure that failed.
\* The exception is attach on a prefixing Sprites backend, whose ensure
\* prefixes the already prefixed name a second time.
NoneStray ==
  \A n \in Names :
    Exists(n) => \/ n \in handed \cup failed
                 \/ \E c \in Callers : call[c].op # "none" /\ call[c].key = n
                 \/ kind.prefix /\ n = "ppx"

\* What a request works on: a spawn ensures "x", attach and kill use a name that
\* was handed out, ensure prefixes what it is given.
Named(k) ==
  /\ k.op = "spawn" => k.fn = "ensure" /\ k.name = "x"
  /\ k.op \in {"attach", "kill"} => k.name \in handed
  /\ k.fn \in {"exists", "url"} => k.op = "attach"
  /\ (k.fn = "destroy") <=> (k.op = "kill")
  /\ k.fn # "none" => k.key = IF k.fn = "ensure" THEN Prefixed(k.name) ELSE k.name
  /\ k.fn = "ensure" /\ k.at \in Ended => k.at = "ok" \/ k.key \in failed

\* The inductive invariant behind KeepsTrait: a call in progress has met its
\* container as it is now, and has met what it rests on.
TraitInv ==
  /\ TypeOK
  /\ \A n \in Names : box[n].id = 0 <=> box[n].st = "none"
  /\ \A c \in Callers :
       /\ call[c].op = "none" <=> call[c].fn = "none"
       /\ call[c].fn = "none" => call[c].at \in Ended
       /\ call[c].fn # "none" => call[c].seq > 0
       /\ Active(c) => /\ Facts(box[call[c].key]) \subseteq call[c].met
                       /\ Grounded(call[c].fn, call[c].at, call[c].id, call[c].met, box[call[c].key])

\* The one behind NoneStray, on top of it.
NamesInv ==
  /\ kind.prefix => "x" \notin handed
  /\ \A c \in Callers : Named(call[c])
  /\ NoneStray

BackendInv == TraitInv /\ NamesInv

\* The one behind TunnelsLead: a sprite that an ensure has found or made, or an
\* attach has found, is there or was destroyed under it, and a destroy that has
\* taken the tunnel down finds it down.
Here(n) == Exists(n) \/ n \in raced
Relies(k) ==
  /\ k.fn = "ensure" /\ k.at \in {"ready", "halt", "upload", "launch", "tunnel"} => Here(k.key)
  /\ k.op = "attach" /\ (k.fn \in {"ensure", "url"} \/ k.at = "ok") => Here(k.name)
  /\ k.fn = "destroy" /\ k.at = "delete" => k.key \notin tun \/ k.key \in raced
TunnelInv ==
  IF kind.name = "sprites"
  THEN tun \subseteq Names /\ TunnelsLead /\ \A c \in Callers : Relies(call[c])
  ELSE tun = {}
=============================================================================
