---------------------------- MODULE BackendCalls ----------------------------
(***************************************************************************)
(* The setting the four container backends run in: the runtime's           *)
(* containers, the gateway's calls in progress, and how the agent registry *)
(* strings trait calls together (spawn = ensure; attach = exists, ensure,  *)
(* url; kill = destroy).  The backends' own steps are in PodmanBackend,    *)
(* FlyBackend, KubernetesBackend and SpritesBackend.                       *)
(***************************************************************************)
EXTENDS Naturals

CONSTANTS Callers,    \* concurrent gateway requests
          Kinds,      \* backends to choose from, [name, prefix]
          MaxCalls,   \* bound on registry requests
          MaxFaults   \* bound on failed commands and crashes

ASSUME BoundsAssumption == MaxCalls \in Nat /\ MaxFaults \in Nat
ASSUME CallersAssumption == "none" \notin Callers

VARIABLES kind,     \* the configured backend
          box,      \* name -> container [id, st]; id 0: none
          call,     \* caller -> the request it serves
          tun,      \* names with a local tunnel (Sprites)
          handed,   \* container names given to the frontends
          raced,    \* history: names destroyed while another call used them
          failed,   \* history: keys of ensure calls that failed
          begun, faults

world == <<kind, handed, begun>>
vars == <<kind, box, call, tun, handed, raced, failed, begun, faults>>

Names == {"x", "px", "ppx"}
Prefixed(n) == IF ~ kind.prefix THEN n ELSE IF n = "x" THEN "px" ELSE "ppx"

Absent == [id |-> 0, st |-> "none"]
Exists(n) == box[n].id > 0
Up(b) == b.st = "up"
NoCall == [op |-> "none", name |-> "x", fn |-> "none", at |-> "ok", key |-> "x", seq |-> 0,
           id |-> 0, met |-> {}]

Ended == {"ok", "no", "err"}
Active(c) == call[c].fn # "none" /\ call[c].at \notin Ended
At(c, fn, p) == call[c].fn = fn /\ call[c].at = p

Facts(b) == IF b.id = 0 THEN {"absent"}
            ELSE IF Up(b) THEN {"present", "up"} ELSE {"present", "down"}

BackendInit ==
  /\ kind \in Kinds
  /\ box = [n \in Names |-> Absent]
  /\ call = [c \in Callers |-> NoCall]
  /\ tun = {} /\ handed = {} /\ raced = {} /\ failed = {}
  /\ begun = 0 /\ faults = 0

\* Caller c moves on to p, the container it deals with being i; none changes.
GotoWith(c, p, i) ==
  /\ call' = [call EXCEPT ![c].at = p, ![c].id = i]
  /\ failed' = IF p = "err" /\ call[c].fn = "ensure" THEN failed \cup {call[c].key} ELSE failed
  /\ UNCHANGED <<box, world>>
Goto(c, p) == GotoWith(c, p, call[c].id)

\* Container n becomes b while c (if any) moves to p; everyone using n sees it.
BecomesWith(n, b, c, p, i) ==
  /\ box' = [box EXCEPT ![n] = b]
  /\ call' = [d \in Callers |->
                [call[d] EXCEPT !.at = IF d = c THEN p ELSE @,
                                !.id = IF d = c THEN i ELSE @,
                                !.met = IF Active(d) /\ call[d].key = n THEN @ \cup Facts(b) ELSE @]]
  /\ UNCHANGED <<world, failed>>
Becomes(n, b, c, p) == BecomesWith(n, b, c, p, call[c].id)

\* A command or API call of c fails and the operation returns the error.
Fails(c) == faults < MaxFaults /\ faults' = faults + 1 /\ Goto(c, "err")
\* The same where the code ignores the result.
Ignored(c, p) == faults < MaxFaults /\ faults' = faults + 1 /\ Goto(c, p)
Steady == UNCHANGED <<tun, raced, faults>>

\* Enter trait operation fn on container name n.
Enter(c, op, fn, n, s) ==
  LET k == IF fn = "ensure" THEN Prefixed(n) ELSE n
  IN  /\ call' = [call EXCEPT ![c] = [op |-> op, name |-> n, fn |-> fn, at |-> "start", key |-> k,
                                      seq |-> s, id |-> 0, met |-> Facts(box[k])]]
      /\ UNCHANGED <<kind, box, failed>> /\ Steady

\* registry.rs: a frontend's spawn, attach or kill reaches the backend.
Begin(c) ==
  /\ call[c].op = "none" /\ begun < MaxCalls
  /\ begun' = begun + 1 /\ UNCHANGED handed
  /\ \/ Enter(c, "spawn", "ensure", "x", begun + 1)
     \/ \E n \in handed : Enter(c, "attach", "exists", n, begun + 1)
     \/ \E n \in handed : Enter(c, "kill", "destroy", n, begun + 1)

\* Mutant of Deliver: a spawn is recorded under the requested name instead of
\* the name in the returned handle.
DeliverRequested(c) ==
  /\ call[c].op # "none" /\ call[c].at \in Ended
  /\ UNCHANGED begun
  /\ call' = [call EXCEPT ![c] = NoCall]
  /\ handed' = IF call[c].op = "spawn" /\ call[c].at = "ok" THEN handed \cup {call[c].name} ELSE handed
  /\ UNCHANGED <<kind, box, failed>> /\ Steady

\* The trait call returned: attach goes on to the next one, the others end.
Deliver(c) ==
  /\ call[c].op # "none" /\ call[c].at \in Ended
  /\ UNCHANGED begun
  /\ LET k == call[c]
         more == k.op = "attach" /\ k.at = "ok"
     IN  \/ more /\ k.fn = "exists" /\ Enter(c, "attach", "ensure", k.name, k.seq) /\ UNCHANGED handed
         \/ more /\ k.fn = "ensure" /\ Enter(c, "attach", "url", k.name, k.seq) /\ UNCHANGED handed
         \/ /\ ~ (more /\ k.fn # "url")
            /\ call' = [call EXCEPT ![c] = NoCall]
            /\ handed' = IF k.op = "spawn" /\ k.at = "ok" THEN handed \cup {k.key} ELSE handed
            /\ UNCHANGED <<kind, box, failed>> /\ Steady

\* A destroy that has removed its container reports success.
Removed(c) == At(c, "destroy", "removed") /\ Goto(c, "ok") /\ Steady

\* exists: one query.  Podman tells a failed query from a missing container
\* only when the command cannot be run at all.
ExistsCall(c) ==
  /\ At(c, "exists", "start")
  /\ \/ Goto(c, IF Exists(call[c].key) THEN "ok" ELSE "no") /\ Steady
     \/ Fails(c) /\ UNCHANGED <<tun, raced>>
     \/ kind.name = "podman" /\ Ignored(c, "no") /\ UNCHANGED <<tun, raced>>

\* The runtime brings a created container up, or fails to.
Boot(n) ==
  /\ box[n].st = "made" /\ kind.name # "podman"
  /\ UNCHANGED <<tun, raced>>
  /\ \/ /\ Becomes(n, [box[n] EXCEPT !.st = IF kind.name = "sprites" THEN "down" ELSE "up"], "none", "")
        /\ UNCHANGED faults
     \/ /\ kind.name # "sprites" /\ faults < MaxFaults /\ faults' = faults + 1
        /\ Becomes(n, [box[n] EXCEPT !.st = "dead"], "none", "")

\* A running container stops by itself; a pod never restarts.
Crash(n) ==
  /\ Up(box[n]) /\ faults < MaxFaults /\ faults' = faults + 1
  /\ Becomes(n, [box[n] EXCEPT !.st = IF kind.name = "kubernetes" THEN "dead" ELSE "down"], "none", "")
  /\ UNCHANGED <<tun, raced>>
=============================================================================
