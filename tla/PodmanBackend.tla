--------------------------- MODULE PodmanBackend ----------------------------
(***************************************************************************)
(* backend/podman.rs: one podman command per step.  `stop` and `start` of  *)
(* an existing container, and `rm -f`, ignore their result.                *)
(***************************************************************************)
EXTENDS BackendCalls

\* container_exists: a non-zero status is "no", whatever its reason.
PodmanExists(c) ==
  /\ At(c, "ensure", "start")
  /\ \/ Goto(c, IF Exists(call[c].key) THEN "stop" ELSE "create") /\ Steady
     \/ (Fails(c) \/ Ignored(c, "create")) /\ UNCHANGED <<tun, raced>>

PodmanStop(c) ==
  /\ At(c, "ensure", "stop") /\ UNCHANGED <<tun, raced>>
  /\ LET n == call[c].key
     IN  \/ Up(box[n]) /\ Becomes(n, [box[n] EXCEPT !.st = "down"], c, "copy") /\ UNCHANGED faults
         \/ ~ Up(box[n]) /\ Goto(c, "copy") /\ UNCHANGED faults
         \/ Ignored(c, "copy")

\* podman create fails when the name is taken.
PodmanCreate(c) ==
  /\ At(c, "ensure", "create") /\ UNCHANGED <<tun, raced>>
  /\ LET n == call[c].key
     IN  \/ ~ Exists(n) /\ Becomes(n, [id |-> call[c].seq, st |-> "made"], c, "copyNew") /\ UNCHANGED faults
         \/ Exists(n) /\ Goto(c, "err") /\ UNCHANGED faults
         \/ Fails(c)

\* copy_agent_binary, into an old or a new container
PodmanCopy(c) ==
  /\ call[c].fn = "ensure" /\ call[c].at \in {"copy", "copyNew"} /\ UNCHANGED <<tun, raced>>
  /\ LET n == call[c].key
         next == IF call[c].at = "copy" THEN "start" ELSE "startNew"
     IN  \/ /\ Exists(n) /\ UNCHANGED faults
            /\ Becomes(n, [box[n] EXCEPT !.st = IF @ = "made" THEN "down" ELSE @], c, next)
         \/ ~ Exists(n) /\ Goto(c, "err") /\ UNCHANGED faults
         \/ Fails(c)

\* The entrypoint is the agent binary: a container without it does not start.
PodmanStart(c) ==
  /\ call[c].fn = "ensure" /\ call[c].at \in {"start", "startNew"} /\ UNCHANGED <<tun, raced>>
  /\ LET n == call[c].key
         bad == IF call[c].at = "start" THEN "port" ELSE "err"
     IN  \/ box[n].st \in {"down", "up"} /\ Becomes(n, [box[n] EXCEPT !.st = "up"], c, "port") /\ UNCHANGED faults
         \/ box[n].st \notin {"down", "up"} /\ Goto(c, bad) /\ UNCHANGED faults
         \/ IF bad = "err" THEN Fails(c) ELSE Ignored(c, bad)

\* discover_host_port: up to 30 tries; also what url() does.
PodmanPort(c) ==
  /\ At(c, "ensure", "port") \/ At(c, "url", "start")
  /\ Goto(c, IF Up(box[call[c].key]) THEN "ok" ELSE "err") /\ Steady

PodmanDestroy(c) ==
  /\ At(c, "destroy", "start") /\ UNCHANGED <<tun, raced>>
  /\ LET n == call[c].key
     IN  \/ Exists(n) /\ Becomes(n, Absent, c, "removed") /\ UNCHANGED faults
         \/ ~ Exists(n) /\ Goto(c, "removed") /\ UNCHANGED faults
         \/ Ignored(c, "removed")

PodmanStep(c) ==
  /\ kind.name = "podman"
  /\ \/ PodmanExists(c) \/ PodmanStop(c) \/ PodmanCreate(c) \/ PodmanCopy(c)
     \/ PodmanStart(c) \/ PodmanPort(c) \/ PodmanDestroy(c)
=============================================================================
