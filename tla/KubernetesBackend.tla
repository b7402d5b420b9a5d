------------------------- MODULE KubernetesBackend --------------------------
(***************************************************************************)
(* backend/kubernetes.rs: one API request per step, every one by pod name. *)
(* A pod that is not Running is deleted (grace period 0) and made again.   *)
(***************************************************************************)
EXTENDS BackendCalls

K8sGet(c) ==
  /\ At(c, "ensure", "start")
  /\ LET n == call[c].key
     IN  \/ Goto(c, IF ~ Exists(n) THEN "create" ELSE IF Up(box[n]) THEN "ok" ELSE "delete") /\ Steady
         \/ Fails(c) /\ UNCHANGED <<tun, raced>>

\* The pod of that name goes, whatever became of it since the get.
K8sDelete(c) ==
  /\ At(c, "ensure", "delete") /\ UNCHANGED <<tun, raced>>
  /\ LET n == call[c].key
     IN  \/ Exists(n) /\ Becomes(n, Absent, c, "gone") /\ UNCHANGED faults
         \/ ~ Exists(n) /\ Goto(c, "gone") /\ UNCHANGED faults
         \/ Ignored(c, "gone")

\* 30 polls for a 404, then on in any case.
K8sGone(c) == At(c, "ensure", "gone") /\ Goto(c, "create") /\ Steady

\* build_pod: restart policy Never, an init container brings the agent; the
\* pod is Pending until the cluster has run both.
Pod(s) == [id |-> s, st |-> "made"]

K8sCreate(c) ==
  /\ At(c, "ensure", "create") /\ UNCHANGED <<tun, raced>>
  /\ LET n == call[c].key
     IN  \/ ~ Exists(n) /\ Becomes(n, Pod(call[c].seq), c, "wait") /\ UNCHANGED faults
         \/ Exists(n) /\ Goto(c, "err") /\ UNCHANGED faults
         \/ Fails(c)

\* Mutant of K8sWait: an address is taken for a running pod.
K8sWaitAddress(c) ==
  /\ At(c, "ensure", "wait") \/ At(c, "url", "start")
  /\ Goto(c, IF Exists(call[c].key) THEN "ok" ELSE "err") /\ Steady

\* wait_for_pod_ip: 60 polls; terminal phase, 404 and timeout are errors.
K8sWait(c) ==
  /\ At(c, "ensure", "wait") \/ At(c, "url", "start")
  /\ Goto(c, IF Up(box[call[c].key]) THEN "ok" ELSE "err") /\ Steady

K8sDestroy(c) ==
  /\ At(c, "destroy", "start") /\ UNCHANGED <<tun, raced>>
  /\ LET n == call[c].key
     IN  \/ Exists(n) /\ Becomes(n, Absent, c, "removed") /\ UNCHANGED faults
         \/ ~ Exists(n) /\ Goto(c, "removed") /\ UNCHANGED faults
         \/ Fails(c)

KubernetesStep(c) ==
  /\ kind.name = "kubernetes"
  /\ \/ K8sGet(c) \/ K8sDelete(c) \/ K8sGone(c) \/ K8sCreate(c) \/ K8sWait(c)
     \/ K8sDestroy(c)
=============================================================================
