----------------------------- MODULE FlyBackend -----------------------------
(***************************************************************************)
(* backend/fly.rs: one Machines API call per step.  After the lookup by    *)
(* name every call addresses the machine by its id.                        *)
(***************************************************************************)
EXTENDS BackendCalls

\* The machine caller c looked up still exists.
Mine(c) == Exists(call[c].key) /\ box[call[c].key].id = call[c].id

\* find_by_name, and where the operation goes from there
FlyFind(c) ==
  /\ call[c].fn \in {"ensure", "url", "destroy"} /\ call[c].at = "start"
  /\ UNCHANGED <<tun, raced>>
  /\ LET n == call[c].key
         missing == CASE call[c].fn = "ensure" -> "create"
                      [] call[c].fn = "url" -> "err"
                      [] call[c].fn = "destroy" -> "removed"
         next == IF call[c].fn = "destroy" THEN "stop" ELSE IF Up(box[n]) THEN "wait" ELSE "boot"
     IN  \/ ~ Exists(n) /\ Goto(c, missing) /\ UNCHANGED faults
         \/ Exists(n) /\ GotoWith(c, next, box[n].id) /\ UNCHANGED faults
         \/ Fails(c)

\* Start a machine that is not started; url() ignores a refusal.
FlyStart(c) ==
  /\ call[c].at = "boot" /\ UNCHANGED <<tun, raced>>
  /\ LET n == call[c].key
         refused == IF call[c].fn = "url" THEN "wait" ELSE "err"
     IN  \/ /\ Mine(c) /\ box[n].st # "dead" /\ UNCHANGED faults
            /\ Becomes(n, [box[n] EXCEPT !.st = IF @ = "down" THEN "made" ELSE @], c, "wait")
         \/ ~ (Mine(c) /\ box[n].st # "dead") /\ Goto(c, refused) /\ UNCHANGED faults
         \/ IF call[c].fn = "url" THEN Ignored(c, "wait") ELSE Fails(c)

\* machine_config: the agent is the init process, restart policy "no",
\* auto_destroy off; the machine is not started yet.
Machine(s) == [id |-> s, st |-> "made"]

\* Machine names are unique in an app: a second create is refused.
FlyCreate(c) ==
  /\ At(c, "ensure", "create") /\ UNCHANGED <<tun, raced>>
  /\ LET n == call[c].key
         s == call[c].seq
     IN  \/ ~ Exists(n) /\ BecomesWith(n, Machine(s), c, "wait", s) /\ UNCHANGED faults
         \/ Exists(n) /\ Goto(c, "err") /\ UNCHANGED faults
         \/ Fails(c)

\* wait_started: 120 polls; a machine that stays down runs into the timeout.
FlyWait(c) ==
  /\ call[c].at = "wait"
  /\ Goto(c, IF Mine(c) /\ Up(box[call[c].key]) THEN "ok" ELSE "err") /\ Steady

FlyStop(c) ==
  /\ At(c, "destroy", "stop") /\ UNCHANGED <<tun, raced>>
  /\ LET n == call[c].key
     IN  \/ Mine(c) /\ Up(box[n]) /\ Becomes(n, [box[n] EXCEPT !.st = "down"], c, "delete") /\ UNCHANGED faults
         \/ ~ (Mine(c) /\ Up(box[n])) /\ Goto(c, "delete") /\ UNCHANGED faults
         \/ Ignored(c, "delete")

\* DELETE ?force=true; 404 counts as done.
FlyDelete(c) ==
  /\ At(c, "destroy", "delete") /\ UNCHANGED <<tun, raced>>
  /\ \/ Mine(c) /\ Becomes(call[c].key, Absent, c, "removed") /\ UNCHANGED faults
     \/ ~ Mine(c) /\ Goto(c, "removed") /\ UNCHANGED faults
     \/ Fails(c)

FlyStep(c) ==
  /\ kind.name = "fly"
  /\ FlyFind(c) \/ FlyStart(c) \/ FlyCreate(c) \/ FlyWait(c) \/ FlyStop(c) \/ FlyDelete(c)
=============================================================================
