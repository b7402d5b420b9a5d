-------------------------- MODULE ContainerBackend --------------------------
(***************************************************************************)
(* What the gateway may rely on when it drives containers through the      *)
(* `ContainerBackend` trait, whatever runtime is behind it.  Calls overlap *)
(* freely.  A backend may change a container only on behalf of a call that *)
(* is running, and may only give an answer that was true at some moment of *)
(* the call.  `lapses` names the promises a given backend does not keep:   *)
(*   "recreates"  ensure may replace a container it found not running      *)
(*   "forgives"   destroy may report success without having removed        *)
(*   "blindUrl"   url may answer for a container that is not up            *)
(*   "guesses"    exists may deny a container that is there                *)
(***************************************************************************)
EXTENDS Naturals

CONSTANTS Names,    \* container names
          Callers,  \* concurrent users of the backend
          Ids       \* identities a new container can get

VARIABLES lapses,   \* the promises this backend does not keep
          box,      \* name -> the container of that name, [id, up]; id 0: none
          call      \* caller -> its current or last trait call

Lapses == {"recreates", "forgives", "blindUrl", "guesses"}
Ops == {"exists", "ensure", "url", "destroy"}
Answers == {"ok", "no", "err"}

Idle(n) == [fn |-> "none", key |-> n, met |-> {}, res |-> "run"]

\* What an observer of one container learns from it.
Seen(b) == IF b.id = 0 THEN {"absent"}
           ELSE IF b.up THEN {"present", "up"} ELSE {"present", "down"}

Running(c) == call[c].fn # "none" /\ call[c].res = "run"

Init == /\ lapses \in SUBSET Lapses
        /\ box = [n \in Names |-> [id |-> 0, up |-> FALSE]]
        /\ \E n \in Names : call = [c \in Callers |-> Idle(n)]

Call(c, fn, n) ==
  /\ ~ Running(c)
  /\ call' = [call EXCEPT ![c] = [fn |-> fn, key |-> n, met |-> Seen(box[n]), res |-> "run"]]
  /\ UNCHANGED <<lapses, box>>

\* An answer must have been true at some moment of the call.
Earned(c, r) ==
  LET k == call[c]
  IN  \/ r = "err"
      \/ k.fn = "exists" /\ r = "ok" /\ "present" \in k.met
      \/ k.fn = "exists" /\ r = "no" /\ ("absent" \in k.met \/ "guesses" \in lapses)
      \/ k.fn = "ensure" /\ r = "ok" /\ "up" \in k.met
      \/ k.fn = "url" /\ r = "ok" /\ ("up" \in k.met \/ "blindUrl" \in lapses)
      \/ k.fn = "destroy" /\ r = "ok" /\ ("absent" \in k.met \/ "forgives" \in lapses)

Return(c, r) ==
  /\ Running(c) /\ Earned(c, r)
  /\ call' = [call EXCEPT ![c].res = r]
  /\ UNCHANGED <<lapses, box>>

Forget(c) ==
  /\ ~ Running(c)
  /\ \E n \in Names : call' = [call EXCEPT ![c] = Idle(n)]
  /\ UNCHANGED <<lapses, box>>

\* Containers appear only under an ensure of their name and disappear only
\* under a destroy, or (recreating backends) under an ensure that met the
\* container when it was not up.  Going up and down is the container's own.
MayBecome(n, b) ==
  \/ /\ box[n].id = 0 /\ b.id > 0
     /\ \E c \in Callers : Running(c) /\ call[c].key = n /\ call[c].fn = "ensure"
  \/ /\ box[n].id > 0 /\ b.id = 0
     /\ \E c \in Callers : /\ Running(c) /\ call[c].key = n
                           /\ \/ call[c].fn = "destroy"
                              \/ /\ call[c].fn = "ensure" /\ "recreates" \in lapses
                                 /\ "down" \in call[c].met
  \/ box[n].id > 0 /\ b.id = box[n].id

Change(n, b) ==
  /\ MayBecome(n, b)
  /\ box' = [box EXCEPT ![n] = b]
  /\ call' = [c \in Callers |->
                IF Running(c) /\ call[c].key = n
                THEN [call[c] EXCEPT !.met = @ \cup Seen(b)] ELSE call[c]]
  /\ UNCHANGED lapses

Next ==
  \/ \E c \in Callers, n \in Names, fn \in Ops : Call(c, fn, n)
  \/ \E c \in Callers, r \in Answers : Return(c, r)
  \/ \E c \in Callers : Forget(c)
  \/ \E n \in Names : \E b \in [id : {0} \cup Ids, up : BOOLEAN] : Change(n, b)

Spec == Init /\ [][Next]_<<lapses, box, call>>
=============================================================================
