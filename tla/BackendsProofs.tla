--------------------------- MODULE BackendsProofs ---------------------------
(***************************************************************************)
(* Every backend implements the ContainerBackend trait, up to its lapses:  *)
(* Spec => KeepsTrait, for any set of callers and backends and any bounds. *)
(* Every step of a backend provides what the lemmas of BackendsSteps ask of *)
(* it.                                                                     *)
(***************************************************************************)
EXTENDS BackendsSteps

\* Each podman command keeps the trait.
LEMMA PodmanKeeps ==
  ASSUME BackendInv, NEW c \in Callers, PodmanStep(c)
  PROVE  Keeps
<1> DEFINE n == call[c].key
<1>1. Active(c) /\ kind.name = "podman"
  BY DEF PodmanStep, PodmanExists, PodmanStop, PodmanCreate, PodmanCopy, PodmanStart, PodmanPort,
         PodmanDestroy, At, Active, Ended
<1>2. /\ Facts(box[n]) \subseteq call[c].met /\ box[n] \in Boxes /\ call[c].id \in 0..MaxCalls
      /\ (box[n].id = 0 <=> box[n].st = "none")
  BY <1>1, InProgress
<1>3. Fails(c) => Keeps
  BY <1>1, ErrStep DEF Fails
<1>4. ASSUME NEW p \in {"stop", "create", "copy", "start", "startNew", "port", "removed"}, Goto(c, p)
      PROVE  Keeps
  <2>1. p \in Points /\ p \notin Ended
    BY DEF Points, Ended
  <2>2. Grounded(call[c].fn, p, call[c].id, call[c].met, box[n])
    BY <1>1 DEF Grounded
  <2> QED BY <1>1, <1>4, <2>1, <2>2, MoveStep
<1>5. ASSUME NEW p \in {"copy", "start", "startNew", "port"}, NEW t \in {"made", "down", "up", "dead"},
             box[n].id > 0, Becomes(n, [box[n] EXCEPT !.st = t], c, p)
      PROVE  Keeps
  <2>1. p \in Points /\ p \notin Ended
    BY DEF Points, Ended
  <2>2. Grounded(call[c].fn, p, call[c].id, call[c].met \cup Facts([box[n] EXCEPT !.st = t]), [box[n] EXCEPT !.st = t])
    BY <1>1 DEF Grounded
  <2> QED BY <1>1, <1>5, <2>1, <2>2, TurnStep
<1>6. CASE PodmanExists(c)
  BY <1>3, <1>4, <1>6 DEF PodmanExists, Ignored
<1>7. CASE PodmanStop(c)
  <2>1. Up(box[n]) => box[n].id > 0
    BY <1>2 DEF Up, Boxes
  <2> QED BY <1>4, <1>5, <1>7, <2>1 DEF PodmanStop, Ignored
<1>8. CASE PodmanCreate(c)
  <2>1. CASE ~ Exists(n) /\ Becomes(n, [id |-> call[c].seq, st |-> "made"], c, "copyNew")
    <3>1. call[c].fn = "ensure" /\ "copyNew" \in Points
      BY <1>8 DEF PodmanCreate, At, Points
    <3> QED BY <1>1, <1>2, <2>1, <3>1, CreateStep DEF Becomes
  <2>2. CASE Goto(c, "err")
    BY <1>1, <2>2, ErrStep
  <2> QED BY <1>3, <1>8, <2>1, <2>2 DEF PodmanCreate
<1>9. CASE PodmanCopy(c)
  <2> DEFINE p == IF call[c].at = "copy" THEN "start" ELSE "startNew"
             t == IF box[n].st = "made" THEN "down" ELSE box[n].st
  <2>1. CASE Exists(n) /\ Becomes(n, [box[n] EXCEPT !.st = t], c, p)
    <3>1. box[n].id > 0 /\ t \in {"made", "down", "up", "dead"} /\ p \in {"start", "startNew"}
      BY <1>2, <2>1 DEF Exists, Boxes
    <3> QED BY <1>5, <2>1, <3>1
  <2>2. CASE Goto(c, "err")
    BY <1>1, <2>2, ErrStep
  <2> QED BY <1>3, <1>9, <2>1, <2>2 DEF PodmanCopy
<1>10. CASE PodmanStart(c)
  <2>1. CASE box[n].st \in {"down", "up"} /\ Becomes(n, [box[n] EXCEPT !.st = "up"], c, "port")
    <3>1. box[n].id > 0
      BY <1>2, <2>1 DEF Boxes
    <3> QED BY <1>5, <2>1, <3>1
  <2>2. CASE Goto(c, "err")
    BY <1>1, <2>2, ErrStep
  <2>3. CASE Goto(c, "port")
    BY <1>4, <2>3
  <2> QED BY <1>3, <1>10, <2>1, <2>2, <2>3 DEF PodmanStart, Ignored
<1>11. CASE PodmanPort(c)
  <2> DEFINE p == IF Up(box[n]) THEN "ok" ELSE "err"
  <2>1. Justified(c, p) /\ p \in Ended
    BY <1>2, <1>11 DEF PodmanPort, At, Justified, Ended, Facts, Up
  <2> QED BY <1>1, <1>11, <2>1, AnswerStep DEF PodmanPort
<1>12. CASE PodmanDestroy(c)
  <2>1. CASE Exists(n) /\ Becomes(n, Absent, c, "removed")
    <3>1. call[c].fn = "destroy"
      BY <1>12 DEF PodmanDestroy, At
    <3> QED BY <1>1, <2>1, <3>1, RemoveStep
  <2> QED BY <1>4, <1>12, <2>1 DEF PodmanDestroy, Ignored
<1> QED BY <1>6, <1>7, <1>8, <1>9, <1>10, <1>11, <1>12 DEF PodmanStep

\* Each Machines API call keeps the trait.  A machine that is no longer the
\* one looked up has been deleted since, and the call met its absence.
LEMMA FlyKeeps ==
  ASSUME BackendInv, NEW c \in Callers, FlyStep(c)
  PROVE  Keeps
<1> DEFINE n == call[c].key
<1>1. Active(c) /\ kind.name = "fly"
  <2>1. call[c].at \in {"boot", "wait"} => call[c].fn # "none"
    BY DEF BackendInv, TraitInv, Ended
  <2> QED BY <2>1 DEF FlyStep, FlyFind, FlyStart, FlyCreate, FlyWait, FlyStop, FlyDelete, At, Active, Ended
<1>2. /\ Facts(box[n]) \subseteq call[c].met /\ box[n] \in Boxes /\ call[c].id \in 0..MaxCalls
      /\ (box[n].id = 0 <=> box[n].st = "none") /\ call[c].seq \in 1..MaxCalls
      /\ Grounded(call[c].fn, call[c].at, call[c].id, call[c].met, box[n])
  BY <1>1, InProgress
<1>3. Goto(c, "err") => Keeps
  BY <1>1, ErrStep
<1>4. CASE FlyFind(c)
  <2>1. call[c].fn \in {"ensure", "url", "destroy"}
    BY <1>4 DEF FlyFind
  <2>2. CASE ~ Exists(n) /\ Goto(c, "create")
    BY <1>1, <2>2, PlainStep DEF Points, Ended
  <2>3. CASE ~ Exists(n) /\ Goto(c, "removed")
    <3>1. Grounded(call[c].fn, "removed", call[c].id, call[c].met, box[n])
      BY <1>2, <2>3 DEF Grounded, Facts, Exists, Boxes
    <3> QED BY <1>1, <2>3, <3>1, MoveStep DEF Points, Ended
  <2>4. CASE Exists(n) /\ GotoWith(c, IF call[c].fn = "destroy" THEN "stop" ELSE IF Up(box[n]) THEN "wait" ELSE "boot", box[n].id)
    <3> DEFINE p == IF call[c].fn = "destroy" THEN "stop" ELSE IF Up(box[n]) THEN "wait" ELSE "boot"
    <3>1. p \in Points /\ p \notin Ended /\ box[n].id \in 0..MaxCalls
      BY <1>2 DEF Points, Ended, Boxes
    <3>2. Grounded(call[c].fn, p, box[n].id, call[c].met, box[n])
      BY <2>1 DEF Grounded
    <3> HIDE DEF p
    <3>3. GotoWith(c, p, box[n].id)
      BY <2>4 DEF p
    <3> QED BY <1>1, <3>1, <3>2, <3>3, GotoStep
  <2> QED BY <1>3, <1>4, <2>1, <2>2, <2>3, <2>4 DEF FlyFind, Fails
<1>5. CASE FlyStart(c)
  <2>1. call[c].fn \in {"ensure", "url"}
    BY <1>2, <1>5 DEF FlyStart, Grounded
  <2>2. CASE Goto(c, "wait")
    <3>1. Grounded(call[c].fn, "wait", call[c].id, call[c].met, box[n])
      BY <2>1 DEF Grounded
    <3> QED BY <1>1, <2>2, <3>1, MoveStep DEF Points, Ended
  <2>3. CASE Mine(c) /\ Becomes(n, [box[n] EXCEPT !.st = IF @ = "down" THEN "made" ELSE @], c, "wait")
    <3> DEFINE t == IF box[n].st = "down" THEN "made" ELSE box[n].st
    <3>1. box[n].id > 0 /\ t \in {"made", "down", "up", "dead"}
      BY <1>2, <2>3 DEF Mine, Exists, Boxes
    <3>2. Grounded(call[c].fn, "wait", call[c].id, call[c].met \cup Facts([box[n] EXCEPT !.st = t]), [box[n] EXCEPT !.st = t])
      BY <2>1 DEF Grounded
    <3>3. Becomes(n, [box[n] EXCEPT !.st = t], c, "wait")
      BY <2>3
    <3>4. "wait" \in Points /\ "wait" \notin Ended
      BY DEF Points, Ended
    <3> HIDE DEF t
    <3> QED BY <1>1, <3>1, <3>2, <3>3, <3>4, TurnStep
  <2> QED BY <1>3, <1>5, <2>2, <2>3 DEF FlyStart, Fails, Ignored
<1>6. CASE FlyCreate(c)
  <2>1. CASE ~ Exists(n) /\ BecomesWith(n, [id |-> call[c].seq, st |-> "made"], c, "wait", call[c].seq)
    <3>1. call[c].fn = "ensure" /\ "wait" \in Points /\ call[c].seq \in 0..MaxCalls
      BY <1>2, <1>6, BoundsAssumption DEF FlyCreate, At, Points
    <3> QED BY <1>1, <2>1, <3>1, CreateStep
  <2> QED BY <1>3, <1>6, <2>1 DEF FlyCreate, Fails, Machine
<1>7. CASE FlyWait(c)
  <2> DEFINE p == IF Mine(c) /\ Up(box[n]) THEN "ok" ELSE "err"
  <2>1. Justified(c, p) /\ p \in Ended
    BY <1>2, <1>7 DEF FlyWait, Justified, Ended, Facts, Up, Grounded, Mine, Exists
  <2> QED BY <1>1, <1>7, <2>1, AnswerStep DEF FlyWait
<1>8. CASE FlyStop(c)
  <2>1. call[c].fn = "destroy" /\ (box[n].id = call[c].id \/ "absent" \in call[c].met)
    BY <1>1, <1>2, <1>8 DEF FlyStop, At, Grounded
  <2>2. "delete" \in Points /\ "delete" \notin Ended
    BY DEF Points, Ended
  <2>3. CASE Goto(c, "delete")
    <3>1. Grounded(call[c].fn, "delete", call[c].id, call[c].met, box[n])
      BY <2>1 DEF Grounded
    <3> QED BY <1>1, <2>2, <2>3, <3>1, MoveStep
  <2>4. CASE Mine(c) /\ Becomes(n, [box[n] EXCEPT !.st = "down"], c, "delete")
    <3>1. box[n].id > 0 /\ [box[n] EXCEPT !.st = "down"].id = box[n].id
      BY <1>2, <2>4 DEF Mine, Exists, Boxes
    <3>2. Grounded(call[c].fn, "delete", call[c].id, call[c].met \cup Facts([box[n] EXCEPT !.st = "down"]), [box[n] EXCEPT !.st = "down"])
      BY <2>1, <3>1 DEF Grounded
    <3> QED BY <1>1, <2>2, <2>4, <3>1, <3>2, TurnStep
  <2> QED BY <1>8, <2>3, <2>4 DEF FlyStop, Ignored
<1>9. CASE FlyDelete(c)
  <2>1. call[c].fn = "destroy" /\ (box[n].id = call[c].id \/ "absent" \in call[c].met)
    BY <1>1, <1>2, <1>9 DEF FlyDelete, At, Grounded
  <2>2. CASE Mine(c) /\ Becomes(n, Absent, c, "removed")
    BY <1>1, <2>1, <2>2, RemoveStep DEF Mine
  <2>3. CASE ~ Mine(c) /\ Goto(c, "removed")
    <3>1. "absent" \in call[c].met
      BY <1>2, <2>1, <2>3 DEF Mine, Exists, Facts, Boxes
    <3>2. Grounded(call[c].fn, "removed", call[c].id, call[c].met, box[n])
      BY <3>1 DEF Grounded
    <3> QED BY <1>1, <2>3, <3>2, MoveStep DEF Points, Ended
  <2> QED BY <1>3, <1>9, <2>2, <2>3 DEF FlyDelete, Fails
<1> QED BY <1>4, <1>5, <1>6, <1>7, <1>8, <1>9 DEF FlyStep

\* Each request to the Kubernetes API keeps the trait: the pod an ensure
\* deletes is one it has met when it was not running.
LEMMA KubernetesKeeps ==
  ASSUME BackendInv, NEW c \in Callers, KubernetesStep(c)
  PROVE  Keeps
<1> DEFINE n == call[c].key
<1>1. Active(c) /\ kind.name = "kubernetes"
  BY DEF KubernetesStep, K8sGet, K8sDelete, K8sGone, K8sCreate, K8sWait, K8sDestroy, At, Active, Ended
<1>2. /\ Facts(box[n]) \subseteq call[c].met /\ box[n] \in Boxes /\ call[c].id \in 0..MaxCalls
      /\ (box[n].id = 0 <=> box[n].st = "none") /\ call[c].seq \in 1..MaxCalls
      /\ Grounded(call[c].fn, call[c].at, call[c].id, call[c].met, box[n])
  BY <1>1, InProgress
<1>3. Goto(c, "err") => Keeps
  BY <1>1, ErrStep
<1>4. Goto(c, "create") \/ Goto(c, "gone") => Keeps
  BY <1>1, PlainStep DEF Points, Ended
<1>5. CASE K8sGet(c)
  <2>1. call[c].fn = "ensure"
    BY <1>5 DEF K8sGet, At
  <2>2. CASE Up(box[n]) /\ Goto(c, "ok")
    <3>1. Justified(c, "ok") /\ "ok" \in Ended
      BY <1>2, <2>1, <2>2 DEF Justified, Ended, Facts, Up
    <3> QED BY <1>1, <2>2, <3>1, AnswerStep
  <2>3. CASE Exists(n) /\ ~ Up(box[n]) /\ Goto(c, "delete")
    <3>1. Grounded(call[c].fn, "delete", call[c].id, call[c].met, box[n])
      BY <1>1, <1>2, <2>3 DEF Grounded, Facts, Exists, Boxes
    <3> QED BY <1>1, <2>3, <3>1, MoveStep DEF Points, Ended
  <2> QED BY <1>3, <1>4, <1>5, <2>2, <2>3 DEF K8sGet, Fails
<1>6. CASE K8sDelete(c)
  <2>1. call[c].fn = "ensure" /\ "down" \in call[c].met
    BY <1>2, <1>6 DEF K8sDelete, At, Grounded
  <2>2. CASE Exists(n) /\ Becomes(n, Absent, c, "gone")
    BY <1>1, <2>1, <2>2, RemoveStep
  <2> QED BY <1>4, <1>6, <2>2 DEF K8sDelete, Ignored
<1>7. CASE K8sGone(c)
  BY <1>4, <1>7 DEF K8sGone
<1>8. CASE K8sCreate(c)
  <2>1. CASE ~ Exists(n) /\ Becomes(n, [id |-> call[c].seq, st |-> "made"], c, "wait")
    <3>1. call[c].fn = "ensure" /\ "wait" \in Points
      BY <1>8 DEF K8sCreate, At, Points
    <3> QED BY <1>1, <1>2, <2>1, <3>1, CreateStep DEF Becomes
  <2> QED BY <1>3, <1>8, <2>1 DEF K8sCreate, Fails, Pod
<1>9. CASE K8sWait(c)
  <2> DEFINE p == IF Up(box[n]) THEN "ok" ELSE "err"
  <2>1. Justified(c, p) /\ p \in Ended
    BY <1>2, <1>9 DEF K8sWait, At, Justified, Ended, Facts, Up
  <2> QED BY <1>1, <1>9, <2>1, AnswerStep DEF K8sWait
<1>10. CASE K8sDestroy(c)
  <2>1. call[c].fn = "destroy"
    BY <1>10 DEF K8sDestroy, At
  <2>2. CASE Exists(n) /\ Becomes(n, Absent, c, "removed")
    BY <1>1, <2>1, <2>2, RemoveStep
  <2>3. CASE ~ Exists(n) /\ Goto(c, "removed")
    <3>1. Grounded(call[c].fn, "removed", call[c].id, call[c].met, box[n])
      BY <1>2, <2>3 DEF Grounded, Facts, Exists, Boxes
    <3> QED BY <1>1, <2>3, <3>1, MoveStep DEF Points, Ended
  <2> QED BY <1>3, <1>10, <2>2, <2>3 DEF K8sDestroy, Fails
<1> QED BY <1>5, <1>6, <1>7, <1>8, <1>9, <1>10 DEF KubernetesStep

\* Each call of the Sprites API keeps the trait: an ensure opens its tunnel
\* only after it has started the agent.
LEMMA SpritesKeeps ==
  ASSUME BackendInv, NEW c \in Callers, SpritesStep(c)
  PROVE  Keeps
<1> DEFINE n == call[c].key
<1>1. Active(c) /\ kind.name = "sprites"
  BY DEF SpritesStep, SpriteFind, SpriteCreate, SpriteReady, SpriteHalt, SpriteUpload, SpriteLaunch,
         SpriteTunnel, SpriteUntunnel, SpriteDelete, At, Active, Ended
<1>2. /\ Facts(box[n]) \subseteq call[c].met /\ box[n] \in Boxes /\ call[c].id \in 0..MaxCalls
      /\ (box[n].id = 0 <=> box[n].st = "none") /\ call[c].seq \in 1..MaxCalls
      /\ Grounded(call[c].fn, call[c].at, call[c].id, call[c].met, box[n])
  BY <1>1, InProgress
<1>3. Goto(c, "err") => Keeps
  BY <1>1, ErrStep
<1>4. ASSUME NEW p \in {"ready", "create", "halt", "upload", "launch"}, Goto(c, p)
      PROVE  Keeps
  <2>1. p \in Points /\ p \notin Ended
    BY DEF Points, Ended
  <2> QED BY <1>1, <1>4, <2>1, PlainStep
<1>5. ASSUME NEW p \in {"upload", "tunnel"}, NEW t \in {"down", "up"}, box[n].id > 0,
             p = "tunnel" => t = "up", Becomes(n, [box[n] EXCEPT !.st = t], c, p)
      PROVE  Keeps
  <2>1. p \in Points /\ p \notin Ended
    BY DEF Points, Ended
  <2>2. [box[n] EXCEPT !.st = t].st = t /\ [box[n] EXCEPT !.st = t].id = box[n].id
    BY <1>2 DEF Boxes
  <2>3. Grounded(call[c].fn, p, call[c].id, call[c].met \cup Facts([box[n] EXCEPT !.st = t]), [box[n] EXCEPT !.st = t])
    BY <1>1, <1>2, <1>5, <2>2 DEF Grounded, Facts, Up, Boxes
  <2> QED BY <1>1, <1>5, <2>1, <2>3, TurnStep
<1>6. CASE SpriteFind(c)
  BY <1>3, <1>4, <1>6 DEF SpriteFind, Fails
<1>7. CASE SpriteCreate(c)
  <2>1. CASE ~ Exists(n) /\ Becomes(n, [id |-> call[c].seq, st |-> "made"], c, "ready")
    <3>1. call[c].fn = "ensure" /\ "ready" \in Points
      BY <1>7 DEF SpriteCreate, At, Points
    <3> QED BY <1>1, <1>2, <2>1, <3>1, CreateStep DEF Becomes
  <2> QED BY <1>3, <1>4, <1>7, <2>1 DEF SpriteCreate, Fails
<1>8. CASE SpriteReady(c)
  BY <1>3, <1>4, <1>8 DEF SpriteReady, Fails
<1>9. CASE SpriteHalt(c)
  <2>1. Up(box[n]) => box[n].id > 0
    BY <1>2 DEF Up, Boxes
  <2> QED BY <1>3, <1>4, <1>5, <1>9, <2>1 DEF SpriteHalt, Fails
<1>10. CASE SpriteUpload(c)
  BY <1>3, <1>4, <1>10 DEF SpriteUpload, Fails
<1>11. CASE SpriteLaunch(c)
  <2>1. box[n].st \in {"down", "up"} => box[n].id > 0
    BY <1>2 DEF Boxes
  <2> QED BY <1>3, <1>5, <1>11, <2>1 DEF SpriteLaunch, Fails
<1>12. CASE SpriteTunnel(c)
  <2>1. CASE Goto(c, "ok")
    <3>1. Justified(c, "ok") /\ "ok" \in Ended
      BY <1>1, <1>2, <1>12 DEF SpriteTunnel, At, Justified, Ended, Grounded
    <3> QED BY <1>1, <2>1, <3>1, AnswerStep
  <2> QED BY <1>3, <1>12, <2>1 DEF SpriteTunnel, Fails
<1>13. CASE SpriteUntunnel(c)
  <2>1. Grounded(call[c].fn, "delete", call[c].id, call[c].met, box[n])
    BY <1>1, <1>13 DEF SpriteUntunnel, At, Grounded
  <2> QED BY <1>1, <1>13, <2>1, MoveStep DEF SpriteUntunnel, Points, Ended
<1>14. CASE SpriteDelete(c)
  <2>1. call[c].fn = "destroy"
    BY <1>14 DEF SpriteDelete, At
  <2>2. CASE Exists(n) /\ Becomes(n, Absent, c, "removed")
    BY <1>1, <2>1, <2>2, RemoveStep
  <2>3. CASE ~ Exists(n) /\ Goto(c, "removed")
    <3>1. Grounded(call[c].fn, "removed", call[c].id, call[c].met, box[n])
      BY <1>2, <2>3 DEF Grounded, Facts, Exists, Boxes
    <3> QED BY <1>1, <2>3, <3>1, MoveStep DEF Points, Ended
  <2> QED BY <1>3, <1>14, <2>2, <2>3 DEF SpriteDelete, Fails
<1> QED BY <1>6, <1>7, <1>8, <1>9, <1>10, <1>11, <1>12, <1>13, <1>14 DEF SpritesStep

-----------------------------------------------------------------------------
\* The initial state satisfies the invariant and is one of the trait's.
LEMMA InitKeeps ==
  ASSUME Init
  PROVE  BackendInv /\ Trait!Init
<1>1. TypeOK
  BY BoundsAssumption DEF Init, BackendInit, TypeOK, Absent, NoCall, Names, Points, Ended
<1>2. \A n \in Names : box[n] = Absent
  BY DEF Init, BackendInit
<1>3. \A c \in Callers : call[c] = NoCall
  BY DEF Init, BackendInit
<1>4. BackendInv
  <2>1. TraitInv
    BY <1>1, <1>2, <1>3 DEF TraitInv, Absent, NoCall, Active, Ended
  <2>2. NamesInv
    BY <1>2, <1>3 DEF NamesInv, NoneStray, Named, Absent, NoCall, Exists, Init, BackendInit
  <2> QED BY <2>1, <2>2 DEF BackendInv
<1>5. AbsBox = [n \in Names |-> [id |-> 0, up |-> FALSE]]
  <2>1. Absent.id = 0 /\ Absent.st # "up"
    BY DEF Absent
  <2>2. Up(Absent) = FALSE
    BY <2>1, Zenon DEF Up
  <2> QED BY <1>2, <2>1, <2>2, Zenon DEF AbsBox
<1>6. AbsCall = [c \in Callers |-> Trait!Idle("x")]
  BY <1>3 DEF AbsCall, NoCall, Trait!Idle
<1> QED BY <1>4, <1>5, <1>6, LapsesNamed DEF Trait!Init, Names

\* Every step of the gateway keeps the invariant and the trait.
LEMMA NextKeeps ==
  ASSUME BackendInv, [Next]_vars
  PROVE  Keeps
<1>1. CASE Next
  BY <1>1, RegistryStep, CommonStep, RuntimeStep, PodmanKeeps, FlyKeeps, KubernetesKeeps, SpritesKeeps DEF Next
<1>2. CASE UNCHANGED vars
  <2>1. TraitInv'
    BY <1>2 DEF vars, BackendInv, TraitInv, TypeOK, Active, Grounded
  <2>2. NamesInv'
    BY <1>2 DEF vars, BackendInv, NamesInv, NoneStray, Named, Exists, Prefixed
  <2>3. UNCHANGED <<LapsesOf(kind.name), AbsBox, AbsCall>>
    BY <1>2 DEF vars, LapsesOf, AbsBox, AbsCall, Up
  <2> QED BY <2>1, <2>2, <2>3 DEF Keeps, TraitStep, BackendInv
<1> QED BY <1>1, <1>2

\* A call in progress on any backend has met its container as it is now, and
\* has met whatever it will answer or delete on the strength of; the registry's
\* requests work on names that were handed out.
THEOREM BackendInvariant == Spec => []BackendInv
<1>1. Init => BackendInv
  BY InitKeeps
<1>2. BackendInv /\ [Next]_vars => BackendInv'
  BY NextKeeps DEF Keeps
<1> QED BY <1>1, <1>2, PTL DEF Spec

\* Every backend implements the trait: containers appear only under an ensure
\* of their name and go only under a destroy (or, on Kubernetes, an ensure that
\* met them down), and each answer was true at some moment of its call, up to
\* the lapses of the configured backend.
THEOREM BackendsKeepTrait == Spec => KeepsTrait
<1>1. Init => Trait!Init
  BY InitKeeps
<1>2. BackendInv /\ [Next]_vars => TraitStep
  BY NextKeeps DEF Keeps
<1> QED BY <1>1, <1>2, BackendInvariant, PTL DEF Spec, KeepsTrait, Trait!Spec, TraitStep

\* On every backend, a container whose name was not handed out belongs to a
\* request in progress or to an ensure that failed, but for the second sprite
\* that attach brings up under a configured prefix.
THEOREM NoContainerStray == Spec => []NoneStray
<1>1. BackendInv => NoneStray
  BY DEF BackendInv, NamesInv
<1> QED BY <1>1, BackendInvariant, PTL
=============================================================================
