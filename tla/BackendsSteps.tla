--------------------------- MODULE BackendsSteps ----------------------------
(***************************************************************************)
(* A step of a backend either moves one caller (GotoWith) or changes one   *)
(* container (BecomesWith).  GotoStep and BecomesStep show once what such a *)
(* step needs to preserve BackendInv and to be a step of the trait; the    *)
(* lemmas after them do the same for the registry and the runtime.         *)
(***************************************************************************)
EXTENDS Backends, TLAPS

Boxes == [id : 0..MaxCalls, st : {"none", "made", "down", "up", "dead"}]
Requests == [op : {"none", "spawn", "attach", "kill"}, name : Names,
             fn : {"none", "exists", "ensure", "url", "destroy"}, at : Points,
             key : Names, seq : 0..MaxCalls, id : 0..MaxCalls,
             met : SUBSET {"absent", "present", "up", "down"}]

\* What a step must establish: the invariant again, and a step of the trait
\* or none.
TraitStep == [Trait!Next]_<<LapsesOf(kind.name), AbsBox, AbsCall>>
Keeps == BackendInv' /\ TraitStep

\* The answer p of caller c is one the trait allows.
Justified(c, p) ==
  LET k == call[c]
  IN  \/ p = "err"
      \/ k.fn = "exists" /\ p = "ok" /\ "present" \in k.met
      \/ k.fn = "exists" /\ p = "no" /\ ("absent" \in k.met \/ kind.name = "podman")
      \/ k.fn = "ensure" /\ p = "ok" /\ "up" \in k.met
      \/ k.fn = "url" /\ p = "ok" /\ ("up" \in k.met \/ kind.name = "sprites")
      \/ k.fn = "destroy" /\ p = "ok" /\ ("absent" \in k.met \/ kind.name = "podman")

\* Each backend's lapses are promises of the trait, and are its own.
LEMMA LapsesNamed ==
  /\ LapsesOf(kind.name) \subseteq Trait!Lapses
  /\ kind.name = "podman" => {"forgives", "guesses"} \subseteq LapsesOf(kind.name)
  /\ kind.name = "kubernetes" => "recreates" \in LapsesOf(kind.name)
  /\ kind.name = "sprites" => "blindUrl" \in LapsesOf(kind.name)
BY DEF LapsesOf, Trait!Lapses

\* What an observer of the abstract container learns is what the call records.
LEMMA SeenIsFacts == \A b \in Boxes : Trait!Seen([id |-> b.id, up |-> Up(b)]) = Facts(b)
BY DEF Trait!Seen, Facts, Up, Boxes

\* A call of the trait is running exactly when the request is in progress.
LEMMA RunningIsActive ==
  ASSUME BackendInv
  PROVE  \A c \in Callers : Trait!Running(c) <=> Active(c)
BY DEF BackendInv, TraitInv, TypeOK, Trait!Running, Active, AbsCall, Ended

\* The facts about a container are among the four.
LEMMA FactsTyped == \A b \in Boxes : Facts(b) \subseteq {"absent", "present", "up", "down"}
BY DEF Facts, Up, Boxes

\* A caller moving on inside its call keeps what the call rests on, and shows
\* to the trait only when it answers.
LEMMA GotoStep ==
  ASSUME BackendInv, NEW c \in Callers, Active(c), NEW p \in Points, NEW i \in 0..MaxCalls,
         GotoWith(c, p, i),
         p \in Ended => Justified(c, p),
         p \notin Ended => Grounded(call[c].fn, p, i, call[c].met, box[call[c].key])
  PROVE  Keeps
<1>0. TraitInv /\ NamesInv
  BY DEF BackendInv
<1> USE <1>0
<1> DEFINE k == [call[c] EXCEPT !.at = p, !.id = i]
<1>1. /\ call \in [Callers -> Requests] /\ call[c] \in Requests
      /\ box' = box /\ kind' = kind /\ handed' = handed /\ begun' = begun
  BY DEF BackendInv, TraitInv, TypeOK, Requests, GotoWith, world
<1>2. /\ k \in Requests /\ k.op = call[c].op /\ k.name = call[c].name /\ k.fn = call[c].fn
      /\ k.key = call[c].key /\ k.seq = call[c].seq /\ k.met = call[c].met
      /\ k.at = p /\ k.id = i
  BY <1>1 DEF Requests
<1>3. call' = [call EXCEPT ![c] = k]
  BY <1>1 DEF GotoWith, Requests
<1> HIDE DEF k
<1>4. TraitInv'
  <2>1. TypeOK'
    BY <1>1, <1>2, <1>3 DEF BackendInv, TraitInv, TypeOK, Requests
  <2>2. \A n \in Names : box'[n].id = 0 <=> box'[n].st = "none"
    BY <1>1 DEF BackendInv, TraitInv
  <2>3. ASSUME NEW d \in Callers
        PROVE  /\ call'[d].op = "none" <=> call'[d].fn = "none"
               /\ call'[d].fn = "none" => call'[d].at \in Ended
               /\ call'[d].fn # "none" => call'[d].seq > 0
               /\ Active(d)' => /\ Facts(box'[call'[d].key]) \subseteq call'[d].met
                                /\ Grounded(call[d].fn, call[d].at, call[d].id, call[d].met, box[call[d].key])'
    <3>1. CASE d = c
      <4>1. call'[d] = k
        BY <1>1, <1>3, <3>1
      <4>2. Active(d)' => p \notin Ended
        BY <1>2, <4>1 DEF Active
      <4>3. call[c].fn # "none" /\ call'[d].fn # "none"
        BY <1>2, <4>1 DEF Active
      <4> QED BY <1>1, <1>2, <3>1, <4>1, <4>2, <4>3 DEF BackendInv, TraitInv, Active, Grounded
    <3>2. CASE d # c
      <4>1. call'[d] = call[d]
        BY <1>1, <1>3, <3>2
      <4> QED BY <1>1, <4>1 DEF BackendInv, TraitInv, Active, Grounded
    <3> QED BY <3>1, <3>2
  <2> QED BY <2>1, <2>2, <2>3 DEF BackendInv, TraitInv
<1>5. AbsBox' = AbsBox /\ LapsesOf(kind.name)' = LapsesOf(kind.name)
  BY <1>1 DEF AbsBox, LapsesOf, Up
<1>names. NamesInv'
  <2>1. Prefixed(call[c].name)' = Prefixed(call[c].name) /\ failed \subseteq failed'
    BY <1>1 DEF Prefixed, GotoWith
  <2>2. call[c].fn = "ensure" /\ p \in Ended => p = "ok" \/ call[c].key \in failed'
    BY DEF Justified, GotoWith, Ended
  <2>3. ASSUME NEW d \in Callers
        PROVE  Named(call[d])'
    <3>1. CASE d = c
      <4>1. call'[d] = k
        BY <1>1, <1>3, <3>1
      <4> QED BY <1>1, <1>2, <2>1, <2>2, <3>1, <4>1 DEF NamesInv, Named, Prefixed
    <3>2. CASE d # c
      <4>1. call'[d] = call[d]
        BY <1>1, <1>3, <3>2
      <4> QED BY <1>1, <2>1, <4>1 DEF NamesInv, Named, Prefixed
    <3> QED BY <3>1, <3>2
  <2>4. NoneStray'
    <3>1. \A d \in Callers : call'[d].op = call[d].op /\ call'[d].key = call[d].key
      BY <1>1, <1>2, <1>3
    <3> QED BY <1>1, <2>1, <3>1 DEF NamesInv, NoneStray, Exists
  <2> QED BY <1>1, <2>3, <2>4 DEF NamesInv
<1>6. CASE p \notin Ended
  <2>1. AbsCall' = AbsCall
    BY <1>1, <1>2, <1>3, <1>6 DEF AbsCall, Active
  <2> QED BY <1>4, <1>names, <1>5, <2>1 DEF Keeps, BackendInv, TraitStep
<1>7. CASE p \in Ended
  <2>1. Trait!Running(c)
    BY RunningIsActive
  <2>2. Trait!Earned(c, p)
    BY <1>7, LapsesNamed DEF Justified, Trait!Earned, AbsCall
  <2>3. AbsCall' = [AbsCall EXCEPT ![c].res = p]
    BY <1>1, <1>2, <1>3, <1>7 DEF AbsCall, Active
  <2>4. p \in Trait!Answers
    BY <1>7 DEF Ended, Trait!Answers
  <2>5. Trait!Return(c, p)
    BY <1>5, <2>1, <2>2, <2>3 DEF Trait!Return
  <2> QED BY <1>4, <1>names, <2>4, <2>5 DEF Keeps, BackendInv, TraitStep, Trait!Next
<1> QED BY <1>6, <1>7

\* How container n may change on behalf of c: as the trait allows.
Permitted(n, b, c) ==
  \/ box[n].id > 0 /\ b.id = box[n].id
  \/ box[n].id = 0 /\ b.id > 0 /\ c \in Callers /\ call[c].fn = "ensure"
  \/ /\ box[n].id > 0 /\ b.id = 0 /\ c \in Callers
     /\ \/ call[c].fn = "destroy"
        \/ call[c].fn = "ensure" /\ kind.name = "kubernetes" /\ "down" \in call[c].met

\* A container changing is a change of the trait's container, and every call
\* in progress on it still rests on what it has met.
LEMMA BecomesStep ==
  ASSUME BackendInv, NEW n \in Names, NEW b \in Boxes, b.id = 0 <=> b.st = "none",
         NEW c \in Callers \cup {"none"}, NEW p, NEW i,
         BecomesWith(n, b, c, p, i), Permitted(n, b, c),
         c \in Callers => /\ Active(c) /\ call[c].key = n /\ p \in Points \ Ended /\ i \in 0..MaxCalls
                          /\ Grounded(call[c].fn, p, i, call[c].met \cup Facts(b), b)
  PROVE  Keeps
<1>0. TraitInv /\ NamesInv
  BY DEF BackendInv
<1> USE <1>0
<1> DEFINE k(d) == [call[d] EXCEPT !.at = IF d = c THEN p ELSE @,
                                   !.id = IF d = c THEN i ELSE @,
                                   !.met = IF Active(d) /\ call[d].key = n THEN @ \cup Facts(b) ELSE @]
<1>1. /\ call \in [Callers -> Requests] /\ box \in [Names -> Boxes]
      /\ kind' = kind /\ handed' = handed /\ begun' = begun
      /\ box' = [box EXCEPT ![n] = b]
  BY DEF BackendInv, TraitInv, TypeOK, Requests, Boxes, BecomesWith, world
<1>2. call' = [d \in Callers |-> k(d)]
  BY DEF BecomesWith
<1>3. ASSUME NEW d \in Callers
      PROVE  /\ k(d) \in Requests /\ k(d).op = call[d].op /\ k(d).name = call[d].name
             /\ k(d).fn = call[d].fn /\ k(d).key = call[d].key /\ k(d).seq = call[d].seq
             /\ k(d).at = IF d = c THEN p ELSE call[d].at
             /\ k(d).id = IF d = c THEN i ELSE call[d].id
             /\ k(d).met = IF Active(d) /\ call[d].key = n THEN call[d].met \cup Facts(b) ELSE call[d].met
  <2>1. call[d] \in Requests /\ (d = c => p \in Points /\ i \in 0..MaxCalls)
    BY <1>1
  <2>2. Facts(b) \subseteq {"absent", "present", "up", "down"}
    BY FactsTyped
  <2> QED BY <2>1, <2>2 DEF Requests
<1> HIDE DEF k
<1>4. ASSUME NEW d \in Callers
      PROVE  Active(d)' <=> Active(d)
  BY <1>2, <1>3 DEF Active
<1>5. TraitInv'
  <2>1. TypeOK'
    BY <1>1, <1>2, <1>3 DEF BackendInv, TraitInv, TypeOK, Requests, Boxes
  <2>2. \A m \in Names : box'[m].id = 0 <=> box'[m].st = "none"
    BY <1>1 DEF BackendInv, TraitInv
  <2>3. ASSUME NEW d \in Callers
        PROVE  /\ call'[d].op = "none" <=> call'[d].fn = "none"
               /\ call'[d].fn = "none" => call'[d].at \in Ended
               /\ call'[d].fn # "none" => call'[d].seq > 0
    BY <1>2, <1>3, ZenonT(60) DEF BackendInv, TraitInv, Active
  <2>4. ASSUME NEW d \in Callers, Active(d)'
        PROVE  Facts(box'[call'[d].key]) \subseteq call'[d].met
    <3>1. Active(d) /\ call[d].key \in Names /\ Facts(box[call[d].key]) \subseteq call[d].met
      BY <1>1, <1>4, <2>4 DEF BackendInv, TraitInv, Requests
    <3>2. CASE call[d].key = n
      BY <1>1, <1>2, <1>3, <3>1, <3>2
    <3>3. CASE call[d].key # n
      BY <1>1, <1>2, <1>3, <3>1, <3>3
    <3> QED BY <3>2, <3>3
  <2>5. ASSUME NEW d \in Callers, Active(d)'
        PROVE  Grounded(call[d].fn, call[d].at, call[d].id, call[d].met, box[call[d].key])'
    <3>1. /\ Active(d) /\ call[d].key \in Names /\ Facts(box[call[d].key]) \subseteq call[d].met
          /\ Grounded(call[d].fn, call[d].at, call[d].id, call[d].met, box[call[d].key])
      BY <1>1, <1>4, <2>5 DEF BackendInv, TraitInv, Requests
    <3>2. CASE d = c
      <4>1. /\ call'[d].fn = call[d].fn /\ call'[d].at = p /\ call'[d].id = i
            /\ call'[d].met = call[d].met \cup Facts(b) /\ call'[d].key = n /\ box'[n] = b
        BY <1>1, <1>2, <1>3, <3>1, <3>2
      <4> QED BY <1>1, <3>2, <4>1 DEF Grounded
    <3>3. CASE d # c /\ call[d].key # n
      <4>1. call'[d].key = call[d].key /\ box'[call[d].key] = box[call[d].key]
        BY <1>1, <1>2, <1>3, <3>1, <3>3
      <4>2. /\ call'[d].fn = call[d].fn /\ call'[d].at = call[d].at /\ call'[d].id = call[d].id
            /\ call'[d].met = call[d].met
        BY <1>2, <1>3, <3>3
      <4> QED BY <1>1, <3>1, <4>1, <4>2 DEF Grounded
    <3>4. CASE d # c /\ call[d].key = n
      <4>1. /\ call'[d].fn = call[d].fn /\ call'[d].at = call[d].at /\ call'[d].id = call[d].id
            /\ call'[d].met = call[d].met \cup Facts(b) /\ call'[d].key = n /\ box'[n] = b
        BY <1>1, <1>2, <1>3, <3>1, <3>4
      <4>2. b.id = box[n].id \/ "absent" \in call'[d].met
        BY <3>1, <3>4, <4>1 DEF Permitted, Facts
      <4> QED BY <1>1, <3>1, <3>4, <4>1, <4>2 DEF Grounded
    <3> QED BY <3>2, <3>3, <3>4
  <2> QED BY <2>1, <2>2, <2>3, <2>4, <2>5 DEF BackendInv, TraitInv
<1>names. NamesInv'
  <2>1. failed' = failed /\ \A m \in Names : Prefixed(m)' = Prefixed(m)
    BY <1>1 DEF BecomesWith, Prefixed
  <2>2. ASSUME NEW d \in Callers
        PROVE  Named(call[d])'
    <3>1. call'[d].at \in Ended => call'[d].at = call[d].at
      BY <1>2, <1>3
    <3>2. /\ call'[d].op = call[d].op /\ call'[d].name = call[d].name /\ call'[d].fn = call[d].fn
          /\ call'[d].key = call[d].key
      BY <1>2, <1>3
    <3>3. Named(call[d])
      BY DEF NamesInv
    <3> QED BY <1>1, <2>1, <3>1, <3>2, <3>3 DEF Named, Prefixed
  <2>3. NoneStray'
    <3>1. \A d \in Callers : call'[d].op = call[d].op /\ call'[d].key = call[d].key
      BY <1>2, <1>3
    <3>2. ASSUME NEW m \in Names, box'[m].id > 0
          PROVE  \/ m \in handed \cup failed
                 \/ \E d \in Callers : call[d].op # "none" /\ call[d].key = m
                 \/ kind.prefix /\ m = "ppx"
      <4>1. CASE box[m].id > 0
        BY <4>1 DEF NamesInv, NoneStray, Exists
      <4>2. CASE ~ (box[m].id > 0)
        <5>1. m = n /\ c \in Callers
          BY <1>1, <3>2, <4>2 DEF Permitted, Boxes
        <5> QED BY <5>1 DEF TraitInv, Active
      <4> QED BY <4>1, <4>2
    <3> QED BY <1>1, <2>1, <3>1, <3>2 DEF NoneStray, Exists
  <2> QED BY <1>1, <2>2, <2>3 DEF NamesInv
<1> DEFINE a == [id |-> b.id, up |-> Up(b)]
<1>6. a \in [id : {0} \cup (1..MaxCalls), up : BOOLEAN] /\ a.id = b.id
  BY BoundsAssumption DEF Boxes, Up
<1>7. /\ AbsBox' = [AbsBox EXCEPT ![n] = a] /\ AbsBox[n].id = box[n].id
      /\ LapsesOf(kind.name)' = LapsesOf(kind.name)
  BY <1>1 DEF AbsBox, LapsesOf, Up
<1>8. Trait!Seen(a) = Facts(b)
  BY SeenIsFacts
<1> HIDE DEF a
<1>9. Trait!MayBecome(n, a)
  <2>1. c \in Callers => Trait!Running(c) /\ AbsCall[c].key = n /\ AbsCall[c].fn = call[c].fn /\ AbsCall[c].met = call[c].met
    BY RunningIsActive DEF AbsCall
  <2> QED BY <1>6, <1>7, <2>1, LapsesNamed DEF Trait!MayBecome, Permitted
<1>10. AbsCall' = [d \in Callers |->
                     IF Trait!Running(d) /\ AbsCall[d].key = n
                     THEN [AbsCall[d] EXCEPT !.met = @ \cup Trait!Seen(a)] ELSE AbsCall[d]]
  <2>1. \A d \in Callers : /\ AbsCall[d].key = call[d].key
                           /\ Trait!Running(d) <=> Active(d)
    BY RunningIsActive DEF AbsCall
  <2>2. ASSUME NEW d \in Callers
        PROVE  AbsCall'[d] = IF Active(d) /\ call[d].key = n
                             THEN [AbsCall[d] EXCEPT !.met = @ \cup Facts(b)] ELSE AbsCall[d]
    BY <1>2, <1>3, <1>4 DEF AbsCall, Active
  <2>3. AbsCall' = [d \in Callers |-> AbsCall'[d]]
    BY DEF AbsCall
  <2> QED BY <1>8, <2>1, <2>2, <2>3
<1>11. Trait!Change(n, a)
  BY <1>7, <1>9, <1>10 DEF Trait!Change
<1> QED BY <1>5, <1>names, <1>6, <1>11 DEF Keeps, BackendInv, TraitStep, Trait!Next

\* What is known of a request in progress.
LEMMA InProgress ==
  ASSUME BackendInv, NEW c \in Callers, Active(c)
  PROVE  /\ call[c].key \in Names /\ call[c].id \in 0..MaxCalls /\ call[c].seq \in 1..MaxCalls
         /\ box[call[c].key] \in Boxes /\ (box[call[c].key].id = 0 <=> box[call[c].key].st = "none")
         /\ Facts(box[call[c].key]) \subseteq call[c].met
         /\ Grounded(call[c].fn, call[c].at, call[c].id, call[c].met, box[call[c].key])
<1>1. call[c] \in Requests /\ box \in [Names -> Boxes]
  BY DEF BackendInv, TraitInv, TypeOK, Requests, Boxes
<1> QED BY <1>1, BoundsAssumption DEF BackendInv, TraitInv, Requests, Active

\* A failing command ends the call with an error, which the trait allows.
LEMMA ErrStep ==
  ASSUME BackendInv, NEW c \in Callers, Active(c), Goto(c, "err")
  PROVE  Keeps
<1>1. call[c].id \in 0..MaxCalls
  BY InProgress
<1>2. Justified(c, "err") /\ "err" \in Ended
  BY DEF Justified, Ended
<1>3. "err" \in Points
  BY DEF Points, Ended
<1> QED BY <1>1, <1>2, <1>3, GotoStep DEF Goto

\* Going on to a point that rests on nothing in particular.
LEMMA PlainStep ==
  ASSUME BackendInv, NEW c \in Callers, Active(c), NEW p \in Points, Goto(c, p), p \notin Ended,
         p \notin {"boot", "wait", "removed", "stop", "delete", "tunnel"}
  PROVE  Keeps
<1>1. call[c].id \in 0..MaxCalls
  BY InProgress
<1>2. Grounded(call[c].fn, p, call[c].id, call[c].met, box[call[c].key])
  BY DEF Grounded
<1> QED BY <1>1, <1>2, GotoStep DEF Goto

\* Going on to a point whose grounds are given.
LEMMA MoveStep ==
  ASSUME BackendInv, NEW c \in Callers, Active(c), NEW p \in Points, Goto(c, p), p \notin Ended,
         Grounded(call[c].fn, p, call[c].id, call[c].met, box[call[c].key])
  PROVE  Keeps
BY InProgress, GotoStep DEF Goto

\* Answering with a justified answer.
LEMMA AnswerStep ==
  ASSUME BackendInv, NEW c \in Callers, Active(c), NEW p \in Ended, Goto(c, p), Justified(c, p)
  PROVE  Keeps
<1>1. call[c].id \in 0..MaxCalls
  BY InProgress
<1>2. p \in Points
  BY DEF Points
<1> QED BY <1>1, <1>2, GotoStep DEF Goto

\* A caller of an operation changes its own container, which goes on existing.
LEMMA TurnStep ==
  ASSUME BackendInv, NEW c \in Callers, Active(c), NEW t \in {"made", "down", "up", "dead"}, NEW p \in Points,
         LET n == call[c].key IN /\ box[n].id > 0
                                 /\ Becomes(n, [box[n] EXCEPT !.st = t], c, p),
         p \notin Ended,
         Grounded(call[c].fn, p, call[c].id, call[c].met \cup Facts([box[call[c].key] EXCEPT !.st = t]),
                  [box[call[c].key] EXCEPT !.st = t])
  PROVE  Keeps
<1> DEFINE n == call[c].key
           b == [box[n] EXCEPT !.st = t]
<1>1. n \in Names /\ call[c].id \in 0..MaxCalls /\ box[n] \in Boxes
  BY InProgress
<1>2. b \in Boxes /\ b.id = box[n].id /\ b.st = t
  BY <1>1 DEF Boxes
<1>3. BecomesWith(n, b, c, p, call[c].id)
  BY DEF Becomes
<1>4. Permitted(n, b, c)
  BY <1>2 DEF Permitted
<1>5. b.id = 0 <=> b.st = "none"
  BY <1>1, <1>2 DEF Boxes
<1>6. Grounded(call[c].fn, p, call[c].id, call[c].met \cup Facts(b), b)
  OBVIOUS
<1> HIDE DEF b, n
<1>7. call[c].key = n
  BY DEF n
<1> QED BY <1>1, <1>2, <1>3, <1>4, <1>5, <1>6, <1>7, BecomesStep

\* A new container appears under an ensure.
LEMMA CreateStep ==
  ASSUME BackendInv, NEW c \in Callers, Active(c), call[c].fn = "ensure", NEW p \in Points,
         NEW i \in 0..MaxCalls, ~ Exists(call[c].key),
         BecomesWith(call[c].key, [id |-> call[c].seq, st |-> "made"], c, p, i),
         p \in {"copyNew", "wait", "ready"}
  PROVE  Keeps
<1> DEFINE n == call[c].key
           b == [id |-> call[c].seq, st |-> "made"]
<1>1. n \in Names /\ box[n] \in Boxes /\ call[c].seq \in 1..MaxCalls
  BY InProgress
<1>2. b \in Boxes /\ b.id > 0 /\ b.st = "made"
  BY <1>1, BoundsAssumption DEF Boxes
<1>3. BecomesWith(n, b, c, p, i)
  OBVIOUS
<1> HIDE DEF b
<1>4. Permitted(n, b, c)
  BY <1>1, <1>2 DEF Permitted, Exists, Boxes
<1>5. b.id = 0 <=> b.st = "none"
  BY <1>2
<1>6. Grounded(call[c].fn, p, i, call[c].met \cup Facts(b), b)
  BY DEF Grounded
<1>7. p \notin Ended
  BY DEF Ended
<1> QED BY <1>1, <1>2, <1>3, <1>4, <1>5, <1>6, <1>7, BecomesStep

\* A container goes, under a destroy or under an ensure that met it down.
LEMMA RemoveStep ==
  ASSUME BackendInv, NEW c \in Callers, Active(c), Exists(call[c].key), NEW p \in {"removed", "gone"},
         Becomes(call[c].key, Absent, c, p),
         \/ call[c].fn = "destroy"
         \/ call[c].fn = "ensure" /\ kind.name = "kubernetes" /\ "down" \in call[c].met
  PROVE  Keeps
<1> DEFINE n == call[c].key
<1>1. n \in Names /\ box[n] \in Boxes /\ call[c].id \in 0..MaxCalls
  BY InProgress
<1>2. Absent \in Boxes /\ Absent.id = 0 /\ Absent.st = "none"
  BY BoundsAssumption DEF Boxes, Absent
<1>3. BecomesWith(n, Absent, c, p, call[c].id)
  BY DEF Becomes
<1>4. Permitted(n, Absent, c)
  BY <1>1, <1>2 DEF Permitted, Exists, Boxes
<1>5. Grounded(call[c].fn, p, call[c].id, call[c].met \cup Facts(Absent), Absent)
  BY <1>2 DEF Grounded, Facts
<1>6. p \notin Ended
  BY DEF Ended
<1>7. p \in Points
  BY DEF Points
<1> QED BY <1>1, <1>2, <1>3, <1>4, <1>5, <1>6, <1>7, BecomesStep

-----------------------------------------------------------------------------
\* The registry's side: entering a trait operation is a call of the trait.
LEMMA EnterStep ==
  ASSUME BackendInv, NEW c \in Callers, ~ Active(c),
         NEW op \in {"spawn", "attach", "kill"}, NEW fn \in {"exists", "ensure", "url", "destroy"},
         NEW n \in Names, NEW s \in 1..MaxCalls, Enter(c, op, fn, n, s),
         handed' = handed, begun' \in 0..MaxCalls,
         op = "spawn" => fn = "ensure" /\ n = "x",
         op \in {"attach", "kill"} => n \in handed,
         fn \in {"exists", "url"} => op = "attach",
         (fn = "destroy") <=> (op = "kill"),
         call[c].op # "none" => call[c].key \in handed \cup failed \/ (kind.prefix /\ call[c].key = "ppx")
  PROVE  Keeps
<1>0. TraitInv /\ NamesInv
  BY DEF BackendInv
<1> USE <1>0
<1> DEFINE m == IF fn = "ensure" THEN Prefixed(n) ELSE n
           k == [op |-> op, name |-> n, fn |-> fn, at |-> "start", key |-> m,
                 seq |-> s, id |-> 0, met |-> Facts(box[m])]
<1>1. /\ call \in [Callers -> Requests] /\ box \in [Names -> Boxes]
      /\ kind' = kind /\ box' = box
  BY DEF BackendInv, TraitInv, TypeOK, Requests, Boxes, Enter
<1>2. m \in Names
  BY DEF Prefixed, Names
<1>3. call' = [call EXCEPT ![c] = k]
  BY DEF Enter
<1>4. /\ k.op = op /\ k.name = n /\ k.fn = fn /\ k.at = "start" /\ k.key = m /\ k.seq = s /\ k.id = 0
      /\ k.met = Facts(box[m])
  OBVIOUS
<1> HIDE DEF m
<1>5. k \in Requests
  <2>1. Facts(box[m]) \subseteq {"absent", "present", "up", "down"}
    BY <1>1, <1>2, FactsTyped
  <2> QED BY <1>2, <2>1, BoundsAssumption DEF Requests, Points
<1> HIDE DEF k
<1>6. TraitInv'
  <2>1. TypeOK'
    BY <1>1, <1>3, <1>5 DEF BackendInv, TraitInv, TypeOK, Requests
  <2>2. ASSUME NEW d \in Callers
        PROVE  /\ call'[d].op = "none" <=> call'[d].fn = "none"
               /\ call'[d].fn = "none" => call'[d].at \in Ended
               /\ call'[d].fn # "none" => call'[d].seq > 0
               /\ Active(d)' => /\ Facts(box'[call'[d].key]) \subseteq call'[d].met
                                /\ Grounded(call[d].fn, call[d].at, call[d].id, call[d].met, box[call[d].key])'
    <3>1. CASE d = c
      <4>1. call'[d] = k
        BY <1>1, <1>3, <3>1
      <4> QED BY <1>1, <1>4, <4>1 DEF Grounded
    <3>2. CASE d # c
      <4>1. call'[d] = call[d]
        BY <1>1, <1>3, <3>2
      <4> QED BY <1>1, <4>1 DEF BackendInv, TraitInv, Active, Grounded
    <3> QED BY <3>1, <3>2
  <2> QED BY <1>1, <2>1, <2>2 DEF BackendInv, TraitInv
<1>7. AbsBox' = AbsBox /\ LapsesOf(kind.name)' = LapsesOf(kind.name)
  BY <1>1 DEF AbsBox, LapsesOf, Up
<1>names. NamesInv'
  <2>1. failed' = failed /\ \A l \in Names : Prefixed(l)' = Prefixed(l)
    BY <1>1 DEF Enter, Prefixed
  <2>2. ASSUME NEW d \in Callers
        PROVE  Named(call[d])'
    <3>1. CASE d = c
      <4>1. call'[d] = k
        BY <1>1, <1>3, <3>1
      <4> QED BY <1>1, <1>4, <2>1, <4>1 DEF Named, m, Ended
    <3>2. CASE d # c
      <4>1. call'[d] = call[d] /\ call[d].name \in Names
        BY <1>1, <1>3, <3>2 DEF Requests
      <4> QED BY <1>1, <2>1, <4>1 DEF NamesInv, Named
    <3> QED BY <3>1, <3>2
  <2>3. NoneStray'
    <3>1. \A d \in Callers \ {c} : call'[d] = call[d]
      BY <1>1, <1>3
    <3> QED BY <1>1, <2>1, <3>1 DEF NamesInv, NoneStray, Exists
  <2> QED BY <1>1, <2>2, <2>3 DEF NamesInv
<1>8. Trait!Seen(AbsBox[m]) = Facts(box[m])
  BY <1>1, <1>2, SeenIsFacts DEF AbsBox
<1>9. AbsCall' = [AbsCall EXCEPT ![c] = [fn |-> fn, key |-> m, met |-> Trait!Seen(AbsBox[m]), res |-> "run"]]
  BY <1>1, <1>3, <1>4, <1>8 DEF AbsCall, Ended
<1>10. ~ Trait!Running(c)
  BY RunningIsActive
<1>11. Trait!Call(c, fn, m)
  BY <1>7, <1>9, <1>10 DEF Trait!Call
<1> QED BY <1>2, <1>6, <1>names, <1>11 DEF Keeps, BackendInv, TraitStep, Trait!Next, Trait!Ops

\* A request that is delivered is forgotten by the trait.
LEMMA ForgetStep ==
  ASSUME BackendInv, NEW c \in Callers, ~ Active(c), call' = [call EXCEPT ![c] = NoCall],
         handed' \subseteq Names, UNCHANGED <<kind, box, begun, failed>>,
         handed \subseteq handed', kind.prefix => "x" \notin handed',
         call[c].op # "none" => call[c].key \in handed' \cup failed \/ (kind.prefix /\ call[c].key = "ppx")
  PROVE  Keeps
<1>0. TraitInv /\ NamesInv
  BY DEF BackendInv
<1> USE <1>0
<1>1. call \in [Callers -> Requests] /\ NoCall \in Requests
  <2>1. call \in [Callers -> Requests]
    BY DEF TraitInv, TypeOK, Requests
  <2>2. 0 \in 0..MaxCalls /\ "ok" \in Points /\ "x" \in Names
    BY BoundsAssumption DEF Points, Ended, Names
  <2>3. NoCall \in Requests
    BY <2>2 DEF NoCall, Requests
  <2> QED BY <2>1, <2>3
<1>2. TraitInv'
  <2>1. TypeOK'
    BY <1>1 DEF BackendInv, TraitInv, TypeOK, Requests
  <2>2. ASSUME NEW d \in Callers
        PROVE  /\ call'[d].op = "none" <=> call'[d].fn = "none"
               /\ call'[d].fn = "none" => call'[d].at \in Ended
               /\ call'[d].fn # "none" => call'[d].seq > 0
               /\ Active(d)' => /\ Facts(box'[call'[d].key]) \subseteq call'[d].met
                                /\ Grounded(call[d].fn, call[d].at, call[d].id, call[d].met, box[call[d].key])'
    <3>1. CASE d = c
      <4>1. call'[d] = NoCall
        BY <1>1, <3>1
      <4> QED BY <4>1 DEF NoCall, Active, Ended
    <3>2. CASE d # c
      <4>1. call'[d] = call[d]
        BY <1>1, <3>2
      <4> QED BY <4>1 DEF BackendInv, TraitInv, Active, Grounded
    <3> QED BY <3>1, <3>2
  <2> QED BY <2>1, <2>2 DEF BackendInv, TraitInv
<1>3. AbsBox' = AbsBox /\ LapsesOf(kind.name)' = LapsesOf(kind.name)
  BY DEF AbsBox, LapsesOf, Up
<1>names. NamesInv'
  <2>1. \A l \in Names : Prefixed(l)' = Prefixed(l)
    BY DEF Prefixed
  <2>2. ASSUME NEW d \in Callers
        PROVE  Named(call[d])'
    <3>1. CASE d = c
      <4>1. call'[d] = NoCall
        BY <1>1, <3>1
      <4> QED BY <4>1 DEF Named, NoCall
    <3>2. CASE d # c
      <4>1. call'[d] = call[d] /\ call[d].name \in Names
        BY <1>1, <3>2 DEF Requests
      <4> QED BY <2>1, <4>1 DEF NamesInv, Named
    <3> QED BY <3>1, <3>2
  <2>3. NoneStray'
    <3>1. \A d \in Callers \ {c} : call'[d] = call[d]
      BY <1>1
    <3> QED BY <3>1 DEF NamesInv, NoneStray, Exists
  <2> QED BY <2>2, <2>3 DEF NamesInv
<1>4. AbsCall' = [AbsCall EXCEPT ![c] = Trait!Idle("x")]
  BY <1>1 DEF AbsCall, NoCall, Trait!Idle
<1>5. ~ Trait!Running(c)
  BY RunningIsActive
<1>6. Trait!Forget(c)
  BY <1>3, <1>4, <1>5 DEF Trait!Forget, Names
<1> QED BY <1>2, <1>6, <1>names DEF Keeps, BackendInv, TraitStep, Trait!Next

\* registry.rs strings the trait calls together as the trait allows.
LEMMA RegistryStep ==
  ASSUME BackendInv, NEW c \in Callers, Begin(c) \/ Deliver(c)
  PROVE  Keeps
<1>1. /\ call[c] \in Requests /\ handed \subseteq Names /\ begun \in 0..MaxCalls
      /\ Named(call[c]) /\ (kind.prefix => "x" \notin handed)
      /\ call[c].op = "none" <=> call[c].fn = "none"
  BY DEF BackendInv, TraitInv, NamesInv, TypeOK, Requests
<1>2. CASE Begin(c)
  <2>1. /\ ~ Active(c) /\ begun + 1 \in 1..MaxCalls /\ begun' \in 0..MaxCalls /\ handed' = handed
        /\ call[c].op = "none"
    BY <1>1, <1>2, BoundsAssumption DEF Begin, Active
  <2>2. CASE Enter(c, "spawn", "ensure", "x", begun + 1)
    BY <2>1, <2>2, EnterStep DEF Names
  <2>3. ASSUME NEW n \in handed, Enter(c, "attach", "exists", n, begun + 1)
        PROVE  Keeps
    BY <1>1, <2>1, <2>3, EnterStep
  <2>4. ASSUME NEW n \in handed, Enter(c, "kill", "destroy", n, begun + 1)
        PROVE  Keeps
    BY <1>1, <2>1, <2>4, EnterStep
  <2> QED BY <1>2, <2>2, <2>3, <2>4 DEF Begin
<1>3. CASE Deliver(c)
  <2>1. /\ ~ Active(c) /\ begun' = begun /\ call[c].name \in Names /\ call[c].key \in Names
        /\ call[c].seq \in 1..MaxCalls /\ call[c].op # "none" /\ call[c].fn # "none"
        /\ call[c].at \in Ended
    <3>1. begun' = begun /\ call[c].op # "none" /\ call[c].at \in Ended
      BY <1>3 DEF Deliver
    <3>2. ~ Active(c)
      BY <3>1 DEF Active
    <3>3. call[c] \in Requests
      BY <1>1
    <3>4. call[c].fn # "none" /\ call[c].seq > 0
      BY <3>1 DEF BackendInv, TraitInv
    <3> QED BY <3>1, <3>2, <3>3, <3>4, BoundsAssumption DEF Requests
  <2>2. \/ call[c].key \in handed \cup failed
        \/ kind.prefix /\ call[c].key = "ppx"
        \/ call[c].op = "spawn" /\ call[c].at = "ok" /\ (kind.prefix => call[c].key # "x")
    BY <1>1, <2>1 DEF Named, Prefixed, Requests, Names
  <2>3. CASE /\ call[c].op = "attach" /\ call[c].fn = "exists"
             /\ Enter(c, "attach", "ensure", call[c].name, call[c].seq) /\ UNCHANGED handed
    BY <1>1, <2>1, <2>2, <2>3, EnterStep DEF Named
  <2>4. CASE /\ call[c].op = "attach" /\ call[c].fn = "ensure"
             /\ Enter(c, "attach", "url", call[c].name, call[c].seq) /\ UNCHANGED handed
    BY <1>1, <2>1, <2>2, <2>4, EnterStep DEF Named
  <2>5. CASE /\ call' = [call EXCEPT ![c] = NoCall]
             /\ handed' = IF call[c].op = "spawn" /\ call[c].at = "ok" THEN handed \cup {call[c].key} ELSE handed
             /\ UNCHANGED <<kind, box, failed>>
    <3>1. handed' \subseteq Names /\ handed \subseteq handed'
      BY <1>1, <2>1, <2>5
    <3>2. kind.prefix => "x" \notin handed'
      <4>1. call[c].op = "spawn" /\ kind.prefix => call[c].key = "px"
        BY <1>1, <2>1 DEF Named, Prefixed
      <4> QED BY <1>1, <2>5, <4>1
    <3>3. call[c].key \in handed' \cup failed \/ (kind.prefix /\ call[c].key = "ppx")
      BY <2>2, <2>5
    <3> QED BY <2>1, <2>5, <3>1, <3>2, <3>3, ForgetStep
  <2> QED BY <1>3, <2>3, <2>4, <2>5 DEF Deliver
<1> QED BY <1>2, <1>3

-----------------------------------------------------------------------------
\* exists and the last step of destroy, the same for every backend.
LEMMA CommonStep ==
  ASSUME BackendInv, NEW c \in Callers, Removed(c) \/ ExistsCall(c)
  PROVE  Keeps
<1>1. Active(c)
  BY DEF Removed, ExistsCall, At, Active, Ended
<1>2. /\ Facts(box[call[c].key]) \subseteq call[c].met /\ box[call[c].key] \in Boxes
      /\ Grounded(call[c].fn, call[c].at, call[c].id, call[c].met, box[call[c].key])
  BY <1>1, InProgress
<1>3. CASE Removed(c)
  <2>1. Justified(c, "ok") /\ "ok" \in Ended /\ Goto(c, "ok")
    BY <1>2, <1>3 DEF Removed, At, Justified, Grounded, Ended
  <2> QED BY <1>1, <2>1, AnswerStep
<1>4. CASE ExistsCall(c)
  <2>1. call[c].fn = "exists"
    BY <1>4 DEF ExistsCall, At
  <2>2. CASE Goto(c, IF Exists(call[c].key) THEN "ok" ELSE "no")
    <3> DEFINE p == IF Exists(call[c].key) THEN "ok" ELSE "no"
    <3>1. Justified(c, p) /\ p \in Ended
      BY <1>2, <2>1 DEF Justified, Ended, Exists, Facts, Boxes
    <3> QED BY <1>1, <2>2, <3>1, AnswerStep
  <2>3. CASE Fails(c)
    BY <1>1, <2>3, ErrStep DEF Fails
  <2>4. CASE kind.name = "podman" /\ Ignored(c, "no")
    <3>1. Justified(c, "no") /\ "no" \in Ended /\ Goto(c, "no")
      BY <2>1, <2>4 DEF Justified, Ended, Ignored
    <3> QED BY <1>1, <3>1, AnswerStep
  <2> QED BY <1>4, <2>2, <2>3, <2>4 DEF ExistsCall
<1> QED BY <1>3, <1>4

\* A container that comes up or goes down by itself stays the same container.
LEMMA RuntimeStep ==
  ASSUME BackendInv, NEW n \in Names, Boot(n) \/ Crash(n)
  PROVE  Keeps
<1>1. box[n] \in Boxes /\ box[n].st \in {"made", "up"} /\ box[n].id > 0
  <2>1. box[n].st \in {"made", "up"}
    BY DEF Boot, Crash, Up
  <2>2. box[n] \in Boxes /\ (box[n].id = 0 <=> box[n].st = "none")
    BY DEF BackendInv, TraitInv, TypeOK, Boxes
  <2> QED BY <2>1, <2>2 DEF Boxes
<1>2. PICK t \in {"up", "down", "dead"} : Becomes(n, [box[n] EXCEPT !.st = t], "none", "")
  <2>1. CASE Boot(n)
    BY <2>1 DEF Boot
  <2>2. CASE Crash(n)
    BY <2>2 DEF Crash
  <2> QED BY <2>1, <2>2
<1> DEFINE b == [box[n] EXCEPT !.st = t]
<1>3. b \in Boxes /\ b.id = box[n].id /\ b.st = t
  BY <1>1 DEF Boxes
<1>4. BecomesWith(n, b, "none", "", call["none"].id)
  BY <1>2 DEF Becomes
<1> HIDE DEF b
<1>5. Permitted(n, b, "none") /\ (b.id = 0 <=> b.st = "none")
  BY <1>1, <1>3 DEF Permitted, Boxes
<1> QED BY <1>3, <1>4, <1>5, CallersAssumption, BecomesStep
=============================================================================
