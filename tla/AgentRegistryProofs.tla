------------------------- MODULE AgentRegistryProofs -------------------------
(***************************************************************************)
(* Proof that no container is lost track of, and that two holders of one   *)
(* are known to share it, for every set of sessions and names, every size  *)
(* of the warm pool and any number of crashes.                             *)
(***************************************************************************)
EXTENDS AgentRegistry, TLAPS

\* The ways to hold a container.
Holds(n) ==
    \/ \E e \in agents : e.ctr = n
    \/ n \in available \cup filling
    \/ \E s \in Sessions : op[s].ctr = n

(***************************************************************************)
(* Held, said of one container.                                            *)
(***************************************************************************)
LEMMA HeldMeans == ASSUME NEW n \in Names PROVE n \in Held <=> Holds(n)
  BY SizesAssumption DEF Held, Holds, Names, PoolNames

(***************************************************************************)
(* What a step owes: a container that is there after it, and was there and *)
(* had an owner or was left before it, or is new, has one of the two again.*)
(***************************************************************************)
LEMMA Accounted ==
    ASSUME NoOtherLeak,
           \A n \in Names : ctr'[n] # "absent" =>
               \/ Holds(n)' \/ n \in left'
               \/ ctr[n] # "absent" /\ ~Holds(n) /\ n \notin left
    PROVE  NoOtherLeak'
<1>1. ASSUME NEW n \in Names, ctr'[n] # "absent" PROVE n \in Held' \cup left'
  <2>1. Holds(n)' \/ n \in left'
    BY <1>1, HeldMeans DEF NoOtherLeak
  <2>2. Holds(n)' => n \in Held'
    BY SizesAssumption DEF Held, Holds, Names, PoolNames
  <2>3. QED
    BY <2>1, <2>2
<1>2. QED
  BY <1>1 DEF NoOtherLeak

(***************************************************************************)
(* The pool's task: create_one() and what it leaves behind when it fails.  *)
(***************************************************************************)
LEMMA FillStep ==
    ASSUME LeakInv, FillBegin \/ \E n \in filling : FillEnd(n) \/ FillFails(n)
    PROVE  LeakInv'
<1>0. ctr \in [Names -> {"absent", "clean", "used"}]
  BY DEF LeakInv
<1>1. UNCHANGED <<op, agents>>
  BY DEF FillBegin, FillEnd, FillFails, table
<1>2. CASE FillBegin
  <2>1. UNCHANGED <<ctr, left, available>> /\ filling = {} /\ filling' = {counter}
    BY <1>2 DEF FillBegin, host
  <2>2. \A n \in Names : Holds(n) => Holds(n)'
    BY <1>1, <2>1 DEF Holds
  <2>3. NoOtherLeak'
    BY <2>1, <2>2, Accounted DEF LeakInv
  <2>4. QED
    BY <1>1, <2>1, <2>3 DEF LeakInv
<1>3. ASSUME NEW m \in filling, FillEnd(m) PROVE LeakInv'
  <2>1. /\ ctr' = [ctr EXCEPT ![m] = IF @ = "absent" THEN "clean" ELSE @] /\ left' = left \ {m}
        /\ available' = available \cup {m} /\ filling' = {}
    BY <1>3 DEF FillEnd, Ensure
  <2>2. /\ ctr' \in [Names -> {"absent", "clean", "used"}]
        /\ \A n \in Names : n # m => ctr'[n] = ctr[n]
    BY <1>0, <2>1
  <2>3. \A n \in Names : Holds(n) => Holds(n)'
    BY <1>1, <2>1 DEF Holds, LeakInv
  <2>4. \A n \in Names : n = m => Holds(n)'
    BY <2>1 DEF Holds
  <2>5. NoOtherLeak'
    BY <2>1, <2>2, <2>3, <2>4, Accounted DEF LeakInv
  <2>6. QED
    BY <1>1, <2>1, <2>2, <2>5 DEF LeakInv
<1>4. ASSUME NEW m \in filling, FillFails(m) PROVE LeakInv'
  <2>1. EnsureError(m) /\ filling' = {} /\ UNCHANGED available
    BY <1>4 DEF FillFails
  <2>2. /\ ctr' \in [Names -> {"absent", "clean", "used"}] /\ left \subseteq left'
        /\ \A n \in Names : n # m => ctr'[n] = ctr[n]
        /\ \A n \in Names : n = m => ctr'[n] = "absent" \/ n \in left'
    BY <1>0, <2>1 DEF EnsureError
  <2>3. \A n \in Names : n # m /\ Holds(n) => Holds(n)'
    BY <1>1, <2>1 DEF Holds, LeakInv
  <2>4. NoOtherLeak'
    BY <2>2, <2>3, Accounted DEF LeakInv
  <2>5. QED
    BY <1>1, <2>1, <2>2, <2>4 DEF LeakInv
<1>5. QED
  BY <1>2, <1>3, <1>4

(***************************************************************************)
(* A session's request begins: what it takes from the pool or out of the   *)
(* map it holds itself.                                                    *)
(***************************************************************************)
LEMMA RequestStep ==
    ASSUME LeakInv, NEW s \in Sessions, Request(s)
    PROVE  LeakInv'
<1>0. op \in [Sessions -> Op] /\ UNCHANGED <<ctr, filling>>
  BY DEF LeakInv, Request, SpawnWarm, SpawnCold, AttachExists, Detach, KillRemove, host, pool
<1>1. ASSUME NEW n \in Names \cup {None}, NEW at \in {"ensuring", "dialing", "killing"}, Begin(s, at, n)
      PROVE  /\ op' \in [Sessions -> Op] /\ op'[s].ctr = n
             /\ \A m \in Names : (\E t \in Sessions : op[t].ctr = m)
                                    => \E t \in Sessions : op'[t].ctr = m
  <2>1. op[s].ctr = None /\ op' = [op EXCEPT ![s] = [at |-> at, ctr |-> n]]
    BY <1>1 DEF Begin, Become, Free
  <2>2. [at |-> at, ctr |-> n] \in Op
    BY DEF Op
  <2>3. QED
    BY <1>0, <2>1, <2>2, SizesAssumption DEF Names, PoolNames
<1>2. ASSUME NEW n \in PoolNames, SpawnWarm(s, n) PROVE LeakInv'
  <2>1. n \in Names
    BY DEF Names
  <2>2. /\ Begin(s, "dialing", n) /\ available' = available \ {n} /\ UNCHANGED <<agents, left>>
    BY <1>2 DEF SpawnWarm, table, host
  <2>3. op' \in [Sessions -> Op] /\ op'[s].ctr = n
        /\ \A m \in Names : (\E t \in Sessions : op[t].ctr = m) => \E t \in Sessions : op'[t].ctr = m
    BY <1>1, <2>1, <2>2
  <2>4. \A m \in Names : Holds(m) => Holds(m)'
    BY <1>0, <2>2, <2>3 DEF Holds
  <2>5. QED
    BY <1>0, <2>2, <2>3, <2>4, Accounted DEF LeakInv
<1>3. ASSUME NEW n \in Names, SpawnCold(s, n) \/ AttachExists(s, n) PROVE LeakInv'
  <2>1. Begin(s, "ensuring", n) /\ UNCHANGED <<available, agents, left>>
    BY <1>3 DEF SpawnCold, AttachExists, table, host, pool
  <2>2. op' \in [Sessions -> Op]
        /\ \A m \in Names : (\E t \in Sessions : op[t].ctr = m) => \E t \in Sessions : op'[t].ctr = m
    BY <1>1, <2>1
  <2>3. \A m \in Names : Holds(m) => Holds(m)'
    BY <1>0, <2>1, <2>2 DEF Holds
  <2>4. QED
    BY <1>0, <2>1, <2>2, <2>3, Accounted DEF LeakInv
<1>4. ASSUME NEW e \in agents, Detach(s, e) PROVE LeakInv'
  <2>1. agents' = agents \ {e} /\ left' = left \cup {e.ctr} /\ UNCHANGED <<op, available>>
    BY <1>4 DEF Detach, pool
  <2>2. \A m \in Names : Holds(m) => Holds(m)' \/ m \in left'
    BY <1>0, <2>1 DEF Holds
  <2>3. QED
    BY <1>0, <2>1, <2>2, Accounted DEF LeakInv
<1>5. ASSUME NEW e \in agents, KillRemove(s, e) PROVE LeakInv'
  <2>1. /\ Begin(s, "killing", e.ctr) /\ agents' = agents \ {e} /\ UNCHANGED <<available, left>>
    BY <1>5 DEF KillRemove, host, pool
  <2>2. e.ctr \in Names \cup {None}
    BY DEF LeakInv
  <2>3. op' \in [Sessions -> Op] /\ op'[s].ctr = e.ctr
        /\ \A m \in Names : (\E t \in Sessions : op[t].ctr = m) => \E t \in Sessions : op'[t].ctr = m
    BY <1>1, <2>1, <2>2
  <2>4. \A m \in Names : Holds(m) => Holds(m)'
    BY <1>0, <2>1, <2>3 DEF Holds
  <2>5. QED
    BY <1>0, <2>1, <2>3, <2>4, Accounted DEF LeakInv
<1>6. QED
  BY <1>2, <1>3, <1>4, <1>5 DEF Request, Names

(***************************************************************************)
(* A request goes on: it lets go of its container only when somebody else  *)
(* has it, when it is gone, or when it is counted as left.                 *)
(***************************************************************************)
LEMMA ProgressStep ==
    ASSUME LeakInv, NEW s \in Sessions, Progress(s)
    PROVE  LeakInv'
<1> DEFINE n == op[s].ctr
<1>0. /\ op \in [Sessions -> Op] /\ ctr \in [Names -> {"absent", "clean", "used"}]
      /\ op[s] \in Op /\ UNCHANGED <<available, filling>>
  BY DEF LeakInv, Progress, Ensured, EnsureFails, Dialed, DialFails, KillDestroy, pool
<1>1. ASSUME NEW o \in Op, op' = [op EXCEPT ![s] = o]
      PROVE  op' \in [Sessions -> Op] /\ \A t \in Sessions : op'[t] = IF t = s THEN o ELSE op[t]
  BY <1>0, <1>1
<1>2. Free \in Op
  BY DEF Free, Op
<1>3. CASE Ensured(s)
  <2> DEFINE o == [op[s] EXCEPT !.at = "dialing"]
  <2>1. /\ ctr' = [ctr EXCEPT ![n] = IF @ = "absent" THEN "clean" ELSE @] /\ left' = left \ {n}
        /\ op' = [op EXCEPT ![s] = o] /\ UNCHANGED agents
    BY <1>3 DEF Ensured, Ensure, Become, table
  <2>2. o \in Op /\ o.ctr = n
    BY <1>0 DEF Op
  <2> HIDE DEF o
  <2>3. op' \in [Sessions -> Op] /\ \A t \in Sessions : op'[t].ctr = op[t].ctr
    BY <1>1, <2>1, <2>2
  <2>4. /\ ctr' \in [Names -> {"absent", "clean", "used"}]
        /\ \A m \in Names : m # n => ctr'[m] = ctr[m]
    BY <1>0, <2>1
  <2>5. \A m \in Names : (Holds(m) => Holds(m)') /\ (m = n => Holds(m)')
    BY <1>0, <2>1, <2>3 DEF Holds
  <2>6. NoOtherLeak'
    BY <2>1, <2>4, <2>5, Accounted DEF LeakInv
  <2>7. QED
    BY <1>0, <2>1, <2>3, <2>4, <2>6 DEF LeakInv
<1>4. ASSUME op' = [op EXCEPT ![s] = Free], agents \subseteq agents',
             \A e \in agents' : e \in agents \/ e.ctr = n,
             ctr' \in [Names -> {"absent", "clean", "used"}],
             \A m \in Names : m # n => (ctr'[m] # "absent" => ctr[m] # "absent")
                                       /\ (m \in left => m \in left'),
             \A m \in Names : m = n => \/ ctr'[m] = "absent" \/ m \in left'
                                       \/ \E e \in agents' : e.ctr = m
      PROVE  LeakInv'
  <2>1. op' \in [Sessions -> Op] /\ \A t \in Sessions : t # s => op'[t] = op[t]
    BY <1>1, <1>2, <1>4
  <2>2. \A m \in Names : m # n /\ Holds(m) => Holds(m)'
    BY <1>0, <1>4, <2>1 DEF Holds
  <2>3. \A m \in Names : m = n => ctr'[m] = "absent" \/ m \in left' \/ Holds(m)'
    BY <1>4 DEF Holds
  <2>4. NoOtherLeak'
    BY <1>4, <2>2, <2>3, Accounted DEF LeakInv
  <2>5. \A e \in agents' : e.ctr \in Names \cup {None}
    BY <1>0, <1>4 DEF LeakInv, Op
  <2>6. QED
    BY <1>0, <1>4, <2>1, <2>4, <2>5 DEF LeakInv
<1>5. CASE EnsureFails(s)
  <2>1. EnsureError(n) /\ op' = [op EXCEPT ![s] = Free] /\ UNCHANGED agents
    BY <1>5 DEF EnsureFails, Done, Become, table
  <2>2. /\ ctr' \in [Names -> {"absent", "clean", "used"}] /\ left \subseteq left'
        /\ \A m \in Names : m # n => ctr'[m] = ctr[m]
        /\ \A m \in Names : m = n => ctr'[m] = "absent" \/ m \in left'
    BY <1>0, <2>1 DEF EnsureError
  <2>3. QED
    BY <1>4, <2>1, <2>2
<1>6. CASE Dialed(s)
  <2>1. /\ ctr' = [ctr EXCEPT ![n] = "used"] /\ left' = left \ {n}
        /\ agents' = agents \cup {[id |-> nextAgent, ctr |-> n]} /\ op' = [op EXCEPT ![s] = Free]
    BY <1>6 DEF Dialed, Done, Become
  <2>2. /\ ctr' \in [Names -> {"absent", "clean", "used"}]
        /\ \A m \in Names : m # n => ctr'[m] = ctr[m]
    BY <1>0, <2>1
  <2> DEFINE a == [id |-> nextAgent, ctr |-> n]
  <2>3. (\E e \in agents' : e.ctr = n) /\ \A e \in agents' : e \in agents \/ e.ctr = n
    <3>1. a.ctr = n /\ agents' = agents \cup {a}
      BY <2>1
    <3> HIDE DEF a
    <3>2. QED
      BY <3>1
  <2>4. QED
    BY <1>4, <2>1, <2>2, <2>3
<1>7. CASE DialFails(s)
  <2>1. left' = left \cup {n} /\ op' = [op EXCEPT ![s] = Free] /\ UNCHANGED <<ctr, agents>>
    BY <1>7 DEF DialFails, Done, Become, table
  <2>2. QED
    BY <1>0, <1>4, <2>1
<1>8. CASE KillDestroy(s)
  <2>1. Destroy({n}) /\ op' = [op EXCEPT ![s] = Free] /\ UNCHANGED agents
    BY <1>8 DEF KillDestroy, Done, Become, table
  <2>2. PICK kept \in SUBSET {m \in {n} : ctr[m] # "absent"} :
          /\ ctr' = [m \in Names |-> IF m \in {n} \ kept THEN "absent" ELSE ctr[m]]
          /\ left' = (left \ {n}) \cup kept
    BY <2>1 DEF Destroy
  <2>3. /\ ctr' \in [Names -> {"absent", "clean", "used"}]
        /\ \A m \in Names : m # n => ctr'[m] = ctr[m]
        /\ \A m \in Names : m = n => ctr'[m] = "absent" \/ m \in left'
    BY <1>0, <2>2
  <2>4. QED
    BY <1>4, <2>1, <2>2, <2>3
<1>9. QED
  BY <1>3, <1>5, <1>6, <1>7, <1>8 DEF Progress

(***************************************************************************)
(* The end of the process counts as left whatever it held; the drain of    *)
(* the pool counts what it could not remove.                               *)
(***************************************************************************)
LEMMA ProcessStep ==
    ASSUME LeakInv, Start \/ StopDetach \/ StopDrain \/ StopExit \/ Crash
    PROVE  LeakInv'
<1>0. ctr \in [Names -> {"absent", "clean", "used"}] /\ Free \in Op
  BY DEF LeakInv, Free, Op
<1>1. CASE Start
  <2>1. UNCHANGED <<ctr, left, agents, available, filling, op>>
    BY <1>1 DEF Start, host, table, pool
  <2>2. \A n \in Names : Holds(n) => Holds(n)'
    BY <2>1 DEF Holds
  <2>3. NoOtherLeak'
    BY <2>1, <2>2, Accounted DEF LeakInv
  <2>4. QED
    BY <2>1, <2>3 DEF LeakInv
<1>2. CASE StopDetach
  <2>1. UNCHANGED <<ctr, available, filling, op>> /\ agents' = {}
        /\ left' = left \cup {e.ctr : e \in agents}
    BY <1>2 DEF StopDetach, pool
  <2>2. \A n \in Names : Holds(n) => Holds(n)' \/ n \in left'
    BY <2>1 DEF Holds
  <2>3. NoOtherLeak'
    BY <2>1, <2>2, Accounted DEF LeakInv
  <2>4. QED
    BY <2>1, <2>3 DEF LeakInv
<1>3. CASE StopDrain
  <2>1. UNCHANGED <<agents, filling, op>> /\ available' = {} /\ Destroy(available)
    BY <1>3 DEF StopDrain, table
  <2>2. PICK kept \in SUBSET {m \in available : ctr[m] # "absent"} :
          /\ ctr' = [m \in Names |-> IF m \in available \ kept THEN "absent" ELSE ctr[m]]
          /\ left' = (left \ available) \cup kept
    BY <2>1 DEF Destroy
  <2>3. /\ ctr' \in [Names -> {"absent", "clean", "used"}]
        /\ \A n \in Names : n \in available => ctr'[n] = "absent" \/ n \in left'
        /\ \A n \in Names : n \notin available => ctr'[n] = ctr[n] /\ (n \in left => n \in left')
    BY <1>0, <2>2
  <2>4. \A n \in Names : n \notin available /\ Holds(n) => Holds(n)'
    BY <2>1 DEF Holds
  <2>5. NoOtherLeak'
    BY <2>3, <2>4, Accounted DEF LeakInv
  <2>6. QED
    BY <2>1, <2>3, <2>5 DEF LeakInv
<1>4. CASE StopExit \/ Crash
  <2>1. /\ UNCHANGED ctr /\ agents' = {} /\ available' = {} /\ filling' = {}
        /\ op' = [s \in Sessions |-> Free] /\ left' = left \cup Held
    BY <1>4 DEF StopExit, Crash, Exit
  <2>2. \A n \in Names : Holds(n) => n \in left'
    BY <2>1, HeldMeans
  <2>3. left \subseteq left'
    BY <2>1
  <2> HIDE DEF Held
  <2>4. NoOtherLeak'
    BY <2>1, <2>2, <2>3, Accounted DEF LeakInv
  <2>5. ctr' \in [Names -> {"absent", "clean", "used"}] /\ op' \in [Sessions -> Op]
    BY <1>0, <2>1
  <2>6. QED
    BY <2>1, <2>4, <2>5 DEF LeakInv
<1>5. QED
  BY <1>1, <1>2, <1>3, <1>4

(***************************************************************************)
(* Whatever requests, failures, kills, shutdowns and crashes interleave,   *)
(* every container on the host has an owner in the gateway or was left by  *)
(* one of the paths of registry.rs and pool.rs that leave containers.      *)
(***************************************************************************)
THEOREM NoContainerLost == Spec => []NoOtherLeak
<1>1. Init => LeakInv
  <2>1. Init => op \in [Sessions -> Op]
    BY DEF Init, Op, Free
  <2>2. QED
    BY <2>1 DEF Init, LeakInv, NoOtherLeak
<1>2. LeakInv /\ UNCHANGED vars => LeakInv'
  BY DEF LeakInv, NoOtherLeak, Held, vars, host, table, pool
<1>3. LeakInv /\ Next => LeakInv'
  BY FillStep, RequestStep, ProgressStep, ProcessStep DEF Next
<1>4. LeakInv => NoOtherLeak
  BY DEF LeakInv
<1>5. QED
  BY <1>1, <1>2, <1>3, <1>4, PTL DEF Spec

-----------------------------------------------------------------------------
(***************************************************************************)
(* The pool's task makes a container of a name nobody holds, or marks it.  *)
(***************************************************************************)
LEMMA FillShares ==
    ASSUME ShareInv, FillBegin \/ \E n \in filling : FillEnd(n) \/ FillFails(n)
    PROVE  ShareInv'
<1>0. ShareTypes /\ OneHolder /\ PoolOwn /\ AgentsHaveContainers
  BY DEF ShareInv
<1>1. UNCHANGED <<op, agents, boots, named>>
  BY DEF FillBegin, FillEnd, FillFails, table, host
<1>2. CASE FillBegin
  <2>1. /\ UNCHANGED <<ctr, shared, available>> /\ filling = {} /\ filling' = {counter}
        /\ counter \in PoolNames /\ counter' = counter + 1
    BY <1>0, <1>2, SizesAssumption DEF FillBegin, host, ShareTypes, PoolNames
  <2>2. ShareTypes'
    BY <1>0, <1>1, <2>1, SizesAssumption DEF ShareTypes, PoolNames
  <2>3. OneHolder' /\ AgentsHaveContainers'
    BY <1>0, <1>1, <2>1 DEF OneHolder, Firm, AgentsHaveContainers
  <2>4. \A n \in PoolNames : Unmade(n)' => Unmade(n)
    BY <1>0, <2>1, SizesAssumption DEF Unmade, ShareTypes, PoolNames
  <2>5. PoolOwn'
    BY <1>0, <1>1, <2>1, <2>4 DEF PoolOwn, InMap, Working
  <2>6. QED
    BY <2>2, <2>3, <2>5 DEF ShareInv
<1>3. ASSUME NEW m \in filling, FillEnd(m) PROVE ShareInv'
  <2>1. /\ ctr' = [ctr EXCEPT ![m] = IF @ = "absent" THEN "clean" ELSE @]
        /\ available' = available \cup {m} /\ filling' = {} /\ counter' = counter
        /\ shared' = IF InMap(m) \/ \E s \in Sessions : Working(s, m) THEN shared \cup {m} ELSE shared
    BY <1>3 DEF FillEnd, Ensure
  <2>2. m \in PoolNames /\ m \in Names /\ m \notin available /\ Unmade(m)
    BY <1>0, <1>3 DEF ShareTypes, Names, Unmade
  <2>3. \A n \in Names : ctr'[n] = IF n = m /\ ctr[n] = "absent" THEN "clean" ELSE ctr[n]
    BY <1>0, <2>1 DEF ShareTypes
  <2>4. ShareTypes'
    BY <1>0, <1>1, <2>1, <2>2 DEF ShareTypes
  <2>5. OneHolder'
    BY <1>0, <1>1, <2>1 DEF OneHolder, Firm, InMap, Working
  <2>6. AgentsHaveContainers'
    BY <1>0, <1>1, <2>1, <2>3 DEF AgentsHaveContainers, ShareTypes
  <2>7. PoolOwn'
    <3>1. \A n \in PoolNames : n \in Names /\ (Unmade(n)' => Unmade(n) /\ n # m)
      BY <1>0, <2>1, <2>2, SizesAssumption DEF Unmade, ShareTypes, PoolNames, Names
    <3>2. m \notin named => ctr'[m] = "clean"
      BY <1>0, <2>2, <2>3 DEF PoolOwn
    <3>3. \A n \in PoolNames : (n # m => ctr'[n] = ctr[n]) /\ (n \in available' => n = m \/ n \in available)
      BY <2>1, <2>3, <3>1
    <3>4. QED
      BY <1>0, <1>1, <2>2, <3>1, <3>2, <3>3 DEF PoolOwn, InMap, Working
  <2>8. QED
    BY <2>4, <2>5, <2>6, <2>7 DEF ShareInv
<1>4. ASSUME NEW m \in filling, FillFails(m) PROVE ShareInv'
  <2>1. /\ ctr' = ctr \/ ctr' = [ctr EXCEPT ![m] = IF @ = "absent" THEN "clean" ELSE @]
        /\ UNCHANGED <<available, counter, shared>> /\ filling' = {}
    BY <1>4 DEF FillFails, EnsureError
  <2>2. m \in PoolNames /\ m \in Names /\ m \notin available /\ m < counter
    BY <1>0, <1>4 DEF ShareTypes, Names
  <2>3. \A n \in Names : (n # m => ctr'[n] = ctr[n]) /\ (ctr[n] # "absent" => ctr'[n] = ctr[n])
    BY <1>0, <2>1 DEF ShareTypes
  <2>4. ShareTypes'
    BY <1>0, <1>1, <2>1, <2>2 DEF ShareTypes
  <2>5. OneHolder'
    BY <1>0, <1>1, <2>1 DEF OneHolder, Firm
  <2>6. AgentsHaveContainers'
    BY <1>0, <1>1, <2>1, <2>3 DEF AgentsHaveContainers, ShareTypes
  <2>7. PoolOwn'
    <3>1. \A n \in PoolNames : n \in Names /\ (Unmade(n)' => Unmade(n) /\ n # m)
      BY <1>0, <2>1, <2>2, SizesAssumption DEF Unmade, ShareTypes, PoolNames, Names
    <3>2. \A n \in PoolNames : n # m => ctr'[n] = ctr[n]
      BY <2>3, <3>1
    <3>3. QED
      BY <1>0, <1>1, <2>1, <2>2, <3>1, <3>2 DEF PoolOwn, InMap, Working
  <2>8. QED
    BY <2>4, <2>5, <2>6, <2>7 DEF ShareInv
<1>5. QED
  BY <1>2, <1>3, <1>4

(***************************************************************************)
(* A request that begins takes its container over from the pool or from    *)
(* the map, or has yet to ensure() it.                                     *)
(***************************************************************************)
LEMMA RequestShares ==
    ASSUME ShareInv, NEW s \in Sessions, Request(s)
    PROVE  ShareInv'
<1>0. ShareTypes /\ OneHolder /\ PoolOwn /\ AgentsHaveContainers
  BY DEF ShareInv
<1>1. UNCHANGED <<ctr, filling, shared, boots, counter>>
  BY DEF Request, SpawnWarm, SpawnCold, AttachExists, Detach, KillRemove, Begin, host, pool
<1>2. \A n : Unmade(n)' <=> Unmade(n)
  BY <1>1 DEF Unmade
<1>4. ASSUME NEW n \in Names, NEW at \in {"ensuring", "dialing", "killing"}, Begin(s, at, n),
             available' \subseteq available, agents' \subseteq agents,
             named \subseteq named', n \in named' \/ (~Unmade(n) /\ n \notin available'),
             at = "ensuring" => n \in named',
             at # "ensuring" =>
                 \/ n \in available /\ n \notin available'
                 \/ \E e \in agents : e.ctr = n /\ agents' = agents \ {e}
      PROVE  ShareInv'
  <2>1. /\ op[s] = Free /\ op[s].at = "free" /\ op' \in [Sessions -> Op]
        /\ op'[s].at = at /\ op'[s].ctr = n /\ \A t \in Sessions \ {s} : op'[t] = op[t]
    BY <1>0, <1>4 DEF Begin, Become, ShareTypes, Op, Free
  <2>2. ShareTypes'
    BY <1>0, <1>1, <1>4, <2>1 DEF ShareTypes
  <2>3. OneHolder'
    <3>1. \A t \in Sessions \ {s} : Firm(t)' <=> Firm(t)
      BY <2>1 DEF Firm
    <3>2. Firm(s)' => at # "ensuring"
      BY <2>1 DEF Firm
    <3>3. ASSUME Firm(s)', n \notin shared
          PROVE  /\ \A e \in agents' : e.ctr # n
                 /\ \A t \in Sessions \ {s} : Firm(t) => op[t].ctr # n
                 /\ n \notin available'
      <4>1. CASE n \in available /\ n \notin available'
        BY <1>0, <1>4, <3>3, <4>1 DEF OneHolder
      <4>2. ASSUME NEW e \in agents, e.ctr = n, agents' = agents \ {e}
            PROVE  /\ \A f \in agents' : f.ctr # n
                   /\ \A t \in Sessions \ {s} : Firm(t) => op[t].ctr # n
                   /\ n \notin available'
        BY <1>0, <1>4, <3>3, <4>2 DEF OneHolder
      <4>3. QED
        BY <1>4, <3>2, <3>3, <4>1, <4>2
    <3>4. \A e, f \in agents' : e # f /\ e.ctr = f.ctr => e.ctr \in shared'
      BY <1>0, <1>1, <1>4 DEF OneHolder
    <3>5. \A t, u \in Sessions : t # u /\ Firm(t)' /\ Firm(u)' /\ op'[t].ctr = op'[u].ctr => op'[t].ctr \in shared'
      BY <1>0, <1>1, <2>1, <3>1, <3>3 DEF OneHolder
    <3>6. \A e \in agents', t \in Sessions : Firm(t)' /\ op'[t].ctr = e.ctr => e.ctr \in shared'
      BY <1>0, <1>1, <1>4, <2>1, <3>1, <3>3 DEF OneHolder
    <3>7. \A e \in agents' : e.ctr \in available' => e.ctr \in shared'
      BY <1>0, <1>1, <1>4 DEF OneHolder
    <3>8. \A t \in Sessions : Firm(t)' /\ op'[t].ctr \in available' => op'[t].ctr \in shared'
      BY <1>0, <1>1, <1>4, <2>1, <3>1, <3>3 DEF OneHolder
    <3>9. QED
      BY <3>4, <3>5, <3>6, <3>7, <3>8 DEF OneHolder
  <2>4. AgentsHaveContainers'
    BY <1>0, <1>1, <1>4 DEF AgentsHaveContainers
  <2>5. PoolOwn'
    <3>1. \A t \in Sessions : op'[t].at = "ensuring" => op'[t].ctr \in named'
      BY <1>0, <1>4, <2>1 DEF PoolOwn
    <3>2. \A m : InMap(m)' => InMap(m)
      BY <1>4 DEF InMap
    <3>3. ASSUME NEW m \in PoolNames \ named', Unmade(m) \/ m \in available', NEW t \in Sessions
          PROVE  ~Working(t, m)'
      <4>1. m # n /\ ~Working(t, m)
        BY <1>0, <1>4, <3>3 DEF PoolOwn
      <4>2. QED
        BY <2>1, <4>1 DEF Working
    <3>4. QED
      BY <1>0, <1>1, <1>2, <1>4, <3>1, <3>2, <3>3 DEF PoolOwn
  <2>6. QED
    BY <2>2, <2>3, <2>4, <2>5 DEF ShareInv
<1>5. ASSUME NEW n \in PoolNames, SpawnWarm(s, n) PROVE ShareInv'
  <2>1. n \in Names /\ n \in available /\ available' = available \ {n} /\ agents' = agents /\ named' = named
    BY <1>5 DEF SpawnWarm, table, host, Names
  <2>2. ~Unmade(n)
    BY <1>0, <2>1, SizesAssumption DEF Unmade, ShareTypes, PoolNames
  <2>3. Begin(s, "dialing", n)
    BY <1>5 DEF SpawnWarm
  <2>4. QED
    BY <1>4, <2>1, <2>2, <2>3
<1>6. ASSUME NEW n \in Keys, SpawnCold(s, n) PROVE ShareInv'
  <2>1. n \in Names /\ named' = named \cup {n} /\ UNCHANGED <<available, agents>> /\ Begin(s, "ensuring", n)
    BY <1>6 DEF SpawnCold, table, pool, Names
  <2>2. QED
    BY <1>4, <2>1
<1>7. ASSUME NEW n \in Names, AttachExists(s, n) PROVE ShareInv'
  <2>1. named' = named \cup {n} /\ UNCHANGED <<available, agents>> /\ Begin(s, "ensuring", n)
    BY <1>7 DEF AttachExists, table, pool
  <2>2. QED
    BY <1>4, <2>1
<1>8. ASSUME NEW e \in agents, KillRemove(s, e) PROVE ShareInv'
  <2>1. /\ e.ctr \in Names /\ InMap(e.ctr) /\ Begin(s, "killing", e.ctr)
        /\ agents' = agents \ {e} /\ available' = available /\ named' = named
    BY <1>0, <1>8 DEF KillRemove, ShareTypes, InMap, pool, host
  <2>2. e.ctr \in named \/ (~Unmade(e.ctr) /\ e.ctr \notin available)
    BY <1>0, <2>1 DEF PoolOwn, ShareTypes, Unmade
  <2>3. QED
    BY <1>4, <2>1, <2>2
<1>9. ASSUME NEW e \in agents, Detach(s, e) PROVE ShareInv'
  <2>1. agents' = agents \ {e} /\ UNCHANGED <<available, op, named>>
    BY <1>9 DEF Detach, pool
  <2>2. ShareTypes'
    BY <1>0, <1>1, <2>1 DEF ShareTypes
  <2>3. OneHolder' /\ AgentsHaveContainers'
    BY <1>0, <1>1, <2>1 DEF OneHolder, Firm, AgentsHaveContainers
  <2>4. PoolOwn'
    BY <1>0, <1>1, <1>2, <2>1 DEF PoolOwn, InMap, Working
  <2>5. QED
    BY <2>2, <2>3, <2>4 DEF ShareInv
<1>10. QED
  BY <1>5, <1>6, <1>7, <1>8, <1>9 DEF Request

(***************************************************************************)
(* A request goes on: ensure() by name makes a second holder a shared one, *)
(* a dialled agent takes over from its request, and a kill removes a       *)
(* container that nobody else holds or that is shared.                     *)
(***************************************************************************)
LEMMA ProgressShares ==
    ASSUME ShareInv, NEW s \in Sessions, Progress(s)
    PROVE  ShareInv'
<1> DEFINE n == op[s].ctr
<1>0. ShareTypes /\ OneHolder /\ PoolOwn /\ AgentsHaveContainers
  BY DEF ShareInv
<1>1. UNCHANGED <<available, filling, boots, counter, named>> /\ op[s].at # "free"
  BY DEF Progress, Ensured, EnsureFails, Dialed, DialFails, KillDestroy, pool
<1>2. n \in Names /\ op[s] \in Op /\ Working(s, n)
  BY <1>0, <1>1 DEF ShareTypes, Working
<1>3. /\ \A m : Unmade(m)' <=> Unmade(m)
      /\ n \in PoolNames \ named => ~Unmade(n) /\ n \notin available
  BY <1>0, <1>1, <1>2 DEF Unmade, PoolOwn
<1>4. ASSUME op' \in [Sessions -> Op], op'[s] = Free \/ (op'[s].at = "dialing" /\ op'[s].ctr = n),
             \A t \in Sessions \ {s} : op'[t] = op[t],
             ctr' \in [Names -> {"absent", "clean", "used"}], \A m \in Names \ {n} : ctr'[m] = ctr[m],
             \A e \in agents' : e \in agents \/ e.ctr = n,
             \A m \in Names \ {n} : m \in shared' <=> m \in shared
      PROVE  ShareTypes' /\ PoolOwn'
  <2>1. ShareTypes'
    BY <1>0, <1>1, <1>2, <1>4 DEF ShareTypes, Free
  <2>2. \A t \in Sessions : op'[t].at = "ensuring" => op'[t].ctr \in named'
    BY <1>0, <1>1, <1>4 DEF PoolOwn, Free
  <2>3. ASSUME NEW m \in PoolNames \ named, Unmade(m) \/ m \in available
        PROVE  ctr'[m] = ctr[m] /\ ~InMap(m)' /\ \A t \in Sessions : ~Working(t, m)'
    <3>1. m # n /\ m \in Names /\ ~InMap(m) /\ \A t \in Sessions : ~Working(t, m)
      BY <1>0, <1>3, <2>3 DEF PoolOwn, Names
    <3>2. ctr'[m] = ctr[m] /\ ~InMap(m)'
      BY <1>4, <3>1 DEF InMap
    <3>3. ~Working(s, m)'
      <4>1. op'[s].at = "free" \/ op'[s].ctr = n
        BY <1>4 DEF Free
      <4>2. QED
        BY <3>1, <4>1 DEF Working
    <3>4. ASSUME NEW t \in Sessions \ {s} PROVE ~Working(t, m)'
      <4>1. op'[t] = op[t] /\ ~Working(t, m)
        BY <1>4, <3>1
      <4>2. QED
        BY <4>1 DEF Working
    <3>5. QED
      BY <3>2, <3>3, <3>4
  <2>4. QED
    BY <1>0, <1>1, <1>3, <2>1, <2>2, <2>3 DEF PoolOwn
<1>5. ASSUME Done(s)
      PROVE  /\ op' \in [Sessions -> Op] /\ op'[s] = Free /\ ~Firm(s)'
             /\ \A t \in Sessions \ {s} : op'[t] = op[t] /\ (Firm(t)' <=> Firm(t))
  BY <1>0, <1>5 DEF Done, Become, ShareTypes, Op, Free, Firm
<1>6. ASSUME Done(s), agents' = agents, shared' = shared
      PROVE  OneHolder'
  BY <1>0, <1>1, <1>5, <1>6 DEF OneHolder
<1>7. CASE Ensured(s)
  <2>1. /\ op[s].at = "ensuring" /\ agents' = agents
        /\ ctr' = [ctr EXCEPT ![n] = IF @ = "absent" THEN "clean" ELSE @]
        /\ shared' = IF HeldBesides(s, n) THEN shared \cup {n} ELSE shared
        /\ op' = [op EXCEPT ![s] = [op[s] EXCEPT !.at = "dialing"]]
    BY <1>7 DEF Ensured, Ensure, Become, table
  <2>2. /\ op' \in [Sessions -> Op] /\ op'[s].at = "dialing" /\ op'[s].ctr = n
        /\ \A t \in Sessions \ {s} : op'[t] = op[t] /\ (Firm(t)' <=> Firm(t))
    BY <1>0, <1>2, <2>1 DEF ShareTypes, Op, Firm
  <2>3. /\ ctr' \in [Names -> {"absent", "clean", "used"}] /\ ctr'[n] # "absent"
        /\ \A m \in Names \ {n} : ctr'[m] = ctr[m]
    BY <1>0, <1>2, <2>1 DEF ShareTypes
  <2>4. n \in available => n \in shared'
    BY <2>1 DEF HeldBesides
  <2>5. ShareTypes' /\ PoolOwn'
    BY <1>4, <2>1, <2>2, <2>3
  <2>6. AgentsHaveContainers'
    BY <1>0, <2>1, <2>3 DEF AgentsHaveContainers, ShareTypes
  <2>7. /\ \A e \in agents : e.ctr = n => n \in shared'
        /\ \A t \in Sessions \ {s} : Firm(t) /\ op[t].ctr = n => n \in shared'
    BY <2>1 DEF HeldBesides, InMap, Working, Firm
  <2>8. OneHolder'
    <3>1. \A e, f \in agents' : e # f /\ e.ctr = f.ctr => e.ctr \in shared'
      BY <1>0, <1>1, <2>1, <2>2, <2>4, <2>7 DEF OneHolder
    <3>2. \A t, u \in Sessions : t # u /\ Firm(t)' /\ Firm(u)' /\ op'[t].ctr = op'[u].ctr => op'[t].ctr \in shared'
      BY <1>0, <1>1, <2>1, <2>2, <2>4, <2>7 DEF OneHolder
    <3>3. \A e \in agents', t \in Sessions : Firm(t)' /\ op'[t].ctr = e.ctr => e.ctr \in shared'
      BY <1>0, <1>1, <2>1, <2>2, <2>4, <2>7 DEF OneHolder
    <3>4. \A e \in agents' : e.ctr \in available' => e.ctr \in shared'
      BY <1>0, <1>1, <2>1, <2>2, <2>4, <2>7 DEF OneHolder
    <3>5. \A t \in Sessions : Firm(t)' /\ op'[t].ctr \in available' => op'[t].ctr \in shared'
      BY <1>0, <1>1, <2>1, <2>2, <2>4, <2>7 DEF OneHolder
    <3>6. QED
      BY <3>1, <3>2, <3>3, <3>4, <3>5 DEF OneHolder
  <2>9. QED
    BY <2>5, <2>6, <2>8 DEF ShareInv
<1>8. CASE EnsureFails(s)
  <2>1. /\ Done(s) /\ UNCHANGED <<agents, shared>>
        /\ ctr' = ctr \/ ctr' = [ctr EXCEPT ![n] = IF @ = "absent" THEN "clean" ELSE @]
    BY <1>8 DEF EnsureFails, EnsureError, table
  <2>2. /\ ctr' \in [Names -> {"absent", "clean", "used"}] /\ (ctr[n] # "absent" => ctr'[n] = ctr[n])
        /\ \A m \in Names \ {n} : ctr'[m] = ctr[m]
    BY <1>0, <1>2, <2>1 DEF ShareTypes
  <2>4. ShareTypes' /\ PoolOwn'
    BY <1>4, <1>5, <2>1, <2>2
  <2>5. AgentsHaveContainers'
    BY <1>0, <2>1, <2>2 DEF AgentsHaveContainers, ShareTypes
  <2>6. QED
    BY <1>6, <2>1, <2>4, <2>5 DEF ShareInv
<1>9. CASE DialFails(s)
  <2>1. Done(s) /\ UNCHANGED <<agents, shared, ctr>>
    BY <1>9 DEF DialFails, table
  <2>3. ctr' \in [Names -> {"absent", "clean", "used"}]
    BY <1>0, <2>1 DEF ShareTypes
  <2>4. ShareTypes' /\ PoolOwn'
    BY <1>4, <1>5, <2>1, <2>3
  <2>5. AgentsHaveContainers'
    BY <1>0, <2>1 DEF AgentsHaveContainers
  <2>6. QED
    BY <1>6, <2>1, <2>4, <2>5 DEF ShareInv
<1>10. CASE Dialed(s)
  <2> DEFINE new == [id |-> nextAgent, ctr |-> n]
  <2>1. /\ Firm(s) /\ Done(s) /\ shared' = shared /\ ctr' = [ctr EXCEPT ![n] = "used"]
        /\ agents' = agents \cup {new} /\ new.ctr = n
    BY <1>10 DEF Dialed, Firm
  <2> HIDE DEF new
  <2>2. /\ ctr' \in [Names -> {"absent", "clean", "used"}] /\ ctr'[n] # "absent"
        /\ \A m \in Names \ {n} : ctr'[m] = ctr[m]
    BY <1>0, <1>2, <2>1 DEF ShareTypes
  <2>3. /\ \A e \in agents : e.ctr = n => n \in shared
        /\ \A t \in Sessions \ {s} : Firm(t) /\ op[t].ctr = n => n \in shared
        /\ n \in available => n \in shared
    BY <1>0, <2>1 DEF OneHolder
  <2>4. ShareTypes' /\ PoolOwn'
    BY <1>4, <1>5, <2>1, <2>2
  <2>5. AgentsHaveContainers'
    BY <1>0, <2>1, <2>2 DEF AgentsHaveContainers, ShareTypes
  <2>6. OneHolder'
    <3>1. \A e, f \in agents' : e # f /\ e.ctr = f.ctr => e.ctr \in shared'
      <4>1. \A e \in agents' : e \in agents \/ e = new
        BY <2>1
      <4>2. \A e, f \in agents : e # f /\ e.ctr = f.ctr => e.ctr \in shared
        BY <1>0 DEF OneHolder
      <4>3. QED
        BY <2>1, <2>3, <4>1, <4>2
    <3>2. \A t, u \in Sessions : t # u /\ Firm(t)' /\ Firm(u)' /\ op'[t].ctr = op'[u].ctr => op'[t].ctr \in shared'
      BY <1>0, <1>1, <1>5, <2>1, <2>3 DEF OneHolder
    <3>3. \A e \in agents', t \in Sessions : Firm(t)' /\ op'[t].ctr = e.ctr => e.ctr \in shared'
      BY <1>0, <1>1, <1>5, <2>1, <2>3 DEF OneHolder
    <3>4. \A e \in agents' : e.ctr \in available' => e.ctr \in shared'
      BY <1>0, <1>1, <1>5, <2>1, <2>3 DEF OneHolder
    <3>5. \A t \in Sessions : Firm(t)' /\ op'[t].ctr \in available' => op'[t].ctr \in shared'
      BY <1>0, <1>1, <1>5, <2>1, <2>3 DEF OneHolder
    <3>6. QED
      BY <3>1, <3>2, <3>3, <3>4, <3>5 DEF OneHolder
  <2>7. QED
    BY <2>4, <2>5, <2>6 DEF ShareInv
<1>11. CASE KillDestroy(s)
  <2>1. /\ Firm(s) /\ Done(s) /\ agents' = agents /\ Destroy({n})
        /\ shared' = IF HeldBesides(s, n) THEN shared ELSE shared \ {n}
    BY <1>11 DEF KillDestroy, Firm, table
  <2>2. /\ ctr' \in [Names -> {"absent", "clean", "used"}]
        /\ \A m \in Names \ {n} : ctr'[m] = ctr[m]
    BY <1>0, <1>2, <2>1 DEF Destroy, ShareTypes
  <2>3. /\ \A e \in agents : e.ctr = n => n \in shared /\ shared' = shared
        /\ \A t \in Sessions \ {s} : Firm(t) /\ op[t].ctr = n => n \in shared /\ shared' = shared
        /\ n \in available => n \in shared /\ shared' = shared
    BY <1>0, <2>1 DEF OneHolder, HeldBesides, InMap, Working, Firm
  <2>4. \A m : m # n => (m \in shared' <=> m \in shared)
    BY <2>1
  <2>5. ShareTypes' /\ PoolOwn'
    BY <1>4, <1>5, <2>1, <2>2, <2>4
  <2>6. AgentsHaveContainers'
    BY <1>0, <2>1, <2>2, <2>3, <2>4 DEF AgentsHaveContainers, ShareTypes
  <2>7. OneHolder'
    <3>1. \A e, f \in agents' : e # f /\ e.ctr = f.ctr => e.ctr \in shared'
      BY <1>0, <1>1, <1>5, <2>1, <2>3, <2>4 DEF OneHolder
    <3>2. \A t, u \in Sessions : t # u /\ Firm(t)' /\ Firm(u)' /\ op'[t].ctr = op'[u].ctr => op'[t].ctr \in shared'
      BY <1>0, <1>1, <1>5, <2>1, <2>3, <2>4 DEF OneHolder
    <3>3. \A e \in agents', t \in Sessions : Firm(t)' /\ op'[t].ctr = e.ctr => e.ctr \in shared'
      BY <1>0, <1>1, <1>5, <2>1, <2>3, <2>4 DEF OneHolder
    <3>4. \A e \in agents' : e.ctr \in available' => e.ctr \in shared'
      BY <1>0, <1>1, <1>5, <2>1, <2>3, <2>4 DEF OneHolder
    <3>5. \A t \in Sessions : Firm(t)' /\ op'[t].ctr \in available' => op'[t].ctr \in shared'
      BY <1>0, <1>1, <1>5, <2>1, <2>3, <2>4 DEF OneHolder
    <3>6. QED
      BY <3>1, <3>2, <3>3, <3>4, <3>5 DEF OneHolder
  <2>8. QED
    BY <2>5, <2>6, <2>7 DEF ShareInv
<1>12. QED
  BY <1>7, <1>8, <1>9, <1>10, <1>11 DEF Progress

(***************************************************************************)
(* The process starts, stops or crashes: nobody comes to hold anything.    *)
(***************************************************************************)
LEMMA ProcessShares ==
    ASSUME ShareInv, Start \/ StopDetach \/ StopDrain \/ StopExit \/ Crash
    PROVE  ShareInv'
<1>0. ShareTypes /\ OneHolder /\ PoolOwn /\ AgentsHaveContainers
  BY DEF ShareInv
<1>1. CASE Start
  <2>1. UNCHANGED <<ctr, shared, named, agents, available, counter, filling, op>> /\ boots' = boots + 1
    BY <1>1 DEF Start, host, table, pool
  <2>2. ShareTypes' /\ OneHolder' /\ AgentsHaveContainers'
    <3>1. ShareTypes'
      BY <1>0, <2>1 DEF ShareTypes
    <3>2. OneHolder'
      BY <1>0, <2>1 DEF OneHolder, Firm
    <3>3. AgentsHaveContainers'
      BY <1>0, <2>1 DEF AgentsHaveContainers
    <3>4. QED
      BY <3>1, <3>2, <3>3
  <2>3. PoolOwn'
    BY <1>0, <2>1 DEF PoolOwn, InMap, Working, Unmade
  <2>4. QED
    BY <2>2, <2>3 DEF ShareInv
<1>2. CASE StopDetach
  <2>1. UNCHANGED <<ctr, shared, named, available, counter, filling, op, boots>> /\ agents' = {}
    BY <1>2 DEF StopDetach, pool
  <2>2. ShareTypes' /\ OneHolder' /\ AgentsHaveContainers'
    <3>1. ShareTypes'
      BY <1>0, <2>1 DEF ShareTypes
    <3>2. OneHolder'
      BY <1>0, <2>1 DEF OneHolder, Firm
    <3>3. AgentsHaveContainers'
      BY <1>0, <2>1 DEF AgentsHaveContainers
    <3>4. QED
      BY <3>1, <3>2, <3>3
  <2>3. PoolOwn'
    BY <1>0, <2>1 DEF PoolOwn, InMap, Working, Unmade
  <2>4. QED
    BY <2>2, <2>3 DEF ShareInv
<1>3. CASE StopDrain
  <2>1. /\ UNCHANGED <<shared, named, agents, counter, filling, op, boots>> /\ available' = {}
        /\ Destroy(available)
    BY <1>3 DEF StopDrain, table
  <2>2. /\ ctr' \in [Names -> {"absent", "clean", "used"}]
        /\ \A n \in Names : ctr'[n] = ctr[n] \/ (n \in available /\ ctr'[n] = "absent")
    BY <1>0, <2>1 DEF Destroy, ShareTypes
  <2>3. ShareTypes' /\ OneHolder'
    BY <1>0, <2>1, <2>2 DEF ShareTypes, OneHolder, Firm
  <2>4. AgentsHaveContainers'
    BY <1>0, <2>1, <2>2 DEF ShareTypes, OneHolder, AgentsHaveContainers
  <2>5. PoolOwn'
    <3>1. \A n \in PoolNames : n \in Names
      BY DEF Names
    <3>2. QED
      BY <1>0, <2>1, <2>2, <3>1 DEF PoolOwn, InMap, Working, Unmade
  <2>6. QED
    BY <2>3, <2>4, <2>5 DEF ShareInv
<1>4. CASE StopExit \/ Crash
  <2>1. /\ UNCHANGED <<ctr, shared, boots>> /\ agents' = {} /\ available' = {} /\ filling' = {}
        /\ counter' = 0 /\ op' = [s \in Sessions |-> Free] /\ named' = {n \in Names : ctr[n] # "absent"}
    BY <1>4 DEF StopExit, Crash, Exit
  <2>2. Free \in Op /\ Free.at = "free"
    BY DEF Free, Op
  <2>3. ShareTypes'
    BY <1>0, <2>1, <2>2 DEF ShareTypes
  <2>4. OneHolder' /\ AgentsHaveContainers'
    BY <2>1, <2>2 DEF OneHolder, Firm, AgentsHaveContainers
  <2>5. PoolOwn'
    BY <2>1, <2>2 DEF PoolOwn, InMap, Working, Names
  <2>6. QED
    BY <2>3, <2>4, <2>5 DEF ShareInv
<1>5. QED
  BY <1>1, <1>2, <1>3, <1>4

(***************************************************************************)
(* Two firm holders of a container, among the map, the pool and the        *)
(* requests past ensure(), mean that it was ensured by name while held.    *)
(***************************************************************************)
THEOREM HoldersShare == Spec => []ShareInv
<1>1. Init => ShareInv
  <2>1. Init => op \in [Sessions -> Op] /\ \A s \in Sessions : op[s].at = "free"
    BY DEF Init, Op, Free
  <2>2. Init => ShareTypes
    BY <2>1 DEF Init, ShareTypes
  <2>3. Init => OneHolder /\ AgentsHaveContainers
    BY <2>1 DEF Init, OneHolder, Firm, AgentsHaveContainers
  <2>4. Init => PoolOwn
    BY <2>1 DEF Init, PoolOwn, InMap, Working, Names
  <2>5. QED
    BY <2>2, <2>3, <2>4 DEF ShareInv
<1>2. ShareInv /\ UNCHANGED vars => ShareInv'
  <2>1. SUFFICES ASSUME ShareInv, UNCHANGED vars PROVE ShareInv'
    OBVIOUS
  <2>2. UNCHANGED <<phase, boots, ctr, shared, named, agents, available, counter, filling, op>>
    BY <2>1 DEF vars, host, table, pool
  <2>3. ShareTypes' /\ OneHolder' /\ AgentsHaveContainers'
    <3>1. ShareTypes' /\ AgentsHaveContainers'
      BY <2>1, <2>2 DEF ShareInv, ShareTypes, AgentsHaveContainers
    <3>2. OneHolder'
      BY <2>1, <2>2 DEF ShareInv, OneHolder, Firm
    <3>3. QED
      BY <3>1, <3>2
  <2>4. PoolOwn'
    BY <2>1, <2>2 DEF ShareInv, PoolOwn, InMap, Working, Unmade
  <2>5. QED
    BY <2>3, <2>4 DEF ShareInv
<1>3. ShareInv /\ Next => ShareInv'
  BY FillShares, RequestShares, ProgressShares, ProcessShares DEF Next
<1>4. QED
  BY <1>1, <1>2, <1>3, PTL DEF Spec

(***************************************************************************)
(* An agent of the registry has its container, unless two holders shared   *)
(* it and one of them killed it.                                           *)
(***************************************************************************)
THEOREM AgentsKeepContainers == Spec => []AgentsHaveContainers
<1>1. ShareInv => AgentsHaveContainers
  BY DEF ShareInv
<1>2. QED
  BY <1>1, HoldersShare, PTL

(***************************************************************************)
(* spawn() never gets a warm container that has served or serves an agent, *)
(* in any process, but for the ones that frontends of the process asked    *)
(* for by name and the ones that were on the host when it started.         *)
(***************************************************************************)
THEOREM WarmStaysExclusive == Spec => []WarmExclusive
<1>1. ShareInv => WarmExclusive
  BY DEF ShareInv, ShareTypes, PoolOwn, WarmExclusive
<1>2. QED
  BY <1>1, HoldersShare, PTL
=============================================================================
