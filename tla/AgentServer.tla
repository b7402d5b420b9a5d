----------------------------- MODULE AgentServer -----------------------------
(***************************************************************************)
(* nexal-agent's side of a gateway connection: the serial dispatch loop    *)
(* (server/channel/dispatch.rs, server/services/exec_server.rs), the       *)
(* requests the agent itself sends over the same connection, and the       *)
(* skills file system that sends them (fs/skills.rs), with the gateway's   *)
(* answers (gateway registry.rs and skills.rs).                            *)
(*                                                                         *)
(* Connections come one after the other.  Each has its own dispatch loop   *)
(* and, once initialized, mounts its own skills file system over the same  *)
(* directory; nothing ever unmounts one.  A FUSE session is one thread     *)
(* that serves one kernel request at a time.  Readers of the mount are a   *)
(* program in the sandbox, a dispatch loop (fs/* or process/start under    *)
(* the mount) and the mount task of a later connection (create_dir_all).   *)
(***************************************************************************)
EXTENDS Naturals, Sequences, SequencesExt, FiniteSets

CONSTANTS MaxConn,    \* bound: connections
          Scripts,    \* what the gateway may send on the connections, [Conns -> Seq(method)]
          MaxReads    \* bound: reads of the sandbox program

ASSUME ServerBoundsAssumption == MaxConn \in Nat \ {0} /\ MaxReads \in Nat

VARIABLES script,   \* the member of Scripts this behaviour follows
          link,     \* connection -> "none", "up", "down"
          sent,     \* messages of its script the gateway has sent
          inbox,    \* messages on the way to the dispatch loop
          loop,     \* "none", "idle", "busy" (inside a handler) or "ended"
          phase,    \* "new", "init" (initialize seen), "ready" (initialized seen)
          replies,      \* replies sent, in order
          nextId, pending,   \* MsgpackChannel: next id, and what waits for which answer
          asked,    \* the agent's requests the gateway has not answered
          mounter,  \* the mount task: "none", "mkdir", "listing", "done"
          mounts,   \* mounted file systems, the last one on top
          fuse,     \* the reader a FUSE thread is serving, or Nobody
          cache,    \* file_cache of a mount
          want,     \* reader -> the mount it waits for, or 0
          got,      \* reader -> what its last read gave
          reads

session == <<link, sent, phase, replies>>
chan == <<nextId, pending, asked>>
fsys == <<mounts, fuse, cache>>
srvVars == <<script, session, inbox, loop, chan, mounter, fsys, want, got, reads>>

Conns == 1..MaxConn
Loop(g) == <<"loop", g>>
Mkdir(g) == <<"mkdir", g>>
App == <<"app", 0>>
Lister == <<"list", 0>>
Nobody == <<"none", 0>>
Readers == {App} \cup {Loop(g) : g \in Conns} \cup {Mkdir(g) : g \in Conns}

\* The file each reader is after; create_dir_all only looks at the root.
File(r) == IF r[1] = "mkdir" THEN "root" ELSE r[1]

\* Files the tree lists with size 0, as it does every SKILL.md.
Unsized == {"app"}

HasId(m) == m \notin {"initialized", "bad"}
Top == IF mounts = <<>> THEN 0 ELSE Last(mounts)

ServerInit ==
  /\ script \in Scripts
  /\ link = [g \in Conns |-> "none"] /\ sent = [g \in Conns |-> 0]
  /\ inbox = [g \in Conns |-> <<>>] /\ loop = [g \in Conns |-> "none"]
  /\ phase = [g \in Conns |-> "new"] /\ replies = [g \in Conns |-> <<>>]
  /\ nextId = [g \in Conns |-> 1] /\ pending = [g \in Conns |-> {}]
  /\ asked = [g \in Conns |-> {}] /\ mounter = [g \in Conns |-> "none"]
  /\ mounts = <<>> /\ fuse = [g \in Conns |-> Nobody] /\ cache = [g \in Conns |-> {}]
  /\ want = [r \in Readers |-> 0] /\ got = [r \in Readers |-> "none"] /\ reads = 0

-----------------------------------------------------------------------------
(* The gateway's end and the connection.                                    *)

Connect(g) ==
  /\ link[g] = "none" /\ \A h \in 1..(g - 1) : link[h] = "down"
  /\ link' = [link EXCEPT ![g] = "up"] /\ loop' = [loop EXCEPT ![g] = "idle"]
  /\ UNCHANGED <<script, sent, phase, replies, inbox, chan, mounter, fsys, want, got, reads>>

Send(g) ==
  /\ link[g] = "up" /\ sent[g] < Len(script[g])
  /\ sent' = [sent EXCEPT ![g] = @ + 1]
  /\ inbox' = [inbox EXCEPT ![g] = Append(@, [k |-> "req", id |-> sent[g] + 1, v |-> script[g][sent[g] + 1]])]
  /\ UNCHANGED <<script, link, phase, replies, loop, chan, mounter, fsys, want, got, reads>>

\* handle_agent_request: answered by a task of its own, with data or an error.
Answer(g) ==
  /\ link[g] = "up"
  /\ \E q \in asked[g], v \in {"ok", "error"} :
       /\ asked' = [asked EXCEPT ![g] = @ \ {q}]
       /\ inbox' = [inbox EXCEPT ![g] = Append(@, [k |-> "ans", id |-> q.id, v |-> IF v = "ok" THEN q.f ELSE v])]
  /\ UNCHANGED <<script, session, loop, nextId, pending, mounter, fsys, want, got, reads>>

\* The loop hears of the loss after what was received before.
Disconnected(g) ==
  /\ link[g] = "up"
  /\ link' = [link EXCEPT ![g] = "down"] /\ asked' = [asked EXCEPT ![g] = {}]
  /\ inbox' = [inbox EXCEPT ![g] = Append(@, [k |-> "gone", id |-> 0, v |-> "none"])]
  /\ UNCHANGED <<script, sent, phase, replies, loop, nextId, pending, mounter, fsys, want, got, reads>>

-----------------------------------------------------------------------------
(* The dispatch loop.                                                       *)

Received(g, k) == loop[g] = "idle" /\ inbox[g] # <<>> /\ Head(inbox[g]).k = k
Consume(g) == inbox' = [inbox EXCEPT ![g] = Tail(@)]

\* Send a reply; when the connection's writer is gone the loop ends.
Respond(g, id, res) ==
  IF link[g] = "up"
  THEN replies' = [replies EXCEPT ![g] = Append(@, <<id, res>>)] /\ loop' = [loop EXCEPT ![g] = "idle"]
  ELSE UNCHANGED replies /\ loop' = [loop EXCEPT ![g] = "ended"]

\* Mutant of Settle: an answer that is an error reaches nobody.
SettleResultsOnly(g, p, v) ==
  /\ fuse' = IF v = "error" \/ p.r = Lister THEN fuse ELSE [fuse EXCEPT ![g] = Nobody]
  /\ want' = IF v = "error" \/ p.r = Lister THEN want ELSE [want EXCEPT ![p.r] = 0]
  /\ mounter' = IF p.r = Lister THEN [mounter EXCEPT ![g] = "done"] ELSE mounter
  /\ mounts' = IF p.r = Lister /\ v # "error" THEN Append(mounts, g) ELSE mounts
  /\ UNCHANGED <<cache, got>>

\* The file system that waits under id is told the answer v.  read() passes an error
\* on; getattr() makes it size 0, and the reader sees an empty file.  After a getattr()
\* that succeeded the reader comes back with a read().
Settle(g, p, v) ==
  IF p.r = Lister
  THEN /\ mounter' = [mounter EXCEPT ![g] = "done"]
       /\ mounts' = IF v = "error" THEN mounts ELSE Append(mounts, g)
       /\ UNCHANGED <<fuse, cache, want, got>>
  ELSE /\ fuse' = [fuse EXCEPT ![g] = Nobody]
       /\ IF p.call = "getattr" /\ v # "error"
          THEN UNCHANGED <<want, got>>
          ELSE /\ want' = [want EXCEPT ![p.r] = 0]
               /\ got' = [got EXCEPT ![p.r] = IF p.call = "getattr" THEN "empty" ELSE v]
       /\ cache' = IF v = "error" THEN cache ELSE [cache EXCEPT ![g] = @ \cup {<<File(p.r), v>>}]
       /\ UNCHANGED <<mounter, mounts>>

\* Mutant of ResolvePending: a frame is matched by its id alone.
ResolvePendingById(g) ==
  /\ loop[g] = "idle" /\ inbox[g] # <<>> /\ Consume(g)
  /\ \E p \in pending[g] : /\ p.id = Head(inbox[g]).id
                           /\ pending' = [pending EXCEPT ![g] = @ \ {p}]
                           /\ Settle(g, p, Head(inbox[g]).v)
  /\ UNCHANGED <<script, session, loop, nextId, asked, reads>>

\* try_resolve_pending: no method, and an id that is waited for.
ResolvePending(g) ==
  /\ Received(g, "ans") /\ Consume(g)
  /\ \E p \in pending[g] : /\ p.id = Head(inbox[g]).id
                           /\ pending' = [pending EXCEPT ![g] = @ \ {p}]
                           /\ Settle(g, p, Head(inbox[g]).v)
  /\ UNCHANGED <<script, session, loop, nextId, asked, reads>>

\* Mutant of Dispatch: requests get an answer although they carry no id.
DispatchRepliesAlways(g) ==
  /\ Received(g, "req") /\ Consume(g)
  /\ Head(inbox[g]).v # "skill"
  /\ Respond(g, Head(inbox[g]).id, "ok")
  /\ phase' = [phase EXCEPT ![g] = IF Head(inbox[g]).v = "initialize" THEN "init" ELSE "ready"]
  /\ mounter' = [mounter EXCEPT ![g] = IF Head(inbox[g]).v = "initialized" THEN "mkdir" ELSE @]
  /\ UNCHANGED <<script, link, sent, chan, fsys, want, got, reads>>

\* dispatch: a handler that touches nothing under the mount runs to its end.
Dispatch(g) ==
  /\ Received(g, "req") /\ Consume(g)
  /\ LET m == Head(inbox[g]).v
         id == Head(inbox[g]).id
         fine == \/ m = "initialize" /\ phase[g] = "new"
                 \/ m = "initialized" /\ phase[g] # "new"
                 \/ m = "work" /\ phase[g] = "ready"
     IN  /\ ~ (m = "skill" /\ phase[g] = "ready" /\ mounts # <<>>)
         /\ phase' = [phase EXCEPT ![g] = IF ~fine \/ m = "work" THEN @
                                          ELSE IF m = "initialize" THEN "init" ELSE "ready"]
         /\ mounter' = [mounter EXCEPT ![g] = IF fine /\ m = "initialized" THEN "mkdir" ELSE @]
         /\ IF HasId(m) THEN Respond(g, id, IF fine THEN "ok" ELSE "error")
            ELSE IF m = "bad" THEN Respond(g, 0, "error")
            ELSE UNCHANGED <<replies, loop>>
  /\ UNCHANGED <<script, link, sent, chan, fsys, want, got, reads>>

\* A handler that reads a file under the mount waits for FUSE ...
DispatchOnMount(g) ==
  /\ Received(g, "req") /\ Head(inbox[g]).v = "skill" /\ phase[g] = "ready" /\ mounts # <<>>
  /\ loop' = [loop EXCEPT ![g] = "busy"] /\ want' = [want EXCEPT ![Loop(g)] = Top]
  /\ UNCHANGED <<script, session, inbox, chan, mounter, fsys, got, reads>>

\* ... and replies when it has it.
HandlerDone(g) ==
  /\ loop[g] = "busy" /\ want[Loop(g)] = 0
  /\ Respond(g, Head(inbox[g]).id, IF got[Loop(g)] = "error" THEN "error" ELSE "ok")
  /\ Consume(g)
  /\ UNCHANGED <<script, link, sent, phase, chan, mounter, fsys, want, got, reads>>

\* The loop ends; what waits in `pending` is not told.
LoopEnds(g) ==
  /\ Received(g, "gone") /\ Consume(g)
  /\ loop' = [loop EXCEPT ![g] = "ended"]
  /\ UNCHANGED <<script, session, chan, mounter, fsys, want, got, reads>>

-----------------------------------------------------------------------------
(* The skills file system.                                                  *)

\* request / request_blocking: r waits for the file f from the gateway.
Ask(g, r, call, f) ==
  /\ nextId' = [nextId EXCEPT ![g] = @ + 1]
  /\ pending' = [pending EXCEPT ![g] = @ \cup {[id |-> nextId[g], r |-> r, call |-> call]}]
  /\ asked' = [asked EXCEPT ![g] = @ \cup {[id |-> nextId[g], f |-> f]}]

\* initialized(): the mount task makes the directory, under an older mount ...
MountMkdir(g) ==
  /\ mounter[g] = "mkdir" /\ want[Mkdir(g)] = 0 /\ got[Mkdir(g)] = "none" /\ mounts # <<>>
  /\ want' = [want EXCEPT ![Mkdir(g)] = Top]
  /\ UNCHANGED <<script, session, inbox, loop, chan, mounter, fsys, got, reads>>

\* ... asks for the list of skills, and mounts (ResolvePending) or gives up.
MountList(g) ==
  /\ mounter[g] = "mkdir" /\ want[Mkdir(g)] = 0 /\ (mounts = <<>> \/ got[Mkdir(g)] # "none")
  /\ IF link[g] = "up"
     THEN Ask(g, Lister, "list", "list") /\ mounter' = [mounter EXCEPT ![g] = "listing"]
     ELSE UNCHANGED chan /\ mounter' = [mounter EXCEPT ![g] = "done"]
  /\ UNCHANGED <<script, session, inbox, loop, fsys, want, got, reads>>

\* The sandbox program opens a skill file.
AppRead ==
  /\ mounts # <<>> /\ want[App] = 0 /\ reads < MaxReads
  /\ want' = [want EXCEPT ![App] = Top] /\ reads' = reads + 1
  /\ UNCHANGED <<script, session, inbox, loop, chan, mounter, fsys, got>>

\* What mount g has of the file without asking, in a singleton.
Cached(g, f) == {e[2] : e \in {e \in cache[g] \cup {<<"root", "root">>} : e[1] = f}}

\* A getattr() or a read() of one file: from the cache, from the gateway, or the
\* error EIO, which getattr() makes size 0, when the connection's writer is gone.  The
\* kernel asks for the attributes of a file it has none of, and may go by those of
\* lookup(), which for an unsized file say that it is empty.
FuseServe(g) ==
  /\ fuse[g] = Nobody
  /\ \E r \in Readers :
       /\ want[r] = g
       /\ \E call \in IF File(r) \in Unsized THEN {"lookup", "getattr", "read"} ELSE {"read"} :
            LET hit == Cached(g, File(r))
            IN  IF hit # {} \/ call = "lookup" \/ link[g] # "up"
                THEN /\ want' = [want EXCEPT ![r] = 0]
                     /\ got' = [got EXCEPT ![r] = IF call = "lookup" THEN "empty"
                                                  ELSE IF hit # {} THEN CHOOSE v \in hit : TRUE
                                                  ELSE IF call = "getattr" THEN "empty" ELSE "error"]
                     /\ UNCHANGED <<fuse, chan>>
                ELSE /\ fuse' = [fuse EXCEPT ![g] = r] /\ Ask(g, r, call, File(r))
                     /\ UNCHANGED <<want, got>>
  /\ UNCHANGED <<script, session, inbox, loop, mounter, mounts, cache, reads>>

-----------------------------------------------------------------------------
LoopStep(g) == \/ ResolvePending(g) \/ Dispatch(g) \/ DispatchOnMount(g) \/ HandlerDone(g)
               \/ LoopEnds(g)
MountStep(g) == MountMkdir(g) \/ MountList(g)

ServerNext ==
  \/ \E g \in Conns : \/ Connect(g) \/ Send(g) \/ Answer(g) \/ Disconnected(g)
                      \/ LoopStep(g) \/ MountStep(g) \/ FuseServe(g)
  \/ AppRead

-----------------------------------------------------------------------------
(* Properties.                                                              *)

\* Ids of the requests of a script that expect a reply; 0 for a malformed one.
Expected(g) == LET ids == [i \in 1..sent[g] |-> IF script[g][i] = "bad" THEN 0 ELSE i]
               IN  SelectSeq(ids, LAMBDA i : i = 0 \/ HasId(script[g][i]))

\* The loop answers every request that carries an id exactly once and in the
\* order of the requests, although answers to the agent's own requests, whose
\* ids overlap with the gateway's, arrive on the same connection (run_dispatch).
RepliesInOrder ==
  \A g \in Conns : IsPrefix([i \in DOMAIN replies[g] |-> replies[g][i][1]], Expected(g))

\* A reader gets the file it asked for, an error, or, for a file listed with size 0
\* whose attributes could not be fetched, an empty file; never the answer to another
\* request, on whichever connection and in whichever order the answers came
\* (request_blocking, try_resolve_pending, fetch_file, getattr).
FetchRight ==
  \A r \in Readers :
    got[r] \in {"none", "error", File(r)} \cup {v \in {"empty"} : File(r) \in Unsized}

\* A FUSE thread waits for an answer nobody will bring: the connection went
\* down before it came, or the loop that would read it waits for this mount.
Orphaned(g) == fuse[g] # Nobody /\ (link[g] = "down" \/ want[Loop(g)] = g)
\* ... or waits for a mount whose thread does.
Stuck(g) == fuse[g] # Nobody /\ (Orphaned(g) \/ \E h \in Conns : want[Loop(g)] = h /\ Orphaned(h))

\* Nothing is left to do for the loops, the mount tasks, the FUSE threads and
\* the gateway's handlers.
Quiet == ~ ENABLED \E g \in Conns : LoopStep(g) \/ MountStep(g) \/ FuseServe(g) \/ Answer(g)

\* Whoever reads the skills mount gets an answer ("lazily fetches file content
\* from the gateway via RPC when accessed", fs/skills.rs): when all tasks have
\* come to rest nobody waits, except on a mount whose FUSE thread is stuck.
ReadsAnswered == Quiet => \A r \in Readers : want[r] # 0 => Stuck(want[r])
=============================================================================
