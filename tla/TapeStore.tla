----------------------------- MODULE TapeStore -----------------------------
(***************************************************************************)
(* Tapes in Postgres and the concurrent clients that write them.           *)
(*                                                                         *)
(* A tape is a row with the last entry id, and its entries under the key   *)
(* (tape, entry id).  An append reads the last id, then writes id and      *)
(* entries: two statements of a READ COMMITTED transaction that does not   *)
(* lock what it read, so a concurrent append makes the second step fail on *)
(* the primary key.  The write itself holds the lock on the tape's row to  *)
(* the end of the transaction and is one step.                             *)
(*                                                                         *)
(* Clients run the operations of the Tape class (append, batch, setX with  *)
(* ifChanged, redact, amend, reset, info), the automatic summary hook, the *)
(* flushes of a persistent worker over several runs and restarts, the      *)
(* creation of a session's tape, the linking of a worker's tape and the    *)
(* /tape_delete command.                                                   *)
(***************************************************************************)
EXTENDS TapeView

CONSTANTS
    Tapes,       \* tape ids (a uuid is never reused)
    Sessions,    \* chat sessions
    Clients,     \* concurrent calls
    Script,      \* the roles of the messages a worker's runs produce, in order
    Big,         \* payloads with an image above the inline limit
    Every,       \* summarise after this many entries (also minEntries)
    Window,      \* context window of the summary
    MaxId,       \* bound on entry ids
    Plans,       \* what may happen in a behaviour
    None

ASSUME StoreConstants ==
    /\ None \notin Tapes
    /\ Every \in Nat \ {0} /\ Window \in Nat \ {0} /\ MaxId \in Nat

VARIABLES
    plan,      \* the features of this behaviour: [ops, budget, par, hooks, throw, inPlace, whole,
               \*   navs, syncs, on, rows, owned, flush]
    tapes,     \* [st, last, rows] of each tape
    ref,       \* session_tapes: the tape of each session
    files,     \* payloads in the file store
    client,    \* the call each client is in
    hook,      \* the automatic summary: entries since the last one, and whether one is running
    worker,    \* [msgs, done, made, from, running, timer]: the agent's message list,
               \*   lastPersistedMsgCount, messages made so far, where the run began
    mixed      \* history: the overlaps and failures that occurred

store == <<tapes, ref, files>>
vars == <<plan, store, client, hook, worker, mixed>>

NoTape == [st |-> "unused", last |-> 0, rows |-> <<>>]

Live(t) == tapes[t].st = "live"

\* createTapeRecord.
Unused == {t \in Tapes : tapes[t].st = "unused"}
NewTape == CHOOSE t \in Unused : TRUE
Created(t) == [tapes EXCEPT ![t].st = "live"]

\* The rows of a tape ordered by entry id.
Read(t) == tapes[t].rows

Ids(t) == {Read(t)[i].id : i \in DOMAIN Read(t)}

Idle == [pc |-> "idle", op |-> "", left |-> <<>>, snap |-> 0, sub |-> FALSE,
         t |-> None, s |-> None, val |-> 0, base |-> 0, upto |-> 0, doomed |-> {}]

Max0(S) == IF S = {} THEN 0 ELSE Max(S)

\* Rows a tape may start with: what an earlier process wrote.
Rows(kinds) ==
    [i \in DOMAIN kinds |->
        [Draft(kinds[i], CASE kinds[i] = "anchor" -> "start" [] kinds[i] = "event" -> "context" [] OTHER -> "user",
               10 + i + 10 * Len(kinds)) EXCEPT !.id = i]]

\* start(): the message list is restored from the tape, and all of it counts as saved.
Restored(es) == EntriesToMessages(ApplyEdits(es))

Init ==
    /\ plan \in Plans
    /\ tapes = [t \in Tapes |-> IF t \in DOMAIN plan.rows
                                THEN [st |-> "live", last |-> Len(plan.rows[t]), rows |-> Rows(plan.rows[t])]
                                ELSE NoTape]
    /\ ref = [s \in Sessions |-> plan.owned[s]]
    /\ files = {}
    /\ client = [c \in Clients |-> Idle]
    /\ hook = [since |-> 0, running |-> FALSE]
    /\ LET ms == Restored(Read(plan.flush))
       IN  worker = [msgs |-> ms, done |-> Len(ms), made |-> 0, from |-> Len(ms), running |-> TRUE, timer |-> FALSE]
    /\ mixed = {}

----------------------------------------------------------------------------
(* Starting a call. *)

Free(c) == client[c].pc = "idle" /\ Cardinality({d \in Clients : client[d].pc # "idle"}) < plan.par

Starts(c, op) ==
    /\ Free(c) /\ op \in plan.ops /\ plan.budget > 0
    /\ plan' = [plan EXCEPT !.budget = @ - 1]

Batch(t, ds) == [t |-> t, ds |-> ds]

\* A call that appends the batches of `left', one transaction each.
Appends(c, op, left) ==
    client' = [client EXCEPT ![c] = [Idle EXCEPT !.pc = "begin", !.op = op, !.left = left]]

Targets(t) == {tgt \in SUBSET Ids(t) : tgt # {} /\ Cardinality(tgt) <= 2}

\* One record per call: a message, a tool result, a legacy tool call.
RecordOne(c, t) ==
    /\ Starts(c, "record") /\ Live(t)
    /\ \E d \in {Draft("message", "user", 1), Draft("tool_result", "toolResult", 2), Draft("tool_call", "", 3)} :
            Appends(c, "record", <<Batch(t, <<d>>)>>)
    /\ UNCHANGED <<store, hook, worker, mixed>>

\* anchor() writes through handoff(), past the append hook.
Anchor(c, t) ==
    /\ Starts(c, "anchor") /\ Live(t)
    /\ Appends(c, "anchor", <<Batch(t, <<Draft("anchor", "start", 0)>>)>>)
    /\ UNCHANGED <<store, hook, worker, mixed>>

RecordMessages(c, t) ==
    /\ Starts(c, "batch") /\ Live(t)
    /\ Appends(c, "batch", <<Batch(t, MessagesToEntries(<<[role |-> "user", val |-> 4],
                                                         [role |-> "assistant", val |-> 5]>>))>>)
    /\ UNCHANGED <<store, hook, worker, mixed>>

\* redact() appends one redaction per target, each in a transaction of its own.
Redact(c, t) ==
    /\ Starts(c, "redact") /\ Live(t)
    /\ \E tgt \in Targets(t) :
            LET ids == IF Cardinality(tgt) = 1 THEN <<Min(tgt)>> ELSE <<Min(tgt), Max(tgt)>>
            IN  Appends(c, "redact", [i \in DOMAIN ids |-> Batch(t, <<Redaction(ids[i])>>)])
    /\ UNCHANGED <<store, hook, worker, mixed>>

Amend(c, t) ==
    /\ Starts(c, "amend") /\ Live(t)
    /\ \E tgt \in Targets(t) :
            Appends(c, "amend", <<Batch(t, <<Amendment(tgt, <<Draft("message", "user", 100 + plan.budget)>>)>>)>>)
    /\ UNCHANGED <<store, hook, worker, mixed>>

\* setX(value, {ifChanged}): the latest value is read first.
SetIfChanged(c, t) ==
    /\ Starts(c, "set") /\ Live(t)
    /\ \E v \in {7, 8} :
            client' = [client EXCEPT ![c] = [Idle EXCEPT !.pc = "check", !.op = "set", !.t = t, !.val = v]]
    /\ UNCHANGED <<store, hook, worker, mixed>>

Setting(t) == {c \in Clients : /\ client[c].op \in {"set", "route"} /\ client[c].pc \in {"begin", "tx", "write"}
                               /\ client[c].left[1].t = t}

Status(t, v) == [Idle EXCEPT !.pc = "check", !.op = "set", !.t = t, !.val = v]

\* route() and start(): the status "running" is recorded, then the agent is prompted.
Starting(t) == [Status(t, 8) EXCEPT !.op = "route"]

Current(me) == me.left[1]

\* What follows the last append of a call: the end of a run and the start of a
\* session go on to the status record, the start of a worker to its first prompt.
Ended(me) ==
    CASE me.op = "end" -> Status(me.t, 9)
      [] me.op = "session" -> Status(Current(me).t, 6)
      [] me.op = "start" -> Starting(me.t)
      [] me.op = "route" -> [Idle EXCEPT !.pc = "prompt", !.op = "route"]
      [] OTHER -> Idle

CheckSet(c) ==
    LET me == client[c]
    IN  /\ me.pc = "check"
        /\ client' = [client EXCEPT ![c] =
                IF EntryStatus(Read(me.t), "status", me.val) = "current" THEN Ended(me)
                ELSE [me EXCEPT !.pc = "begin",
                                !.left = <<Batch(me.t, <<Draft("event", "status", me.val)>>)>>]]
        /\ mixed' = IF Setting(me.t) # {} THEN mixed \cup {"set"} ELSE mixed
        /\ UNCHANGED <<plan, store, hook, worker>>

----------------------------------------------------------------------------
(* The append transaction and what follows it. *)

\* The rest of a call after one of its batches: the next batch, or its end.
Proceed(me) ==
    IF Len(me.left) > 1 THEN [me EXCEPT !.pc = "begin", !.left = Tail(@), !.sub = FALSE] ELSE Ended(me)

\* A call that throws: nothing more of it runs.  Only a worker catches the errors of
\* its records and of its flushes, and goes on.
Thrown(me) == IF me.op \in {"end", "start", "route"} THEN Ended(me) ELSE Idle

\* A summary that fails releases the hook; its error is the append's only under
\* the "throw" policy.
Failed(c) ==
    LET me == client[c]
    IN  /\ mixed' = IF me.op = "end" THEN mixed \cup {"end"} ELSE mixed
        /\ IF me.sub
           THEN /\ hook' = [hook EXCEPT !.running = FALSE]
                /\ client' = [client EXCEPT ![c] = IF plan.throw THEN Thrown(me) ELSE Proceed(me)]
           ELSE client' = [client EXCEPT ![c] = Thrown(me)] /\ UNCHANGED hook


\* Normalisation, and the upload of large images before the transaction.
Prepared(d) ==
    LET n == NormalizeDraft(d)
    IN  IF n.val \in Big /\ n.kind \in {"message", "tool_result"} THEN [n EXCEPT !.blob = "ref"] ELSE n

Prepare(c) ==
    LET me == client[c]
        ds == [i \in DOMAIN Current(me).ds |-> Prepared(Current(me).ds[i])]
        big == {i \in DOMAIN ds : ds[i].blob = "ref"}
    IN  /\ me.pc = "begin"
        /\ files' = files \cup {ds[i].val : i \in big}
        /\ client' = [client EXCEPT ![c].pc = "tx", ![c].left[1].ds = ds]
        /\ UNCHANGED <<plan, tapes, ref, hook, worker, mixed>>

UploadFails(c) ==
    /\ client[c].pc = "begin"
    /\ \E i \in DOMAIN Current(client[c]).ds : Prepared(Current(client[c]).ds[i]).blob = "ref"
    /\ Failed(c)
    /\ UNCHANGED <<plan, store, worker>>

\* requireTapeRecord.
TxRead(c) ==
    LET t == Current(client[c]).t
    IN  /\ client[c].pc = "tx"
        /\ IF Live(t)
           THEN client' = [client EXCEPT ![c].pc = "write", ![c].snap = tapes[t].last] /\ UNCHANGED <<hook, mixed>>
           ELSE Failed(c)
        /\ UNCHANGED <<plan, store, worker>>

Resetting(t) == {c \in Clients : client[c].pc = "resetting" /\ client[c].t = t}

Written(me) == [i \in DOMAIN Current(me).ds |-> [Current(me).ds[i] EXCEPT !.id = me.snap + i]]

\* Rows are read in the order of their ids.
Inserted(rows, new) ==
    SelectSeq(rows, LAMBDA e : e.id < new[1].id) \o new \o SelectSeq(rows, LAMBDA e : e.id > new[1].id)

\* The transaction cannot commit: the tape is gone, or an id is taken.
Collides(me) ==
    \/ ~Live(Current(me).t)
    \/ \E i \in DOMAIN Current(me).ds : me.snap + i \in Ids(Current(me).t)

\* Mutant of TxWrite: the ids are counted on from the row as it is now, but the
\* row keeps the value computed from the one read before.
TxWriteLateId(c) ==
    LET me == client[c]
        t == Current(me).t
        now == [me EXCEPT !.snap = Max0(Ids(t))]
    IN  /\ me.pc = "write" /\ Live(t)
        /\ tapes' = [tapes EXCEPT ![t].last = me.snap + Len(Current(me).ds),
                                  ![t].rows = Inserted(@, Written(now))]
        /\ client' = [client EXCEPT ![c].pc = "committed"]
        /\ UNCHANGED <<plan, ref, files, hook, worker, mixed>>

\* Update of the tape's row, insert of the entries, commit.
TxWrite(c) ==
    LET me == client[c]
        t == Current(me).t
    IN  /\ me.pc = "write" /\ ~Collides(me)
        /\ tapes' = [tapes EXCEPT ![t].last = me.snap + Len(Current(me).ds),
                                  ![t].rows = Inserted(@, Written(me))]
        /\ client' = [client EXCEPT ![c].pc = "committed"]
        /\ mixed' = IF Resetting(t) # {} \/ tapes[t].last # me.snap THEN mixed \cup {"reset"} ELSE mixed
        /\ UNCHANGED <<plan, ref, files, hook, worker>>

TxConflict(c) ==
    /\ client[c].pc = "write" /\ Collides(client[c])
    /\ Failed(c)
    /\ UNCHANGED <<plan, store, worker>>

\* Entries the append hook counts.
Counted(ds) == {i \in DOMAIN ds : ~IsSummary(ds[i])}

\* The length of the list a flush was given: the agent's own list may have grown.
Length(me) == IF plan.inPlace /\ me.op = "flush" THEN Len(worker.msgs) ELSE me.upto

\* The append returns: a summary ends the hook that asked for it, other entries
\* run the hook (not for anchors, which bypass append()), and a flush moves its
\* mark, to the length the message list has by now.
Settle(c) ==
    LET me == client[c]
        hooked == plan.hooks /\ ~me.sub /\ me.op \notin {"anchor", "session"} /\ Counted(Current(me).ds) # {}
    IN  /\ me.pc = "committed"
        /\ hook' = CASE me.sub -> [since |-> 0, running |-> FALSE]
                     [] hooked -> [hook EXCEPT !.since = @ + Cardinality(Counted(Current(me).ds))]
                     [] OTHER -> hook
        /\ client' = [client EXCEPT ![c] = IF hooked THEN [me EXCEPT !.pc = "hook"] ELSE Proceed(me)]
        /\ worker' = IF me.op \in {"flush", "end"}
                     THEN [worker EXCEPT !.done = Length(me)]
                     ELSE worker
        /\ mixed' = CASE me.op \in {"flush", "end"} /\ Length(me) # me.upto -> mixed \cup {"flush"}
                      [] me.op = "end" /\ me.base = 0 -> mixed \ {"end"}
                      [] OTHER -> mixed
        /\ UNCHANGED <<plan, store>>

\* The hook reads the view and decides; a summary covers the context's range.
HookRuns(c) ==
    LET me == client[c]
        t == Current(me).t
        es == ApplyEdits(Read(t))
        range == RangeFromEntries(SummaryContext(es, Window))
        due == Len(es) >= Every /\ hook.since >= Every /\ ~hook.running
    IN  /\ me.pc = "hook"
        /\ hook' = [hook EXCEPT !.running = @ \/ due]
        /\ client' = [client EXCEPT ![c] =
                IF due THEN [me EXCEPT !.pc = "summarise", !.t = t, !.val = range[2]] ELSE Proceed(me)]
        /\ UNCHANGED <<plan, store, worker, mixed>>

\* updateSummary() with ifChanged: an unchanged summary leaves the count alone.
Summarise(c) ==
    LET me == client[c]
        same == EntryStatus(Read(me.t), "summary", me.val) = "current"
    IN  /\ me.pc = "summarise"
        /\ hook' = [hook EXCEPT !.running = ~same]
        /\ client' = [client EXCEPT ![c] =
                IF same THEN Proceed(me)
                ELSE [me EXCEPT !.pc = "begin", !.sub = TRUE,
                                !.left = <<Batch(me.t, <<Draft("event", "summary", me.val)>>)>> \o Tail(@)]]
        /\ UNCHANGED <<plan, store, worker, mixed>>

\* The summariser (external code) fails or has nothing to say.
SummariserFails(c) ==
    /\ client[c].pc = "summarise"
    /\ hook' = [hook EXCEPT !.running = FALSE]
    /\ \E next \in {Proceed(client[c])} \cup (IF plan.throw THEN {Thrown(client[c])} ELSE {}) :
            client' = [client EXCEPT ![c] = next]
    /\ UNCHANGED <<plan, store, worker, mixed>>

----------------------------------------------------------------------------
(* reset(): delete what the statement sees, then set the last id to 0. *)

ResetStart(c, t) ==
    /\ Starts(c, "reset") /\ Live(t)
    /\ client' = [client EXCEPT ![c] = [Idle EXCEPT !.pc = "resetting", !.op = "reset", !.t = t, !.doomed = Ids(t)]]
    /\ UNCHANGED <<store, hook, worker, mixed>>

ResetCommit(c) ==
    LET me == client[c]
    IN  /\ me.pc = "resetting"
        /\ tapes' = IF Live(me.t)
                    THEN [tapes EXCEPT ![me.t].last = 0,
                                       ![me.t].rows = SelectSeq(@, LAMBDA e : e.id \notin me.doomed)]
                    ELSE tapes
        /\ client' = [client EXCEPT ![c] = Idle]
        /\ UNCHANGED <<plan, ref, files, hook, worker, mixed>>

\* An append that collides with a row being deleted waits for the reset, which
\* waits for the append's lock on the tape: the database may abort the reset
\* (the append then meets the row and fails, TxConflict).
ResetAborted(c) ==
    LET me == client[c]
    IN  /\ me.pc = "resetting"
        /\ \E d \in Clients : /\ client[d].pc = "write" /\ Current(client[d]).t = me.t
                              /\ \E i \in DOMAIN Current(client[d]).ds : client[d].snap + i \in me.doomed
        /\ client' = [client EXCEPT ![c] = Idle]
        /\ UNCHANGED <<plan, store, hook, worker, mixed>>

\* info(): the entries are counted, then the last anchor is looked up, by queries of
\* their own.
InfoCount(c, t) ==
    /\ Starts(c, "info") /\ Live(t)
    /\ client' = [client EXCEPT ![c] = [Idle EXCEPT !.pc = "counted", !.op = "info", !.t = t, !.snap = Len(Read(t))]]
    /\ UNCHANGED <<store, hook, worker, mixed>>

InfoDone(c) ==
    /\ client[c].pc = "counted" /\ client' = [client EXCEPT ![c] = Idle]
    /\ UNCHANGED <<plan, store, hook, worker, mixed>>

----------------------------------------------------------------------------
(* The messages of a worker, flushed to the tape plan.flush. *)

Message(i) == [role |-> Script[i], val |-> 20 + i]

Flushing == {c \in Clients : client[c].op \in {"flush", "end"}}

\* route() of a message to an idle worker.
Route(c) ==
    /\ Starts(c, "route") /\ ~worker.running /\ \A d \in Clients : client[d].op \notin {"start", "route"}
    /\ client' = [client EXCEPT ![c] = Starting(plan.flush)]
    /\ UNCHANGED <<store, hook, worker, mixed>>

Prompt(c) ==
    /\ client[c].pc = "prompt" /\ client' = [client EXCEPT ![c] = Idle]
    /\ worker' = [worker EXCEPT !.running = TRUE, !.from = Len(worker.msgs)]
    /\ UNCHANGED <<plan, store, hook, mixed>>

\* turn_end: a new message, and a flush in a while.
TurnEnd ==
    /\ "flush" \in plan.ops /\ worker.running /\ worker.made < Len(Script)
    /\ worker' = [worker EXCEPT !.msgs = Append(@, Message(worker.made + 1)), !.made = @ + 1, !.timer = TRUE]
    /\ UNCHANGED <<plan, store, client, hook, mixed>>

\* flushNow() with the part of the message list that starts behind `base'.
Flush(c, op, base) ==
    /\ Free(c)
    /\ client' = [client EXCEPT ![c] = [Idle EXCEPT !.pc = "save", !.op = op, !.t = plan.flush,
                                                    !.base = base, !.upto = Len(worker.msgs) - base]]
    /\ mixed' = IF Flushing # {} THEN mixed \cup {"flush"} ELSE mixed
    /\ UNCHANGED <<plan, store, hook>>

TimerFlush(c) ==
    /\ worker.timer /\ worker' = [worker EXCEPT !.timer = FALSE]
    /\ Flush(c, "flush", 0)

\* agent_end: the last flush of a run, with the messages the event carries: those of
\* the run, or (plan.whole) the whole list.
AgentEnd(c) ==
    /\ "flush" \in plan.ops /\ worker.running /\ Len(worker.msgs) > worker.from
    /\ worker' = [worker EXCEPT !.timer = FALSE, !.running = FALSE]
    /\ Flush(c, "end", IF plan.whole THEN 0 ELSE worker.from)

\* Mutant of FlushSaved: the mark is moved before the append has succeeded.
FlushSavedEager(c) ==
    LET me == client[c]
        ds == MessagesToEntries(SubSeq(worker.msgs, me.base + worker.done + 1, me.base + Length(me)))
        next == [me EXCEPT !.upto = Length(me), !.left = <<Batch(me.t, ds)>>]
    IN  /\ me.pc = "save"
        /\ client' = [client EXCEPT ![c] = IF ds = <<>> THEN Ended(me) ELSE [next EXCEPT !.pc = "begin"]]
        /\ worker' = [worker EXCEPT !.done = Max0({@, Length(me)})]
        /\ mixed' = IF me.op = "end" /\ me.base > 0 THEN mixed \cup {IF Length(me) > worker.done THEN "part" ELSE "end"}
                    ELSE mixed
        /\ UNCHANGED <<plan, store, hook>>

\* The legacy column is saved; then the messages behind the mark are appended.
\* Without any that a tape stores, there is nothing to append.  The mark counts the
\* whole list: applied to the messages of a later run it skips too many.
FlushSaved(c) ==
    LET me == client[c]
        ds == MessagesToEntries(SubSeq(worker.msgs, me.base + worker.done + 1, me.base + Length(me)))
        next == [me EXCEPT !.upto = Length(me), !.left = <<Batch(me.t, ds)>>]
    IN  /\ me.pc = "save"
        /\ client' = [client EXCEPT ![c] = IF ds = <<>> THEN Ended(me) ELSE [next EXCEPT !.pc = "begin"]]
        /\ worker' = IF ds = <<>> THEN [worker EXCEPT !.done = Max0({@, Length(me)})] ELSE worker
        /\ mixed' = CASE me.op = "end" /\ me.base > 0 ->
                              mixed \cup {IF Length(me) > worker.done THEN "part" ELSE "end"}
                      [] me.op = "end" /\ me.base = 0 /\ ds = <<>> -> mixed \ {"end"}
                      [] OTHER -> mixed
        /\ UNCHANGED <<plan, store, hook>>

\* The process dies and another one starts the worker again: the list is what the
\* tape holds or, if it cannot be read or is empty, what messages_json does.  Then
\* the worker's context is recorded and the agent prompted.
Restart(c) ==
    LET t == plan.flush
        ms == Restored(Read(t))
        json == {SubSeq(worker.msgs, 1 + b, k) : b \in {0, worker.from}, k \in 0..Len(worker.msgs)}
        Loaded(list, mark) == worker' = [worker EXCEPT !.msgs = list, !.done = mark, !.from = Len(list),
                                                       !.running = FALSE, !.timer = FALSE]
    IN  /\ "restart" \in plan.ops /\ plan.budget > 0 /\ plan' = [plan EXCEPT !.budget = @ - 1]
        /\ client' = [d \in Clients |-> IF d # c THEN Idle
                        ELSE [Idle EXCEPT !.pc = "begin", !.op = "start", !.t = t,
                                          !.left = <<Batch(t, <<Draft("event", "context", 0)>>)>>]]
        /\ hook' = [since |-> 0, running |-> FALSE]
        /\ \/ Read(t) # <<>> /\ Loaded(ms, Len(ms)) /\ mixed' = mixed \ {"flush", "part", "end", "json"}
           \/ /\ \E list \in json : Loaded(list, 0)
              /\ mixed' = (mixed \ {"flush", "part"}) \cup {"end"} \cup (IF ms = <<>> THEN {} ELSE {"json"})
        /\ UNCHANGED store

----------------------------------------------------------------------------
(* The tape of a session. *)

\* AgentPool.createSession, and WorkerRegistry.spawn with the worker's new tape.
OpenSession(c, s) ==
    /\ Starts(c, "session")
    /\ client' = [client EXCEPT ![c] = [Idle EXCEPT !.pc = "refsel", !.op = "session", !.s = s]]
    /\ UNCHANGED <<store, hook, worker, mixed>>

Spawn(c, s) ==
    /\ Starts(c, "spawn") /\ Unused # {}
    /\ tapes' = Created(NewTape)
    /\ client' = [client EXCEPT ![c] = [Idle EXCEPT !.pc = "refsel", !.op = "spawn", !.s = s, !.t = NewTape]]
    /\ UNCHANGED <<ref, files, hook, worker, mixed>>

\* The tape is known: a session reads its history, a worker is linked both ways.
Resolved(me, t) ==
    IF me.op = "session" THEN [me EXCEPT !.pc = "open", !.t = t]
    ELSE [me EXCEPT !.pc = "begin", !.left = <<Batch(t, <<Draft("ref", me.t, 0)>>), Batch(me.t, <<Draft("ref", t, 0)>>)>>]

RefSelect(c) ==
    LET me == client[c]
    IN  /\ me.pc = "refsel"
        /\ client' = [client EXCEPT ![c] =
                IF ref[me.s] = None THEN [me EXCEPT !.pc = "refnew"] ELSE Resolved(me, ref[me.s])]
        /\ UNCHANGED <<plan, store, hook, worker, mixed>>

\* A new tape and the mapping in one transaction; a mapping made meanwhile wins
\* and the new tape stays behind.
RefCreate(c) ==
    LET me == client[c]
    IN  /\ me.pc = "refnew" /\ Unused # {}
        /\ tapes' = Created(NewTape)
        /\ ref' = [ref EXCEPT ![me.s] = IF @ = None THEN NewTape ELSE @]
        /\ client' = [client EXCEPT ![c] = Resolved(me, ref'[me.s])]
        /\ UNCHANGED <<plan, files, hook, worker, mixed>>

\* An empty history gets the anchor "session/start" before the status.
SessionOpened(c) ==
    LET me == client[c]
    IN  /\ me.pc = "open"
        /\ client' = [client EXCEPT ![c] =
                IF ApplyEdits(Read(me.t)) = <<>>
                THEN [me EXCEPT !.pc = "begin", !.left = <<Batch(me.t, <<Draft("anchor", "start", 0)>>)>>]
                ELSE Status(me.t, 6)]
        /\ UNCHANGED <<plan, store, hook, worker, mixed>>

----------------------------------------------------------------------------
(* /tape_delete: allowed for tapes reachable from the session's, but for it. *)

Step(S) == S \cup (UNION {RefsOf(Read(t)) : t \in S} \cap Tapes)

\* Every tape is within Cardinality(Tapes) refs.
Reachable(root) ==
    LET reach[n \in 0..Cardinality(Tapes)] == IF n = 0 THEN {root} ELSE Step(reach[n - 1])
    IN  reach[Cardinality(Tapes)]

DeleteAllowed(c, s, t) ==
    /\ Starts(c, "delete") /\ ref[s] # None /\ t \in Reachable(ref[s])
    /\ client' = [client EXCEPT ![c] = [Idle EXCEPT !.pc = "current", !.op = "delete", !.t = t, !.s = s]]
    /\ UNCHANGED <<store, hook, worker, mixed>>

DeleteChecked(c) ==
    LET me == client[c]
    IN  /\ me.pc = "current"
        /\ client' = [client EXCEPT ![c] = IF ref[me.s] = me.t THEN Idle ELSE [me EXCEPT !.pc = "delete"]]
        /\ UNCHANGED <<plan, store, hook, worker, mixed>>

\* Entries and session mappings go with the tape (ON DELETE CASCADE).
DeleteTape(c) ==
    LET t == client[c].t
    IN  /\ client[c].pc = "delete"
        /\ tapes' = [tapes EXCEPT ![t] = [st |-> "gone", last |-> 0, rows |-> <<>>]]
        /\ ref' = [s \in Sessions |-> IF ref[s] = t THEN None ELSE ref[s]]
        /\ client' = [client EXCEPT ![c] = Idle]
        /\ UNCHANGED <<plan, files, hook, worker, mixed>>

----------------------------------------------------------------------------
Transact(c) ==
    \/ Prepare(c) \/ UploadFails(c) \/ TxRead(c) \/ TxWrite(c) \/ TxConflict(c) \/ Settle(c)
    \/ HookRuns(c) \/ Summarise(c) \/ SummariserFails(c)
    \/ CheckSet(c) \/ ResetCommit(c) \/ ResetAborted(c) \/ InfoDone(c)
    \/ FlushSaved(c) \/ Prompt(c) \/ RefSelect(c) \/ RefCreate(c) \/ SessionOpened(c)
    \/ DeleteChecked(c) \/ DeleteTape(c)

Call(c) ==
    \/ \E t \in plan.on : \/ RecordOne(c, t) \/ Anchor(c, t) \/ RecordMessages(c, t) \/ Redact(c, t) \/ Amend(c, t)
                          \/ SetIfChanged(c, t) \/ ResetStart(c, t) \/ InfoCount(c, t)
    \/ TimerFlush(c) \/ AgentEnd(c) \/ Route(c) \/ Restart(c)
    \/ \E s \in Sessions : OpenSession(c, s) \/ Spawn(c, s) \/ \E t \in Tapes : DeleteAllowed(c, s, t)

Next == TurnEnd \/ \E c \in Clients : Transact(c) \/ Call(c)

Spec == Init /\ [][Next]_vars

----------------------------------------------------------------------------
(* Properties. *)

Counting(t) == {c \in Clients : client[c].pc = "counted" /\ client[c].t = t}

\* What is stored stays sound whatever appends interleave, fail or lose the race
\* for an id.  The ids of a tape are 1 to its last id without a gap, so that the
\* next append finds its ids free.  The number of entries behind the last anchor
\* that info() derives from a count and an id is the number loadAfterAnchor()
\* returns, less the entries appended between the two queries (it may come out
\* negative).  Only an append that overlaps a reset may leave it otherwise.  A record written with ifChanged never repeats the value
\* before it, unless two calls overlapped between reading and appending.  An entry
\* that refers to the file store refers to a file that is there.
StoredSound ==
    \A t \in Tapes :
        LET es == Read(t)
            st == SelectSeq(es, LAMBDA e : e.kind = "event" /\ e.name = "status")
            anchored == \E i \in DOMAIN es : es[i].kind = "anchor"
            behind == Len(IF anchored THEN LoadAfterAnchor(es, "start") ELSE es)
        IN  /\ "reset" \notin mixed =>
                 /\ Ids(t) = 1..tapes[t].last
                 /\ \A c \in Counting(t) :
                        EntriesSinceLastAnchor(client[c].snap, es) = behind - (Len(es) - client[c].snap)
            /\ "set" \notin mixed => \A i \in 1..(Len(st) - 1) : st[i].val # st[i + 1].val
            /\ \A i \in DOMAIN es : es[i].blob = "ref" => es[i].val \in files

\* Between the flushes of a worker the tape holds exactly the messages before the
\* mark, once each and in order, over any number of runs, failed flushes, crashes and
\* restarts; and after a run the mark is at the end of the list.  Three things break
\* that: flushes that overlap, a last flush that was given only the messages of a
\* later run (it skips as many of them as the mark counts), and a restart that could
\* not read the tape; a last flush that fails or skips everything leaves the mark
\* behind.  A restart from the tape mends all of it.  Flushes that overlap repeat
\* messages but lose none, unless the agent's list grows in place under one of them.
\* flushNow(), handleAgentEnd(), start().
FlushExact ==
    LET stored == EntriesToMessages(Read(plan.flush))
        saved == SelectSeq(SubSeq(worker.msgs, 1, worker.done), Storable)
    IN  ("flush" \in plan.ops /\ Flushing = {} /\ mixed \cap {"part", "json"} = {}) =>
            /\ "flush" \notin mixed => stored = saved
            /\ ~plan.inPlace => Range(saved) \subseteq Range(stored)
            /\ mixed \cap {"flush", "end"} = {} /\ ~worker.running => worker.done = Len(worker.msgs)

Span(a) == Min(a.tgt)..Max(a.tgt)

Shown(v, a) == {i \in DOMAIN v : v[i] = a.rep[1]}

\* The view hides every redacted entry and every edit, keeps the order, keeps all
\* entries no edit covers, shows a replacement at most once, and shows it in
\* place of its targets when no other amendment covers them.
EditsApplied ==
    \A t \in Tapes :
        LET es == Read(t)
            v == ApplyEdits(es)
            as == ToSet(Amendments(es))
            kept == {v[i].id : i \in DOMAIN v} \ {0}
            Plain(id) == id \notin Redacted(es) /\ \E i \in DOMAIN es : es[i].id = id /\ ~IsEdit(es[i])
        IN  /\ \A id \in kept : Plain(id)
            /\ \A i, j \in DOMAIN v : i < j /\ v[i].id # 0 /\ v[j].id # 0 => v[i].id < v[j].id
            /\ \A i \in DOMAIN es :
                    Plain(es[i].id) /\ (\A a \in as : es[i].id \notin Span(a)) => es[i].id \in kept
            /\ \A a \in as :
                    /\ Cardinality(Shown(v, a)) <= 1
                    /\ (\A b \in as \ {a} : Span(a) \cap Span(b) = {}) /\ (\E id \in a.tgt : Plain(id))
                            => Shown(v, a) # {} /\ kept \cap a.tgt = {}

=============================================================================
