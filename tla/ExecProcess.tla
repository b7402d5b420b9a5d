----------------------------- MODULE ExecProcess -----------------------------
(***************************************************************************)
(* A command run in the sandbox: LocalProcess of nexal-agent               *)
(* (crates/nexal-agent/src/process/local.rs) with the child handles of     *)
(* crates/utils/pty, and runCommand() of the frontend's GatewayAgentClient *)
(* (src/gateway/agent_client.ts), which starts it and polls process/read.  *)
(*                                                                         *)
(* One process id is followed through the processes (generations) started  *)
(* under it.  An action is the code between two awaits or under the lock   *)
(* of the process map.  A chunk is one unit of output.                     *)
(***************************************************************************)
EXTENDS Naturals, Sequences, FiniteSets, SequencesExt

CONSTANTS
    MaxGen,         \* bound: processes started under the id
    Plans,          \* bounds: for a behaviour, the processes started and the chunks
                    \* each writes to a stream, and whether it has a terminal
    Retained,       \* RETAINED_OUTPUT_BYTES_PER_PROCESS, in chunks
    MaxBytes,       \* max_bytes of process/read, in chunks
    None            \* no entry

ASSUME SizesAssumption ==
    /\ MaxGen \in Nat
    /\ Plans \subseteq [gens : 0..MaxGen, tty : BOOLEAN, writes : [(1..MaxGen) \X {"stdout", "stderr"} -> Nat]]
    /\ Retained \in Nat \ {0} /\ MaxBytes \in Nat \ {0}

VARIABLES
    plan,           \* the member of Plans this behaviour follows
    conn,           \* the connection the processes belong to is up
    entry,          \* processes[id]
    child,          \* the child of a generation
    made,           \* chunks written to a stream
    pipe,           \* chunks on the way from the child to stream_output()
    eof,            \* the sending end of pipe is closed
    task,           \* stream_output() of a generation and stream
    watch,          \* watch_exit() of a generation
    code,           \* what exit_rx gives: "exit", or "lost" when wait was aborted
    client,         \* runCommand()
    seqs,           \* history: seq of the exited and closed events of a generation
    evicted,        \* history: chunks no longer retained
    mixed           \* history: generations whose entry a task of another one used

os == <<child, made, pipe, eof, code>>
tasks == <<task, watch>>
past == <<seqs, evicted, mixed>>
state == <<conn, entry, os, tasks, client, past>>
vars == <<plan, state>>

Gens == 1..MaxGen
Streams == {"stdout", "stderr"}
Idle == [at |-> "idle", gen |-> 0, after |-> 0, got |-> <<>>, closed |-> FALSE, cut |-> FALSE]

Init ==
    /\ plan \in Plans
    /\ conn = TRUE
    /\ entry = None
    /\ child = [g \in Gens |-> "none"]
    /\ made = [p \in Gens \X Streams |-> 0]
    /\ pipe = [p \in Gens \X Streams |-> <<>>]
    /\ eof = [p \in Gens \X Streams |-> FALSE]
    /\ task = [p \in Gens \X Streams |-> "none"]
    /\ watch = [g \in Gens |-> "none"]
    /\ code = [g \in Gens |-> "none"]
    /\ client = Idle
    /\ seqs = [g \in Gens |-> [exited |-> 0, closed |-> 0]]
    /\ evicted = {}
    /\ mixed = {}

-----------------------------------------------------------------------------
(* The child and its handles (crates/utils/pty).                            *)

\* With a terminal all output comes by one reader, as stdout; the sender of the
\* stderr channel is dropped when spawn_process returns.
PtyStreams(g) == eof' = [eof EXCEPT ![<<g, "stderr">>] = @ \/ plan.tty]

\* The next generation's child, its two stream tasks and its exit watcher.
Launch(g) ==
    /\ child' = [child EXCEPT ![g] = "running"]
    /\ task' = [p \in Gens \X Streams |-> IF p[1] = g THEN "recv" ELSE task[p]]
    /\ watch' = [watch EXCEPT ![g] = "wait"]
    /\ PtyStreams(g)
    /\ UNCHANGED <<made, pipe, code>>

\* A child, or a process it left behind, writes to an open stream.
Write(g, st) ==
    LET p == <<g, st>> IN
    /\ child[g] # "none" /\ ~eof[p]
    /\ made[p] < plan.writes[p]
    /\ made' = [made EXCEPT ![p] = @ + 1]
    /\ pipe' = [pipe EXCEPT ![p] = Append(@, [gen |-> g, stream |-> st, n |-> made[p] + 1])]
    /\ UNCHANGED <<conn, entry, child, eof, code, tasks, client, past>>

\* The last process that holds the stream closes it.
CloseStream(g, st) ==
    /\ child[g] # "none" /\ ~eof[<<g, st>>]
    /\ eof' = [eof EXCEPT ![<<g, st>>] = TRUE]
    /\ UNCHANGED <<conn, entry, child, made, pipe, code, tasks, client, past>>

\* The child ends, and the task that waits for it reports its code.
ChildExits(g) ==
    /\ child[g] = "running"
    /\ child' = [child EXCEPT ![g] = "exited"]
    /\ code' = [code EXCEPT ![g] = IF @ = "none" THEN "exit" ELSE @]
    /\ UNCHANGED <<conn, entry, made, pipe, eof, tasks, client, past>>

\* ProcessHandle::terminate, also run when the entry is dropped: the group is killed,
\* and the reader and wait tasks are aborted.  What the readers had not delivered is
\* lost, and so is the exit code when it was not known.
PipeTerminate(g) ==
    /\ child' = [child EXCEPT ![g] = "exited"]
    /\ code' = [code EXCEPT ![g] = IF @ = "none" THEN "lost" ELSE @]
    /\ eof' = [p \in Gens \X Streams |-> p[1] = g \/ eof[p]]
    /\ \E out \in 0..Len(pipe[<<g, "stdout">>]), err \in 0..Len(pipe[<<g, "stderr">>]) :
          pipe' = [pipe EXCEPT ![<<g, "stdout">>] = SubSeq(@, 1, out),
                               ![<<g, "stderr">>] = SubSeq(@, 1, err)]
    /\ UNCHANGED made

\* The same with a terminal: the reader and the wait run on blocking threads, which
\* abort() does not stop, so both carry on to the end of the stream and the exit.
PtyTerminate(g) ==
    /\ child' = [child EXCEPT ![g] = "exited"]
    /\ code' = [code EXCEPT ![g] = IF @ = "none" THEN "exit" ELSE @]
    /\ UNCHANGED <<made, pipe, eof>>

Terminate(g) == IF plan.tty THEN PtyTerminate(g) ELSE PipeTerminate(g)

-----------------------------------------------------------------------------
(* The tasks of a process.                                                  *)

\* A task of generation g works on the entry of the id, whoever it belongs to.
Touch(g) == mixed' = IF entry.gen = g THEN mixed ELSE mixed \cup {entry.gen}

\* The oldest chunks go until the rest fits.
Keep(output) == SubSeq(output, Len(output) - Retained + 1, Len(output))

Retain(output) == IF Len(output) > Retained THEN Keep(output) ELSE output

\* stream_output(): one chunk, or the end when the entry is gone.
StreamChunk(g, st) ==
    LET p == <<g, st>>
        out == Append(entry.output, [seq |-> entry.next, chunk |-> Head(pipe[p])])
    IN
    /\ task[p] = "recv"
    /\ pipe[p] # <<>>
    /\ pipe' = [pipe EXCEPT ![p] = Tail(@)]
    /\ IF entry = None
       THEN /\ task' = [task EXCEPT ![p] = "finish"]
            /\ UNCHANGED <<entry, evicted, mixed>>
       ELSE /\ entry' = [entry EXCEPT !.output = Retain(out), !.next = @ + 1]
            /\ evicted' = evicted \cup ({o.chunk : o \in Range(out)} \ {o.chunk : o \in Range(Retain(out))})
            /\ Touch(g)
            /\ UNCHANGED task
    /\ UNCHANGED <<conn, child, made, eof, code, watch, client, seqs>>

StreamEnds(g, st) ==
    LET p == <<g, st>> IN
    /\ task[p] = "recv"
    /\ pipe[p] = <<>> /\ eof[p]
    /\ task' = [task EXCEPT ![p] = "finish"]
    /\ UNCHANGED <<conn, entry, os, watch, client, past>>

\* finish_output_stream().
StreamFinish(g, st) ==
    LET p == <<g, st>> IN
    /\ task[p] = "finish"
    /\ IF entry = None
       THEN /\ task' = [task EXCEPT ![p] = "done"]
            /\ UNCHANGED <<entry, mixed>>
       ELSE /\ task' = [task EXCEPT ![p] = "check"]
            /\ entry' = [entry EXCEPT !.open = IF @ > 0 THEN @ - 1 ELSE 0]
            /\ Touch(g)
    /\ UNCHANGED <<conn, os, watch, client, seqs, evicted>>

\* Mutant of EmitClosed: one finished stream is enough.
EmitClosedEarly(g) ==
    IF entry # None /\ ~entry.closed /\ entry.open < 2 /\ entry.exit # "none"
    THEN /\ entry' = [entry EXCEPT !.closed = TRUE, !.next = @ + 1]
         /\ seqs' = [seqs EXCEPT ![entry.gen].closed = entry.next]
         /\ Touch(g)
    ELSE UNCHANGED <<entry, seqs, mixed>>

\* maybe_emit_closed().
EmitClosed(g) ==
    IF entry # None /\ ~entry.closed /\ entry.open = 0 /\ entry.exit # "none"
    THEN /\ entry' = [entry EXCEPT !.closed = TRUE, !.next = @ + 1]
         /\ seqs' = [seqs EXCEPT ![entry.gen].closed = entry.next]
         /\ Touch(g)
    ELSE UNCHANGED <<entry, seqs, mixed>>

StreamCheck(g, st) ==
    /\ task[<<g, st>>] = "check"
    /\ task' = [task EXCEPT ![<<g, st>>] = "done"]
    /\ EmitClosed(g)
    /\ UNCHANGED <<conn, os, watch, client, evicted>>

\* Mutant of WatchExit: the exit is announced but not recorded in the entry.
WatchExitForgets(g) ==
    /\ watch[g] = "wait"
    /\ code[g] # "none"
    /\ watch' = [watch EXCEPT ![g] = "check"]
    /\ UNCHANGED <<conn, entry, os, task, client, past>>

\* watch_exit(): the exit is recorded ...
WatchExit(g) ==
    /\ watch[g] = "wait"
    /\ code[g] # "none"
    /\ watch' = [watch EXCEPT ![g] = "check"]
    /\ IF entry = None
       THEN UNCHANGED <<entry, seqs, mixed>>
       ELSE /\ entry' = [entry EXCEPT !.exit = code[g], !.next = @ + 1]
            /\ seqs' = [seqs EXCEPT ![entry.gen].exited = entry.next]
            /\ Touch(g)
    /\ UNCHANGED <<conn, os, task, client, evicted>>

WatchCheck(g) ==
    /\ watch[g] = "check"
    /\ watch' = [watch EXCEPT ![g] = "sleep"]
    /\ EmitClosed(g)
    /\ UNCHANGED <<conn, os, task, client, evicted>>

\* ... and EXITED_PROCESS_RETENTION later the entry is removed and dropped.
WatchRemove(g) ==
    /\ watch[g] = "sleep"
    /\ watch' = [watch EXCEPT ![g] = "done"]
    /\ IF entry # None /\ entry.exit = code[g]
       THEN entry' = None /\ Terminate(entry.gen)
       ELSE UNCHANGED <<entry, os>>
    /\ UNCHANGED <<conn, task, client, past>>

-----------------------------------------------------------------------------
(* process/start, process/read and process/terminate as runCommand() uses   *)
(* them, and the end of the connection.                                     *)

Unstarted == {g \in 1..plan.gens : child[g] = "none"}

Start(g) ==
    /\ conn /\ client = Idle
    /\ entry = None
    /\ g \in Unstarted /\ \A h \in Unstarted : g <= h
    /\ Launch(g)
    /\ entry' = [gen |-> g, output |-> <<>>, next |-> 1, exit |-> "none", open |-> 2,
                 closed |-> FALSE]
    /\ client' = [Idle EXCEPT !.at = "poll", !.gen = g]
    /\ UNCHANGED <<conn, past>>

\* The id exists already, or the program cannot be run.
StartFails ==
    /\ conn /\ client = Idle
    /\ client' = [Idle EXCEPT !.at = "failed"]
    /\ UNCHANGED <<conn, entry, os, tasks, past>>

Unread == SelectSeq(entry.output, LAMBDA o : o.seq > client.after)

\* The reply of exec_read(): what fits in max_bytes, and at least one chunk.
Reply == SubSeq(Unread, 1, Min({MaxBytes, Len(Unread)}))

\* Mutant of Read: the cursor is the server's next_seq, not the last chunk seen.
ReadFromNext ==
    /\ conn /\ client.at = "poll"
    /\ entry # None
    /\ Unread # <<>> \/ entry.exit # "none"
    /\ client' = [client EXCEPT
                    !.got = @ \o [i \in DOMAIN Reply |-> Reply[i].chunk],
                    !.after = IF Reply = <<>> THEN entry.next ELSE Last(Reply).seq + 1,
                    !.at = IF entry.exit = "none" THEN "poll" ELSE "done",
                    !.closed = entry.closed,
                    !.cut = Len(Unread) > MaxBytes]
    /\ UNCHANGED <<conn, entry, os, tasks, past>>

\* Mutant of Read: an answer that says exited says closed as well.
ReadExitedIsClosed ==
    /\ conn /\ client.at = "poll"
    /\ entry # None
    /\ Unread # <<>> \/ entry.exit # "none"
    /\ client' = [client EXCEPT
                    !.got = @ \o [i \in DOMAIN Reply |-> Reply[i].chunk],
                    !.after = IF Reply = <<>> THEN @ ELSE Last(Reply).seq,
                    !.at = IF entry.exit = "none" THEN "poll" ELSE "done",
                    !.closed = entry.exit # "none",
                    !.cut = Len(Unread) > MaxBytes]
    /\ UNCHANGED <<conn, entry, os, tasks, past>>

\* exec_read() answers at once with output or an exit; otherwise it waits, and an
\* empty answer after wait_ms changes nothing.  runCommand() stops at the exit.
Read ==
    /\ conn /\ client.at = "poll"
    /\ entry # None
    /\ Unread # <<>> \/ entry.exit # "none"
    /\ client' = [client EXCEPT
                    !.got = @ \o [i \in DOMAIN Reply |-> Reply[i].chunk],
                    !.after = IF Reply = <<>> THEN @ ELSE Last(Reply).seq,
                    !.at = IF entry.exit = "none" THEN "poll" ELSE "done",
                    !.closed = entry.closed,
                    !.cut = Len(Unread) > MaxBytes]
    /\ UNCHANGED <<conn, entry, os, tasks, past>>

\* The id is unknown by now, or the connection is gone: runCommand() throws.
ReadFails ==
    /\ client.at = "poll"
    /\ entry = None \/ ~conn
    /\ client' = [client EXCEPT !.at = "failed"]
    /\ UNCHANGED <<conn, entry, os, tasks, past>>

\* timeoutMs has passed: process/terminate, unless the exit is recorded.
Timeout ==
    /\ client.at = "poll"
    /\ client' = [client EXCEPT !.at = "timedOut"]
    /\ IF conn /\ entry # None /\ entry.exit = "none" THEN Terminate(entry.gen) ELSE UNCHANGED os
    /\ UNCHANGED <<conn, entry, tasks, past>>

\* The frontend runs another command under the id.
Again ==
    /\ client.at \in {"done", "timedOut", "failed"}
    /\ conn /\ Unstarted # {}
    /\ client' = Idle
    /\ UNCHANGED <<conn, entry, os, tasks, past>>

\* The dispatch loop ends: shutdown() drains the map and terminates.
Disconnect ==
    /\ conn
    /\ conn' = FALSE
    /\ entry' = None
    /\ IF entry # None THEN Terminate(entry.gen) ELSE UNCHANGED os
    /\ UNCHANGED <<tasks, client, past>>

-----------------------------------------------------------------------------
(* Behaviours.                                                              *)

StreamTask(g, st) ==
    StreamChunk(g, st) \/ StreamEnds(g, st) \/ StreamFinish(g, st) \/ StreamCheck(g, st)

WatchTask(g) == WatchExit(g) \/ WatchCheck(g)

RunCommand ==
    \/ \E g \in Gens : Start(g)
    \/ StartFails \/ Read \/ ReadFails \/ Timeout \/ Again

Next ==
    /\ \/ \E g \in Gens, st \in Streams : Write(g, st) \/ CloseStream(g, st) \/ StreamTask(g, st)
       \/ \E g \in Gens : ChildExits(g) \/ WatchTask(g) \/ WatchRemove(g)
       \/ RunCommand
       \/ Disconnect
    /\ UNCHANGED plan

Spec == Init /\ [][Next]_vars

\* The exit watcher is scheduled and the client keeps polling; nothing is assumed
\* of the child, the stream tasks or the timers.
Fairness ==
    /\ \A g \in Gens : WF_state(WatchTask(g))
    /\ WF_state(Read \/ ReadFails)

FairSpec == Spec /\ Fairness

-----------------------------------------------------------------------------
(* Properties.                                                              *)

\* An entry no other generation's task has used.
Own == entry # None /\ entry.gen \notin mixed

SeqsOf(output) == {o.seq : o \in Range(output)}

\* Every sequence number is used once, in order, by a chunk, the exit or the close,
\* and what is retained is all the output since its first chunk (stream_output,
\* watch_exit and maybe_emit_closed number under the lock).  closed means the end: it
\* follows the exit and both streams, no sequence number comes after it, and
\* nothing of this process is on the way any more.
EventsExact ==
    Own =>
        LET used == SeqsOf(entry.output)
            ends == {seqs[entry.gen].exited, seqs[entry.gen].closed} \ {0}
        IN  /\ \A i, j \in DOMAIN entry.output : i < j => entry.output[i].seq < entry.output[j].seq
            /\ used \cap ends = {}
            /\ used # {} => Min(used)..(entry.next - 1) \subseteq used \cup ends
            /\ entry.closed =>
                 /\ entry.exit # "none" /\ seqs[entry.gen].closed = entry.next - 1
                 /\ \A st \in Streams : pipe[<<entry.gen, st>>] = <<>> /\ eof[<<entry.gen, st>>]

\* Polling with after_seq gives every retained chunk once and in order: nothing at
\* or below the last sequence number seen was passed over, whatever was cut by
\* max_bytes or evicted in between, and no chunk came twice.
PollExact ==
    client.at = "poll" /\ Own =>
        /\ \A i, j \in DOMAIN client.got : i # j => client.got[i] # client.got[j]
        /\ \A o \in Range(entry.output) : o.seq <= client.after <=> o.chunk \in Range(client.got)

\* A result is complete when the last answer said closed: every chunk that the
\* readers delivered is in it, except evicted ones and what max_bytes cut off.
ResultComplete ==
    client.at = "done" /\ client.closed /\ ~client.cut /\ client.gen \notin mixed =>
        \A st \in Streams : \A n \in 1..made[<<client.gen, st>>] :
            LET c == [gen |-> client.gen, stream |-> st, n |-> n] IN
            Own /\ entry.gen = client.gen =>
                c \in Range(client.got) \cup evicted \/ code[client.gen] = "lost"

\* Once the child has ended runCommand() returns: the exit is recorded and the
\* next poll sees it, or the entry or the connection is gone.
ExitSeen ==
    \A g \in Gens :
        client.gen = g /\ client.at = "poll" /\ child[g] = "exited" ~> client.at # "poll"
=============================================================================
