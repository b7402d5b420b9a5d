------------------------------- MODULE MCTape -------------------------------
(* Small instance of the tape store for TLC: one plan per group of          *)
(* operations that meet in practice, so that each gets the depth it needs.  *)
EXTENDS TapePage, TLC
CONSTANTS s1, s2, w1, w2, chat1, chat2

NoPlan == [ops |-> {}, budget |-> 0, par |-> 2, navs |-> 0, syncs |-> 0, hooks |-> FALSE, throw |-> FALSE,
           inPlace |-> FALSE, whole |-> FALSE,
           on |-> Tapes, rows |-> [t \in {} |-> <<>>], owned |-> [s \in Sessions |-> None], flush |-> w1]

Rows1(kinds) == [t \in {s1} |-> kinds]

MCScript == <<"user", "notice", "toolResult">>

Edits == [NoPlan EXCEPT !.ops = {"redact", "amend"}, !.budget = 3, !.par = 1,
                        !.rows = Rows1(<<"message", "message", "message">>)]
Writers == [NoPlan EXCEPT !.ops = {"record", "anchor", "batch", "set", "reset", "info"}, !.budget = 3, !.par = 3, !.rows = Rows1(<<"anchor">>)]
Hooks(throw) == [NoPlan EXCEPT !.ops = IF throw THEN {"batch", "redact"} ELSE {"record", "batch", "redact"},
                               !.budget = 3, !.hooks = TRUE, !.throw = throw,
                               !.rows = Rows1(<<>>)]
\* A worker with a second run, with a restart, and one that was started again with
\* two messages on its tape.
Flushes(op, rows, inPlace, whole) ==
    [NoPlan EXCEPT !.ops = {"flush", op}, !.budget = 1, !.inPlace = inPlace, !.whole = whole,
                   !.on = {w1}, !.rows = [t \in {w1} |-> rows]]
FlushPlans ==
    {Flushes(op, <<"event">>, i, FALSE) : op \in {"route", "restart"}, i \in BOOLEAN}
    \cup {Flushes("route", <<"event">>, FALSE, TRUE), Flushes("anchor", <<"event", "message", "message">>, FALSE, FALSE)}
Chats(owner) == [NoPlan EXCEPT !.ops = {"session", "spawn", "delete"}, !.budget = 3, !.owned[chat1] = owner,
                               !.rows = IF owner = None THEN @ ELSE [t \in {owner} |-> <<"anchor">>]]

\* Clients are alike.
Alike == Permutations(Clients)

\* The user moves between two tapes; a tape grows while it is watched.
Pages(n) == [NoPlan EXCEPT !.par = 1, !.on = {s1},
                           !.rows = [t \in {s1, w1} |-> SubSeq(<<"anchor", "message", "message", "message">>, 1, IF t = s1 THEN n ELSE 2)]]
Browsing == [Pages(3) EXCEPT !.navs = 3]
Watching == [Pages(4) EXCEPT !.ops = {"anchor"}, !.budget = 2, !.navs = 1, !.syncs = 2]
Returning == [Pages(3) EXCEPT !.ops = {"anchor"}, !.budget = 1, !.navs = 2]
Crossing == [Pages(3) EXCEPT !.navs = 2, !.syncs = 1]

MCPlans == {Edits, Writers, Hooks(TRUE), Hooks(FALSE), Chats(None), Chats(s1), Browsing, Watching, Returning, Crossing}
           \cup FlushPlans
=============================================================================
