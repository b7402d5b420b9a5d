--------------------------- MODULE MCExecProcess ---------------------------
(* Instance of the agent for TLC, one part per behaviour: processes (one that *)
(* writes three chunks, two under one id, one with a terminal), the server    *)
(* with its skills mount, the tree that mount shows, or the file operations.  *)
EXTENDS ExecProcess, AgentServer, SkillsTree, AgentFiles

VARIABLE part

Plan(gens, out, err, tty) ==
    [gens |-> gens, tty |-> tty,
     writes |-> [p \in (1..MaxGen) \X Streams |->
                    IF p = <<1, "stdout">> THEN out ELSE IF p = <<1, "stderr">> THEN err ELSE 0]]

MCPlans == {Plan(1, 2, 1, FALSE), Plan(2, 1, 0, FALSE), Plan(1, 2, 0, TRUE)}

\* The second script sends out of turn and has one connection only.
MCScripts == {<< <<"initialize", "initialized", "skill">>, <<"initialize", "initialized">> >>,
              << <<"skill", "bad", "initialized", "initialize", "initialize", "initialized", "work", "skill">>, <<>> >>}

\* Up to three files of one skill in any order, beside a second skill.
Paths == {SkillMd, <<"a">>, <<"d", "a">>, <<"d", "e", "a">>, <<"d", "e", "b">>, <<".git", "a">>}
Distinct(s) == Cardinality(Range(s)) = Len(s)
MCDisks == {<<[name |-> "s", files |-> f], [name |-> n, files |-> << <<"d", "a">>, SkillMd>>]>> :
              f \in {s \in UNION {[1..k -> Paths] : k \in 0..3} : Distinct(s)}, n \in {"t", ".git"}}

\* Every tree of up to four nodes on two levels with links between them, and every
\* tree on four levels below a/b whose directories may hold one of their own name.
TopPaths == {<<"a">>, <<"b">>}
LowPaths == {<<x, y>> : x, y \in {"a", "b"}}
DeepPaths == {<<"a", "a">>, <<"a", "b">>, <<"a", "b", "a">>, <<"a", "b", "b">>, <<"a", "b", "b", "a">>, <<"a", "b", "b", "b">>}
MCNodes == {Dir, [k |-> "file", v |-> <<"data">>]} \cup
           {[k |-> "link", v |-> t] : t \in TopPaths \cup {<<"a", "b">>}}
Rooted(f) == f[<<>>] = Dir /\ \A p \in DOMAIN f \ {<<>>} : Front(p) \in DOMAIN f /\ f[Front(p)] = Dir
Deep(D) == {f \in [D -> {Dir, [k |-> "link", v |-> <<"a", "b">>]} \cup {[k |-> "file", v |-> <<"data">>]}] : Rooted(f)}
MCTrees == {f \in UNION {[D \cup {<<>>} -> MCNodes] : D \in {S \in SUBSET (TopPaths \cup LowPaths) : Cardinality(S) <= 4}} : Rooted(f)}
           \cup UNION {Deep(D \cup {<<>>, <<"a">>}) : D \in SUBSET DeepPaths}
MCTargets == TopPaths \cup LowPaths \cup {<<"a", "b", "a">>, <<"a", "b", "b">>}

Parts == {"exec", "server", "tree", "files"}
fileVars == <<files, done>>
Pick(S) == CHOOSE x \in S : TRUE

MCInit ==
    /\ part \in Parts
    /\ IF part = "tree" THEN TreeInit ELSE disk = <<>>
    /\ IF part = "files" THEN FilesInit
       ELSE files = <<>> /\ done = [op |-> "none", src |-> <<>>, dst |-> <<>>, old |-> <<>>]
    /\ Init /\ (part = "exec" \/ plan = Pick(Plans))
    /\ ServerInit /\ (part = "server" \/ script = Pick(Scripts))

MCNext ==
    \/ part = "exec" /\ Next /\ UNCHANGED <<part, srvVars, disk, fileVars>>
    \/ part = "server" /\ ServerNext /\ UNCHANGED <<part, vars, disk, fileVars>>
    \/ part = "files" /\ FilesNext /\ UNCHANGED <<part, vars, srvVars, disk>>

MCSpec == MCInit /\ [][MCNext]_<<part, vars, srvVars, disk, fileVars>> /\ Fairness
=============================================================================
