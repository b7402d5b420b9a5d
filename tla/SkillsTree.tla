----------------------------- MODULE SkillsTree -----------------------------
(***************************************************************************)
(* How the skills directory of the gateway becomes a mounted tree in the   *)
(* sandbox: SkillsService::list and collect_files (nexal-gateway/src/      *)
(* skills.rs) list it, SkillsFuseFs::mount builds inodes from the list,    *)
(* and lookup and readdir walk them (nexal-agent/src/fs/skills.rs).  Pure  *)
(* functions, checked for every directory in a bounded set.                *)
(***************************************************************************)
EXTENDS Naturals, Sequences, SequencesExt, FiniteSets

CONSTANT Disks   \* skills directories: sequences of [name, files], files being
                 \* paths (sequences of names) in the order of read_dir

VARIABLE disk    \* the directory on the gateway's host

Hidden == {".git", "__pycache__"}
SkillMd == <<"SKILL.md">>

\* SkillsService::list with collect_files, hidden names skipped on every level.
List(d) ==
  LET files(s) == SelectSeq(s.files, LAMBDA p : Range(p) \cap Hidden = {})
      shown == SelectSeq(d, LAMBDA s : s.name \notin Hidden)
  IN  [i \in DOMAIN shown |-> [name |-> shown[i].name, files |-> files(shown[i])]]

-----------------------------------------------------------------------------
\* FsTree: inodes 1.., each a directory or a file, and path_to_inode.  A
\* node keeps its path; the code finds that of a directory by its inode.
EmptyTree == [nodes |-> << [kind |-> "dir", path |-> <<>>, kids |-> <<>>] >>]

Inodes(t, path) == {i \in DOMAIN t.nodes : t.nodes[i].kind = "dir" /\ t.nodes[i].path = path}

AddNode(t, kind, path, parent) ==
  LET ino == Len(t.nodes) + 1
      grown == Append(t.nodes, [kind |-> kind, path |-> path, kids |-> <<>>])
  IN  [nodes |-> [grown EXCEPT ![parent].kids = Append(@, ino)]]

\* Mutant of AddDir: a directory is made for every file in it.
AddDirAgain(s, path) == [tree |-> AddNode(s.tree, "dir", path, s.at), at |-> Len(s.tree.nodes) + 1]

\* One directory on the way to a file: found, or created under its parent.
AddDir(s, path) ==
  IF Inodes(s.tree, path) # {} THEN [tree |-> s.tree, at |-> CHOOSE i \in Inodes(s.tree, path) : TRUE]
  ELSE [tree |-> AddNode(s.tree, "dir", path, s.at), at |-> Len(s.tree.nodes) + 1]

AddFile(s, root, skill, file) ==
  LET dirs == [i \in 1..(Len(file) - 1) |-> <<skill>> \o SubSeq(file, 1, i)]
      at == FoldLeft(AddDir, [tree |-> s, at |-> root], dirs)
  IN  AddNode(at.tree, "file", <<skill>> \o file, at.at)

\* A skill: its directory, the listed files, and SKILL.md once more.
AddSkill(t, skill) ==
  LET root == Len(t.nodes) + 1
      empty == AddNode(t, "dir", <<skill.name>>, 1)
      full == FoldLeft(LAMBDA s, f : AddFile(s, root, skill.name, f), empty, skill.files)
  IN  AddFile(full, root, skill.name, SkillMd)

Mount(list) == FoldLeft(AddSkill, EmptyTree, list)

\* lookup: the first child with that base name, 0 for ENOENT.
Lookup(t, parent, name) ==
  LET kids == SelectSeq(IF parent = 0 THEN <<>> ELSE t.nodes[parent].kids,
                        LAMBDA i : Last(t.nodes[i].path) = name)
  IN  IF kids = <<>> THEN 0 ELSE Head(kids)

Walk(t, path) == FoldLeft(LAMBDA i, name : Lookup(t, i, name), 1, path)

\* readdir without "." and ".."
Readdir(t, ino) == [i \in DOMAIN t.nodes[ino].kids |-> Last(t.nodes[t.nodes[ino].kids[i]].path)]

-----------------------------------------------------------------------------
TreeInit == disk \in Disks

\* The mounted tree is the skills directory without its hidden parts: the path
\* of every visible file leads to that file, every path of the tree leads to a
\* visible file or its directory or to a skill's SKILL.md, and no directory
\* shows a name twice, except that SKILL.md appears a second time when it is
\* listed (mount adds it to a list that has it already).
TreeExact ==
  LET t == Mount(List(disk))
      visible == {<<s.name>> \o f : s \in {x \in Range(disk) : x.name \notin Hidden},
                                    f \in UNION {Range(x.files) : x \in Range(disk)}}
      listed == {p \in visible : /\ Range(p) \cap Hidden = {}
                                 /\ \E s \in Range(disk) : s.name = p[1] /\ Tail(p) \in Range(s.files)}
      md == {<<s.name>> \o SkillMd : s \in {x \in Range(disk) : x.name \notin Hidden}}
  IN  /\ \A p \in listed \cup md : LET n == Walk(t, p) IN n > 0 /\ t.nodes[n].kind = "file" /\ t.nodes[n].path = p
      /\ \A n \in DOMAIN t.nodes : \/ t.nodes[n].kind = "file" /\ t.nodes[n].path \in listed \cup md
                                   \/ \E p \in listed \cup md : IsStrictPrefix(t.nodes[n].path, p)
                                   \/ n = 1
      /\ \A n \in DOMAIN t.nodes :
           LET names == Readdir(t, n)
           IN  \A i, j \in DOMAIN names : i # j /\ names[i] = names[j] =>
                 names[i] = "SKILL.md" /\ t.nodes[n].path \o SkillMd \in listed
=============================================================================
