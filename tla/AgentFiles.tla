----------------------------- MODULE AgentFiles -----------------------------
(***************************************************************************)
(* fs/copy, fs/remove, fs/createDirectory and fs/writeFile of the agent    *)
(* (nexal-agent/src/fs/local.rs behind server/services/file_system.rs), as *)
(* functions on a file system with directories, files and symbolic links.  *)
(* How the operating system follows links is external.                     *)
(*                                                                         *)
(* A file system maps the paths that exist (sequences of names, the root   *)
(* being <<>>) to nodes; a link holds the path it points to.               *)
(***************************************************************************)
EXTENDS Naturals, Sequences, SequencesExt, FiniteSetsExt

CONSTANTS Trees,      \* file systems to start from
          Targets,    \* paths the operations are called with
          Fuel        \* bound on links followed and on nested directories

VARIABLES files,      \* the file system of the sandbox
          done        \* the last operation: what it was, and files before it

Dir == [k |-> "dir", v |-> <<>>]
Names == {"a", "b"}
Under(p, q) == IsPrefix(p, q)
SetNode(f, p, node) == [q \in DOMAIN f \cup {p} |-> IF q = p THEN node ELSE f[q]]

-----------------------------------------------------------------------------
(* The operating system.                                                    *)

RECURSIVE Canon(_, _, _)

\* The real path of p in a singleton, or {} when it does not exist.
Canon(f, p, fuel) ==
  IF p = <<>> THEN {<<>>} ELSE IF fuel = 0 THEN {}
  ELSE UNION {LET q == Append(d, Last(p))
              IN  IF q \notin DOMAIN f THEN {}
                  ELSE IF f[q].k = "link" THEN Canon(f, f[q].v, fuel - 1) ELSE {q} : d \in Canon(f, Front(p), fuel)}

Real(f, p) == Canon(f, p, Fuel)

\* Where p itself is, its last name not followed; {} without a directory for it.
Place(f, p) == {Append(d, Last(p)) : d \in {x \in Real(f, Front(p)) : f[x].k = "dir"}}

RECURSIVE OpenAt(_, _, _)

\* The file that opening p for writing gives, which may have to be made.
OpenAt(f, p, fuel) ==
  UNION {IF q \notin DOMAIN f \/ f[q].k = "file" THEN {q}
         ELSE IF f[q].k = "link" /\ fuel > 0 THEN OpenAt(f, f[q].v, fuel - 1) ELSE {} : q \in Place(f, p)}

RECURSIVE MkdirAll(_, _)

\* create_dir_all, {} when a file or a dangling link is in the way.
MkdirAll(f, p) ==
  IF \E q \in Real(f, p) : f[q].k = "dir" THEN {f} ELSE IF p = <<>> THEN {}
  ELSE UNION {{SetNode(g, q, Dir) : q \in Place(g, p) \ DOMAIN g} : g \in MkdirAll(f, Front(p))}

-----------------------------------------------------------------------------
(* local.rs.  An operation gives [fs, ok]; a failed one may have changed    *)
(* part of the file system.                                                 *)

Fail(f) == [fs |-> f, ok |-> FALSE]
Done(f) == [fs |-> f, ok |-> TRUE]
The(S) == CHOOSE x \in S : TRUE

\* std::fs::copy: the target is truncated before the source is read.
CopyFile(f, s, d) ==
  LET t == OpenAt(f, d, Fuel)
  IN  IF t = {} THEN Fail(f)
      ELSE LET cut == SetNode(f, The(t), [k |-> "file", v |-> <<>>]) IN Done(SetNode(cut, The(t), cut[s]))

CopySymlink(f, s, d) ==
  LET t == Place(f, d) \ DOMAIN f IN IF t = {} THEN Fail(f) ELSE Done(SetNode(f, The(t), f[s]))

\* How read_dir lists a directory: in any order, and with or without the entries
\* that are made while it is read.
Walks == [order : SetToSeqs(Names), fresh : BOOLEAN]

RECURSIVE CopyDirRecursive(_, _, _, _, _)

\* s is a real path; the first error ends the copy.
CopyDirRecursive(f, s, d, walk, fuel) ==
  LET made == MkdirAll(f, d)
      step(r, n) ==
        LET from == Append(s, n)
            to == Append(d, n)
            listed == from \in DOMAIN (IF walk.fresh THEN r.fs ELSE The(made))
        IN  IF ~r.ok \/ ~listed THEN r
            ELSE CASE r.fs[from].k = "dir" -> CopyDirRecursive(r.fs, from, to, walk, fuel - 1)
                   [] r.fs[from].k = "file" -> CopyFile(r.fs, from, to)
                   [] OTHER -> CopySymlink(r.fs, from, to)
  IN  IF made = {} \/ fuel = 0 THEN Fail(f) ELSE FoldLeft(step, Done(The(made)), walk.order)

\* resolve_copy_destination_path: the longest prefix that exists, resolved,
\* and the rest of the path as it is.
ResolveDestination(f, d) ==
  LET k == Max({i \in 0..Len(d) : Real(f, SubSeq(d, 1, i)) # {}})
  IN  The(Real(f, SubSeq(d, 1, k))) \o SubSeq(d, k + 1, Len(d))

\* Mutant of WithinSource: the destination is compared as it was written.
WithinSourceAsWritten(f, s, d) == Under(s, d)

\* destination_is_same_or_descendant_of_source
WithinSource(f, s, d) == Under(s, ResolveDestination(f, d))

\* copy
Copy(f, src, dst, recursive, walk) ==
  LET at == Place(f, src) \cap DOMAIN f
      s == The(at)
  IN  IF at = {} THEN Fail(f)
      ELSE CASE f[s].k = "dir" -> IF ~recursive \/ WithinSource(f, s, dst) THEN Fail(f)
                                ELSE CopyDirRecursive(f, s, dst, walk, Fuel)
             [] f[s].k = "link" -> CopySymlink(f, s, dst)
             [] OTHER -> CopyFile(f, s, dst)

\* remove (recursive, force: the service's defaults); a link is not followed.
RemovePath(f, p) ==
  LET at == Place(f, p) \cap DOMAIN f
  IN  IF at = {} THEN Done(f) ELSE Done([q \in {x \in DOMAIN f : ~Under(The(at), x)} |-> f[q]])

-----------------------------------------------------------------------------
FilesInit == files \in Trees /\ done = [op |-> "none", src |-> <<>>, dst |-> <<>>, old |-> files]

FsOp(op, src, dst, res) ==
  /\ done.op = "none"
  /\ files' = res.fs /\ done' = [op |-> op, src |-> src, dst |-> dst, old |-> files]

FsCopy(src, dst, recursive, walk) == FsOp("copy", src, dst, Copy(files, src, dst, recursive, walk))
FsWriteFile(p) ==
  LET t == OpenAt(files, p, Fuel)
  IN  FsOp("write", p, p, IF t = {} THEN Fail(files) ELSE Done(SetNode(files, The(t), [k |-> "file", v |-> <<"new">>])))
FsRemove(p) == FsOp("remove", p, p, RemovePath(files, p))
FsCreateDirectory(p) ==
  LET made == MkdirAll(files, p) IN FsOp("mkdir", p, p, IF made = {} THEN Fail(files) ELSE Done(The(made)))

FilesNext == \/ \E p, q \in Targets, r \in BOOLEAN, w \in Walks : FsCopy(p, q, r, w)
             \/ \E p \in Targets : FsRemove(p) \/ FsCreateDirectory(p) \/ FsWriteFile(p)

-----------------------------------------------------------------------------
\* Paths an operation changed.
Changed == {p \in DOMAIN files \cup DOMAIN done.old :
              ~ (p \in DOMAIN files /\ p \in DOMAIN done.old /\ files[p] = done.old[p])}

\* What is below d in the path s lies below s as well: the entry of s whose copy at d
\* is s itself.
HoldsOwnName(f, s, d) == Under(d, s) /\ s \o SubSeq(s, Len(d) + 1, Len(s)) \in DOMAIN f

\* A copy writes only at its destination, and where a link found at or below the
\* destination leads to.  It writes into its source only through such a link, when
\* the destination is above the source and the source holds an entry of its own name,
\* whose copy is the source (destination_is_same_or_descendant_of_source looks for a
\* destination in the source alone), or when a file is copied onto itself, which
\* empties it.  Removing a path takes what is at and below it and nothing else, a link
\* without what it leads to; a write changes one file, and creating a directory
\* nothing that exists.
Footprint ==
  LET old == done.old
      dst == ResolveDestination(old, done.dst)
      src == Place(old, done.src)
      led == {ResolveDestination(old, old[l].v) : l \in {l \in DOMAIN old : old[l].k = "link" /\ Under(dst, l)}}
      onto(p) == Under(dst, p) \/ Under(p, dst)
  IN  CASE done.op = "copy" ->
             \A p \in Changed :
               \/ \E t \in led : Under(t, p) \/ Under(p, t)
               \/ onto(p) /\ \A s \in src : Under(s, p) => HoldsOwnName(old, s, dst)
               \/ src = {dst} /\ p = dst /\ old[dst].k = "file"
        [] done.op = "remove" -> \A p \in Changed : p \notin DOMAIN files /\ \E q \in src : Under(q, p)
        [] done.op = "write" -> \A p, q \in Changed : p = q
        [] OTHER -> Changed \cap DOMAIN old = {}
=============================================================================
