---------------------------- MODULE EntryPolicy ----------------------------
(***************************************************************************)
(* What a cache entry may write: the checks of taskcore/src/cache/          *)
(* archive.rs and cache/mod.rs (plan, check_entry, check_links, protects)   *)
(* and the confined writes of ocicas/src/restore.rs (components,            *)
(* check_unique, check_link_parents, resolve_link, open_parent, Tree), on   *)
(* unix.                                                                    *)
(*                                                                          *)
(* A path is a sequence of names below the project root.  A tree maps the   *)
(* paths that exist to nodes.  A link's target is a sequence of names, "."  *)
(* and "..", relative or (abs) rooted at the project; an absolute target    *)
(* that is not below the project has to = Elsewhere.                        *)
(***************************************************************************)
EXTENDS Naturals, Sequences, FiniteSets, SequencesExt

CONSTANTS
  Projects,      \* trees a restore can start from
  Archives,      \* sequences of entries [name, abs, node]
  Elsewhere,     \* an absolute target outside the project
  TempDir,       \* Task's own directory, a path
  TaskfilePaths, \* the Taskfiles and dotenv files read
  RootFiles,     \* the default Taskfile names and .taskrc.yml, files of the root
  WalkBudget,    \* PROTECT_WALK_BUDGET
  Generates,     \* the paths the task's generates match
  OutsideLinks,  \* cache: outside_links
  MaxHops        \* MAX_LINK_HOPS

VARIABLES disk,     \* the tree before the restore
          archive,  \* the entry being restored
          tree,     \* the tree now
          at,       \* entries written
          pc        \* "plan", "write", "done", "refused", "undone"; then, for the
                    \* entry saved from the tree: "saved", "taken", "lost"

vars == <<disk, archive, tree, at, pc>>

Dir == [kind |-> "dir"]
File(c) == [kind |-> "file", data |-> c]
Link(abs, to) == [kind |-> "link", abs |-> abs, to |-> to]

\* is_git_name, is_aside_name.
IsGit(n) == n = ".git"
IsAside(n) == n = ".task-restore-original"

(***************************************************************************)
(* Names and sets: restore.rs.                                             *)
(***************************************************************************)

\* components: "." and empty segments are dropped; an absolute name, one with
\* ".." and one that names nothing are refused.
ComponentsOk(e) == ~e.abs /\ ".." \notin Range(e.name) /\ \E n \in Range(e.name) : n \notin {".", ""}
Components(e) == SelectSeq(e.name, LAMBDA n : n \notin {".", ""})

Set(ar) == {Components(ar[i]) : i \in DOMAIN ar}
NodeAt(ar, p) == ar[CHOOSE i \in DOMAIN ar : Components(ar[i]) = p].node
Below(p, q) == Len(p) < Len(q) /\ IsPrefix(p, q)

\* check_unique.
CheckUnique(ar) == \A i, j \in DOMAIN ar : Components(ar[i]) = Components(ar[j]) => i = j

\* check_link_parents: no entry lies below a link of the set.
CheckLinkParents(ar) ==
  \A i, j \in DOMAIN ar :
    ar[i].node.kind = "link" => ~Below(Components(ar[i]), Components(ar[j]))

\* on_disk: what is at a path reached without following a link; "error" where
\* a parent is a link.
OnDisk(p) ==
  IF \E k \in 1..(Len(p) - 1) : LET q == SubSeq(p, 1, k)
                                IN  q \in DOMAIN disk /\ disk[q].kind = "link"
  THEN [kind |-> "error"]
  ELSE IF p \in DOMAIN disk THEN disk[p] ELSE [kind |-> "none"]

\* What resolve_link finds at a path once the set is in place.
Planned(ar, p) ==
  IF p \in Set(ar) THEN NodeAt(ar, p)
  ELSE IF \E q \in Set(ar) : Below(p, q) THEN Dir
  ELSE OnDisk(p)

Inside(p) == [where |-> "inside", path |-> p]
Outside == [where |-> "outside"]
Unresolved == [where |-> "error"]

\* A ".." from a directory that is not known to be real may lead anywhere.
LeavesBy(cur, known) == ~known \/ cur = <<>>

RECURSIVE Follow(_, _, _, _, _)

\* The loop of resolve_link: where the components in queue lead from cur.
Follow(ar, cur, queue, known, hops) ==
  IF queue = <<>> THEN Inside(cur)
  ELSE LET comp == Head(queue)
           rest == Tail(queue)
           cand == Append(cur, comp)
           node == Planned(ar, cand)
       IN  CASE comp \in {"", "."} -> Follow(ar, cur, rest, known, hops)
             [] comp = ".." ->
                  IF LeavesBy(cur, known) THEN Outside
                  ELSE Follow(ar, Front(cur), rest, known, hops)
             [] OTHER ->
                  CASE node.kind = "error" -> Unresolved
                    [] node.kind = "link" ->
                         IF hops = MaxHops THEN Unresolved
                         ELSE IF node.to = Elsewhere THEN Outside
                         ELSE IF node.abs
                         THEN Follow(ar, <<>>, node.to \o rest, known \/ cur # <<>>, hops + 1)
                         ELSE Follow(ar, cur, node.to \o rest, known, hops + 1)
                    [] OTHER -> Follow(ar, cand, rest, node.kind = "dir", hops)

\* resolve_link, for a link at p.
ResolveLink(ar, p, node) ==
  IF node.to = Elsewhere THEN Outside
  ELSE Follow(ar, IF node.abs THEN <<>> ELSE Front(p), node.to, TRUE, 0)

(***************************************************************************)
(* The task's policy: cache/mod.rs TaskRestore, archive.rs RestorePolicy.  *)
(***************************************************************************)

Covers(dest, p) == dest = p \/ Below(dest, p)

\* find_below, of a .git: what is on disk, no link followed.  More entries than it
\* may look at, or one it cannot read, are refused like a hit; here all are readable.
GitBelow(dest) ==
  LET below == {q \in DOMAIN disk : Below(dest, q)}
  IN  Cardinality(below) > WalkBudget \/ \E q \in below : IsGit(Last(q))

\* protects: the root, anything in or holding a .git, the temp dir, a file
\* Task reads, or a directory above one, or would read if it were in the root.
Protects(dest) ==
  \/ dest = <<>>
  \/ \E n \in Range(dest) : IsGit(n)
  \/ Covers(dest, TempDir) \/ Covers(TempDir, dest)
  \/ \E t \in TaskfilePaths : Covers(dest, t)
  \/ dest \in {<<n>> : n \in RootFiles}
  \/ GitBelow(dest)

\* check_entry.
CheckEntry(p) ==
  /\ \A n \in Range(p) : ~IsAside(n) /\ ~IsGit(n)
  /\ p \in Generates

\* check_links: an absolute link is refused even inside the project.
CheckLink(ar, p, node) ==
  LET to == ResolveLink(ar, p, node)
  IN  /\ OutsideLinks \/ ~(node.abs \/ node.to = Elsewhere)
      /\ CASE to.where = "error" -> FALSE
           [] to.where = "outside" -> OutsideLinks
           [] to.where = "inside" -> ~Protects(to.path)

CheckLinks(ar) ==
  \A i \in DOMAIN ar :
    ar[i].node.kind = "link" => CheckLink(ar, Components(ar[i]), ar[i].node)

\* plan (a zip) and vet_oci (an artifact): every check, before anything is
\* written.
Accepted(ar) ==
  /\ \A i \in DOMAIN ar : ComponentsOk(ar[i]) /\ CheckEntry(Components(ar[i]))
  /\ CheckLinkParents(ar) /\ CheckUnique(ar) /\ CheckLinks(ar)

(***************************************************************************)
(* The kernel, as reference: where a path leads in a tree that is there.   *)
(***************************************************************************)
RECURSIVE Kernel(_, _, _, _)
Kernel(t, cur, queue, hops) ==
  IF queue = <<>> THEN Inside(cur)
  ELSE LET comp == Head(queue)
           cand == Append(cur, comp)
           node == IF cand \in DOMAIN t THEN t[cand] ELSE [kind |-> "none"]
       IN  CASE comp \in {"", "."} -> Kernel(t, cur, Tail(queue), hops)
             [] comp = ".." -> IF cur = <<>> THEN Outside
                               ELSE Kernel(t, Front(cur), Tail(queue), hops)
             [] node.kind = "link" /\ hops = MaxHops -> Unresolved
             [] node.kind = "link" /\ hops < MaxHops ->
                  IF node.to = Elsewhere THEN Outside
                  ELSE Kernel(t, IF node.abs THEN <<>> ELSE cur, node.to \o Tail(queue), hops + 1)
             [] node.kind = "file" /\ Len(queue) > 1 -> Unresolved
             [] OTHER -> Kernel(t, cand, Tail(queue), hops)

(***************************************************************************)
(* Writing: Tree.                                                          *)
(***************************************************************************)

Put(t, p, node) == [q \in DOMAIN t \union {p} |-> IF q = p THEN node ELSE t[q]]
Ancestors(p) == {SubSeq(p, 1, k) : k \in 1..(Len(p) - 1)}
With(t, dirs) == [q \in DOMAIN t \union dirs |-> IF q \in DOMAIN t THEN t[q] ELSE Dir]

\* The mutant of ParentOpens: a link on the way is followed.
ParentOpens_Following(t, p) == TRUE

\* open_parent: every parent is a real directory, or is made one.
ParentOpens(t, p) == \A q \in Ancestors(p) : q \in DOMAIN t => t[q].kind = "dir"

\* Tree.dir, Tree.symlink, Tree.file: a directory in the way of anything but a
\* directory is an error; a file or link there is replaced by a fresh one.
CanWrite(t, p, node) ==
  /\ ParentOpens(t, p)
  /\ node.kind # "dir" => ~(p \in DOMAIN t /\ t[p].kind = "dir")
Written(t, p, node) ==
  LET made == With(t, Ancestors(p))
      dir == Kernel(made, <<>>, Front(p), 0)
  IN  IF dir.where = "inside" THEN Put(made, Append(dir.path, Last(p)), node) ELSE made

Init ==
  /\ disk \in Projects /\ archive \in Archives
  /\ tree = disk /\ at = 0 /\ pc = "plan"

\* extract_archive, assemble: vet, then write.
Plan ==
  /\ pc = "plan"
  /\ pc' = IF Accepted(archive) THEN "write" ELSE "refused"
  /\ UNCHANGED <<disk, archive, tree, at>>

\* write_entry, write_files: the next entry, in the archive's order.
WriteEntry ==
  LET e == archive[at + 1]
      p == Components(e)
  IN  /\ pc = "write" /\ at < Len(archive) /\ CanWrite(tree, p, e.node)
      /\ tree' = Written(tree, p, e.node) /\ at' = at + 1
      /\ UNCHANGED <<disk, archive, pc>>

\* A failed write takes out what was written (RestoreJournal).
FailEntry ==
  /\ pc = "write" /\ at < Len(archive)
  /\ ~CanWrite(tree, Components(archive[at + 1]), archive[at + 1].node)
  /\ tree' = disk /\ pc' = "undone"
  /\ UNCHANGED <<disk, archive, at>>

Finish ==
  /\ pc = "write" /\ at = Len(archive)
  /\ pc' = "done"
  /\ UNCHANGED <<disk, archive, tree, at>>

(***************************************************************************)
(* Saving: cache_save, save_file, write_archive.                           *)
(***************************************************************************)

\* The generated files of a tree, less the ones split_unrestorable leaves out.
Restorable(p) == \A n \in Range(p) : ~IsAside(n) /\ ~IsGit(n)
CacheFiles(t) == {p \in Generates \intersect DOMAIN t : t[p].kind # "dir" /\ Restorable(p)}

\* write_archive, build: the files, sorted by path, each named by its
\* components and holding its node.
EntriesOf(t, files) ==
  LET order == SetToSeq(files)
  IN  [i \in DOMAIN order |-> [name |-> order[i], abs |-> FALSE, node |-> t[order[i]]]]

\* links_of: what cache_save checks before it saves is the links alone.
LinksOf(ar) == SelectSeq(ar, LAMBDA e : e.node.kind = "link")

\* Tree::matches, matches_disk: kind, target or content, and mode.
MatchesDisk(t, e) == t[Components(e)] = e.node

\* archive_matches: exactly these files, each as it is in the tree.
ArchiveMatches(t, ar, files) ==
  /\ Set(ar) \subseteq files /\ \A i \in DOMAIN ar : MatchesDisk(t, ar[i])
  /\ \A p \in files : p \in Set(ar) \/ t[p].kind = "dir"

\* The restored tree is built on and saved, unless the entry holds it already
\* or the restore would refuse its links.
Save ==
  LET ar == EntriesOf(tree, CacheFiles(tree))
  IN  /\ pc = "done" /\ ar # <<>>
      /\ ~ArchiveMatches(tree, archive, CacheFiles(tree))
      /\ disk' = tree /\ at' = 0 /\ UNCHANGED tree
      /\ archive' = ar
      /\ pc' = "saved"

\* The next run of the task restores what was saved: onto the same tree.
RestoreSaved ==
  /\ pc = "saved" /\ CheckLinks(LinksOf(archive))
  /\ pc' = IF Accepted(archive) THEN "taken" ELSE "lost"
  /\ UNCHANGED <<disk, archive, tree, at>>

Next == Plan \/ WriteEntry \/ FailEntry \/ Finish \/ Save \/ RestoreSaved
Spec == Init /\ [][Next]_vars

(***************************************************************************)
(* Properties.                                                             *)
(***************************************************************************)

\* A command writing through a link there could rewrite what Task, or git,
\* trusts: stated on the tree as it is, not as it was planned.
Rewrites(t, path) ==
  path \in {<<n>> : n \in RootFiles} \/ \E q \in DOMAIN t \union TaskfilePaths \union {TempDir} :
    /\ q \in TaskfilePaths \/ Covers(TempDir, q) \/ \E n \in Range(q) : IsGit(n)
    /\ Covers(path, q) \/ (Covers(q, path) /\ q \notin TaskfilePaths)

\* Once a set is written, every link of it leads, as the kernel follows it
\* through the new links and those that were there, to a path in the project
\* that is not protected (schema.md: links "leading outside the project" or
\* to what Task reads are refused).
LinksConfined ==
  pc = "done" =>
    \A p \in Set(archive) :
      tree[p].kind = "link" =>
        LET to == Kernel(tree, <<>>, p, 0)
        IN  \/ to.where = "inside" /\ ~Rewrites(tree, to.path)
            \/ to.where = "outside" /\ OutsideLinks
            \/ to.where = "error"

\* A restore changes nothing but the names its entries have (and makes the
\* directories above them): no entry is written through a link, on disk or of
\* the set itself, whatever order they come in.
OnlyItsNames ==
  \A q \in DOMAIN tree :
    q \notin DOMAIN disk \/ tree[q] # disk[q] =>
      \/ q \in Set(archive) /\ q \in Generates
      \/ tree[q].kind = "dir" /\ \E p \in Set(archive) : Below(q, p)

\* A save that is not skipped is one its own restore accepts, as cache_save's
\* comment has it: "An entry whose links its restore would refuse would only
\* ever miss."
SavedIsTaken == pc # "lost"
=============================================================================
