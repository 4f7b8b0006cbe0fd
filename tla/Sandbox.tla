------------------------------ MODULE Sandbox ------------------------------
(***************************************************************************)
(* The rules of a sandboxed task and the two ways they are enforced:        *)
(* taskcore/src/sandbox/policy.rs (Policy::build, Walker, beneath,          *)
(* CreatedDir), landlock.rs (ruleset), the path checks of seccomp.rs (find, *)
(* walk, accesses, judge) and executor/run.rs (sandbox_policy).             *)
(*                                                                          *)
(* A path is a sequence of names from "/".  fs maps the paths that exist to *)
(* nodes [kind, ino, abs, to]: to is a link's target, from "/" when abs.    *)
(* The kernel side (KFind, KernelAnswer) is external: how Linux looks a path up and   *)
(* where Landlock's hooks are, which the supervisor has to reproduce.       *)
(* Mounts, /proc links and pre-existing hard links are left out.            *)
(***************************************************************************)
EXTENDS Naturals, Sequences, FiniteSets, SequencesExt, FiniteSetsExt

CONSTANTS
  Trees,    \* file systems a run starts from
  Tasks,    \* sandboxed tasks: [sources, reads, plain, writes, grants, temp, generates]
  Wild,     \* names with a wildcard in them
  Root,     \* the root directory's path
  Calls,    \* system calls the commands make
  Held,     \* bound: those of them that may be slow to follow their check, one in a run
  Cwd,      \* the commands' working directory
  MaxLinks, \* MAX_LINKS
  MaxMoves  \* bound: changes the commands make

VARIABLES fs,      \* the file system
          input,   \* the PolicyInput
          rules,   \* Policy::by_path
          created, \* Policy::created: set of [path, ino]
          ruleset, \* Landlock's rules, by the kernel's ABI: inode -> rights
          late,    \* a call the supervisor lets through and that is made later:
                   \* [stage, call, raced], raced when it was denied by then
          phase,   \* "build", "rules", "run", "over", "failed"
          before,  \* the file system the build started from
          moves    \* changes made so far

vars == <<fs, input, rules, created, ruleset, late, phase, before, moves>>

(***************************************************************************)
(* Paths and the file system.                                              *)
(***************************************************************************)
None == <<"missing">>  \* no path: its name is none of the file systems'
Parent(p) == IF p = <<>> THEN <<>> ELSE Front(p)
Children(f, d) == {p \in DOMAIN f : p # <<>> /\ Front(p) = d}
\* A number of an inode that is gone may be given again, but for one a rule is on.
Fresh(f) == 1 + Max({f[p].ino : p \in DOMAIN f} \union UNION {DOMAIN ruleset[v] : v \in DOMAIN ruleset})
Dir(i) == [kind |-> "dir", ino |-> i, abs |-> TRUE, to |-> <<>>]
File(i) == [kind |-> "file", ino |-> i, abs |-> TRUE, to |-> <<>>]
Link(i, abs, to) == [kind |-> "link", ino |-> i, abs |-> abs, to |-> to]
With(f, p, n) == [q \in DOMAIN f \union {p} |-> IF q = p THEN n ELSE f[q]]
Without(f, p) == [q \in {r \in DOMAIN f : ~IsPrefix(p, r)} |-> f[q]]

(***************************************************************************)
(* External: how the kernel looks names up, by recursion on their prefixes. *)
(* h is [top, how]: the directory that is "/", and openat2's resolve flags. *)
(***************************************************************************)
RECURSIVE KReal(_, _, _, _, _)
KStep(f, h, d, n, links) ==
  LET l == f[Append(d, n)]
  IN  IF d = None THEN None
      ELSE IF f[d].kind # "dir" THEN None
      ELSE IF n = "." THEN d
      ELSE IF n = ".." THEN (IF d # h.top THEN Parent(d) ELSE IF "beneath" \in h.how THEN None ELSE d)
      ELSE IF Append(d, n) \notin DOMAIN f THEN None
      ELSE IF l.kind # "link" THEN Append(d, n)
      ELSE IF links = 0 \/ "no_symlinks" \in h.how \/ (l.abs /\ "beneath" \in h.how) THEN None
      ELSE KReal(f, h, IF l.abs THEN h.top ELSE d, l.to, links - 1)
KReal(f, h, base, names, links) ==
  IF names = <<>> THEN base ELSE KStep(f, h, KReal(f, h, base, Front(names), links), Last(names), links)

\* canonicalize: the path p, absolute, without links; None when it is missing.
Canonical(f, p) == KReal(f, [top |-> <<>>, how |-> {}], <<>>, p, MaxLinks)

\* External: what a call's path [abs, names, slash] names: an entry, a missing
\* name in a directory, or nothing.  how has "follow" when the last link is
\* followed, "entry" when the path must name an entry of its own.
RECURSIVE KEntry(_, _, _, _, _)
KLast(f, h, base, names, links) ==
  IF names = <<>> THEN KEntry(f, h, base, ".", links)
  ELSE KEntry(f, h, KReal(f, h, base, Front(names), MaxLinks), Last(names), links)
KEntry(f, h, dir, name, links) ==
  LET at == Append(dir, name)
  IN  IF dir = None THEN [found |-> "fails", at |-> <<>>]
      ELSE IF f[dir].kind # "dir" THEN [found |-> "fails", at |-> <<>>]
      ELSE IF name \in {".", ".."}
      THEN LET d == KStep(f, h, dir, name, links)
           IN  IF d = None \/ "entry" \in h.how THEN [found |-> "fails", at |-> <<>>] ELSE [found |-> "entry", at |-> d]
      ELSE IF at \notin DOMAIN f THEN [found |-> "missing", at |-> dir]
      ELSE IF f[at].kind # "link" \/ "follow" \notin h.how THEN [found |-> "entry", at |-> at]
      ELSE IF links = 0 \/ "no_symlinks" \in h.how \/ (f[at].abs /\ "beneath" \in h.how) THEN [found |-> "fails", at |-> <<>>]
      ELSE KLast(f, h, IF f[at].abs THEN h.top ELSE dir, f[at].to, links - 1)
KFind(f, a, how) ==
  LET top == IF how \intersect {"in_root", "beneath"} # {} THEN Cwd ELSE <<>>
  IN  IF (a.abs /\ "beneath" \in how) \/ (~a.abs /\ a.names = <<>>) THEN [found |-> "fails", at |-> <<>>]
      ELSE KLast(f, [top |-> top, how |-> how], IF a.abs THEN top ELSE Cwd, a.names, MaxLinks)

(***************************************************************************)
(* Rights and rules: policy.rs, access.                                    *)
(***************************************************************************)
MakeRight(kind) == IF kind = "dir" THEN "make_dir" ELSE IF kind = "link" THEN "make_sym" ELSE "make_reg"
RemoveRight(kind) == IF kind = "dir" THEN "remove_dir" ELSE "remove_file"
FileRights == {"execute", "write_file", "read_file", "truncate"}
All == FileRights \union {"read_dir", "make_dir", "make_reg", "make_sym", "remove_dir", "remove_file", "refer"}
Read == {"read_file", "execute"}

\* resolved: links of the longest existing ancestor resolved, the rest appended.
Resolved(f, p) ==
  LET k == CHOOSE k \in 0..Len(p) : /\ Canonical(f, SubSeq(p, 1, k)) # None
                                    /\ \A j \in (k + 1)..Len(p) : Canonical(f, SubSeq(p, 1, j)) = None
  IN  Canonical(f, SubSeq(p, 1, k)) \o SubSeq(p, k + 1, Len(p))

\* create_dir_all: every missing name on the way, until a file or a dangling
\* link is in the way.
RECURSIVE CreateAll(_, _)
CreateAll(f, p) ==
  LET up == CreateAll(f, Front(p))
      at == Canonical(up.fs, Front(p))
      real == Canonical(up.fs, p)
      no == [fs |-> up.fs, ok |-> FALSE]
  IN  IF p = <<>> THEN [fs |-> f, ok |-> TRUE]
      ELSE IF ~up.ok \/ (real # None /\ up.fs[real].kind = "dir") THEN up
      ELSE IF real # None \/ at = None \/ Last(p) = ".." THEN no
      ELSE IF up.fs[at].kind # "dir" \/ Append(at, Last(p)) \in DOMAIN up.fs THEN no
      ELSE [fs |-> With(up.fs, Append(at, Last(p)), Dir(Fresh(up.fs))), ok |-> TRUE]

\* missing_ancestors: none for a path through "..".
MissingAncestors(f, p) ==
  IF ".." \in Range(p) THEN {}
  ELSE {q \in Prefixes(p) : q # <<>> /\ LET d == Canonical(f, Front(q))
                                        IN  d = None \/ Append(d, Last(q)) \notin DOMAIN f}

\* beneath: the file system after it, and the directory; None when it is the
\* root or above it.
Above(p) == IsPrefix(p, Root)
Beneath(f, p) ==
  IF Above(Resolved(f, p)) THEN [fs |-> f, dir |-> None, ok |-> TRUE]
  ELSE LET g == CreateAll(f, p)
           real == Canonical(g.fs, p)
       IN  [fs |-> g.fs, dir |-> IF ~g.ok \/ Above(real) THEN None ELSE real, ok |-> g.ok]

\* unrestricted: outside the root, below an entry of an ancestor that exists.
Unrestricted(f, p) ==
  LET real == Resolved(f, p)
      k == CHOOSE k \in 0..Len(Root) : IsPrefix(SubSeq(Root, 1, k), real)
             /\ \A j \in (k + 1)..Len(Root) : ~IsPrefix(SubSeq(Root, 1, j), real)
  IN  /\ ~IsPrefix(Root, real) /\ ~Above(real) /\ ".." \notin Range(real)
      /\ SubSeq(real, 1, k + 1) \in DOMAIN f

\* One granted directory of Policy::build: Created::grant records what it made.
GrantAt(s, p, b, recorded) ==
  LET new == IF recorded THEN {Canonical(b.fs, q) : q \in MissingAncestors(s.fs, p)} \ {None} ELSE {}
  IN  IF ~s.ok THEN s
      ELSE [fs |-> b.fs, ok |-> b.ok,
            writable |-> s.writable \union ({b.dir} \ {None}),
            created |-> s.created \union {[path |-> q, ino |-> b.fs[q].ino] : q \in new}]

Grant(s, p, recorded) == GrantAt(s, p, Beneath(s.fs, p), recorded)

Granted(s, in) ==
  LET declared == FoldLeft(LAMBDA a, p : Grant(a, p, TRUE), s, in.declared)
      own      == FoldLeft(LAMBDA a, p : Grant(a, p, FALSE), declared, in.own)
  IN  FoldLeft(LAMBDA a, p : IF Unrestricted(a.fs, p) THEN a ELSE Grant(a, p, TRUE), own, in.generated)

(***************************************************************************)
(* sandbox_policy: what a task declares, as the input of Policy::build.  A  *)
(* glob is [negate, value, files, prints]: the files it matches, and those  *)
(* its `fingerprint` names in their place.                                  *)
(***************************************************************************)
\* declared_files: the files and their fingerprints, less the exclusions.
DeclaredFiles(globs) ==
  LET files(g) == g.files \union g.prints
      of(negated) == UNION {files(g) : g \in {h \in globs : ~h.value /\ h.negate = negated}}
  IN  of(FALSE) \ of(TRUE)

\* generated_dir: what is before the first wildcard, or the file's directory.
GeneratedDir(p) ==
  LET wild == {k \in DOMAIN p : p[k] \in Wild}
  IN  IF wild = {} THEN Parent(p) ELSE SubSeq(p, 1, Min(wild) - 1)
GeneratedDirs(paths) == [k \in DOMAIN paths |-> GeneratedDir(paths[k])]

\* plain: the Taskfiles and dotenv files; grants: what the tasks that
\* `sandbox.writes` names declare, of kind "dotenv", "writes" or "generates".
PolicyInput(t) ==
  LET of(kind) == LET gs == SelectSeq(t.grants, LAMBDA g : g.kind = kind)
                  IN  [k \in DOMAIN gs |-> gs[k].path]
  IN  [readable  |-> DeclaredFiles(t.sources) \union DeclaredFiles(t.reads) \union t.plain \union Range(of("dotenv")),
       declared  |-> t.writes \o of("writes"),
       own       |-> t.temp,
       generated |-> GeneratedDirs(t.generates) \o GeneratedDirs(of("generates"))]

\* canonical_file: the readable files that exist, by real path.
Readable(f, in) == {Canonical(f, p) : p \in in.readable} \ {None}

(***************************************************************************)
(* Walker: the rules beneath a directory, and whether it may be changed     *)
(* freely.  A directory with nothing readable beneath (walk_unread) has no  *)
(* rules of its own.                                                        *)
(***************************************************************************)
NoRules == [p \in {} |-> {}]
RECURSIVE WalkDir(_, _, _, _)
WalkDir(f, readable, writable, d) ==
  LET free == [free |-> TRUE, rules |-> NoRules]
      interesting == \E p \in readable \union writable : IsPrefix(d, p) /\ p # d
      kids == {p \in Children(f, d) : f[p].kind # "link"}
      dirs == {p \in kids : f[p].kind = "dir"}
      sub  == [p \in dirs |-> WalkDir(f, readable, writable, p)]
      files == kids \ dirs
      allFree == (\A p \in dirs : sub[p].free) /\ files \subseteq readable
      own == [p \in {q \in dirs : sub[q].free} |-> All] @@ [p \in files \intersect readable |-> Read]
      inner == UNION {DOMAIN sub[p].rules : p \in {q \in dirs : ~sub[q].free}}
  IN  IF d \in writable THEN free
      ELSE IF ~interesting THEN [free |-> files = {} /\ \A p \in dirs : sub[p].free, rules |-> NoRules]
      ELSE [free  |-> allFree,
            rules |-> own @@ [p \in inner |-> sub[CHOOSE q \in dirs : IsPrefix(q, p)].rules[p]]]

\* outside_rules: everything beside the root's ancestors; links are skipped.
OutsideRules(f) ==
  LET above == Prefixes(Root) \ {Root}
      beside == {p \in UNION {Children(f, d) : d \in above} : ~IsPrefix(p, Root) /\ f[p].kind # "link"}
  IN  [p \in above |-> {"read_dir"}] @@ [p \in beside |-> IF f[p].kind = "dir" THEN All ELSE FileRights]

\* Mutant: the root is a directory like any other, freed when all in it is readable.
RulesOf_FreeRoot(f, readable, writable) ==
  LET w == WalkDir(f, readable, writable, Root)
  IN  (Root :> IF w.free THEN All ELSE {"read_dir"}) @@ w.rules @@ OutsideRules(f)
\* The root itself only lists.
RulesOf(f, readable, writable) ==
  (Root :> {"read_dir"}) @@ WalkDir(f, readable, writable, Root).rules @@ OutsideRules(f)

\* granted, allows, refers: by path, of what the rules on it and above it give.
GrantedTo(p) == UNION {rules[q] : q \in Prefixes(p) \intersect DOMAIN rules}
Allows(p, need) == need \subseteq GrantedTo(p)
Refers(from, to, dir) ==
  \/ from = to
  \/ /\ "refer" \in GrantedTo(from) \intersect GrantedTo(to)
     /\ GrantedTo(to) \intersect (IF dir THEN All ELSE FileRights) \subseteq GrantedTo(from)

(***************************************************************************)
(* ruleset: a rule is put on the inode now at the path, a link gets none.   *)
(* handled: ABI 2, the least that is used, does not know of truncate.       *)
(***************************************************************************)
Abis == {2, 3}
Handled(abi) == IF abi <= 2 THEN All \ {"truncate"} ELSE All
RulesetOf(f, abi) ==
  LET at(i) == {p \in DOMAIN rules \intersect DOMAIN f : f[p].ino = i}
      given(p) == IF f[p].kind = "link" THEN {}
                  ELSE Handled(abi) \intersect (IF f[p].kind = "dir" THEN rules[p] ELSE rules[p] \intersect FileRights)
  IN  [i \in {f[p].ino : p \in DOMAIN rules \intersect DOMAIN f} |-> UNION {given(p) : p \in at(i)}]

\* External: the rights Landlock gives at a path, from the inodes on the way.
LandlockGrants(abi, p) ==
  UNION {ruleset[abi][i] : i \in {fs[q].ino : q \in Prefixes(p)} \intersect DOMAIN ruleset[abi]}
LandlockRefers(abi, from, to, dir) ==
  from = to \/ (/\ "refer" \in LandlockGrants(abi, from) \intersect LandlockGrants(abi, to)
                /\ LandlockGrants(abi, to) \intersect (IF dir THEN All ELSE FileRights) \subseteq LandlockGrants(abi, from))

(***************************************************************************)
(* The supervisor: walk resolves a call's path one name at a time.  A       *)
(* lookup error of ".." itself is not one the kernel is left to make.       *)
(***************************************************************************)
Fails == [found |-> "fails", at |-> <<>>]
Unchecked == [found |-> "unchecked", at |-> <<>>]
RECURSIVE Walk(_, _, _, _, _)
Walk(how, top, cur, todo, links) ==
  LET n == Head(todo)
      last == Len(todo) = 1
      at == Append(cur, n)
      l == fs[at]
  IN  IF todo = <<>> THEN [found |-> "entry", at |-> cur]
      ELSE IF n = ".." THEN
        IF cur = top THEN (IF "beneath" \in how THEN Fails ELSE Walk(how, top, cur, Tail(todo), links))
        ELSE IF fs[cur].kind # "dir" THEN Unchecked
        ELSE Walk(how, top, Parent(cur), Tail(todo), links)
      ELSE IF fs[cur].kind # "dir" THEN Fails
      ELSE IF at \notin DOMAIN fs THEN (IF last THEN [found |-> "missing", at |-> cur] ELSE Fails)
      ELSE IF l.kind = "link" /\ ("follow" \in how \/ ~last) THEN
        IF links = MaxLinks \/ "no_symlinks" \in how \/ (l.abs /\ "beneath" \in how) THEN Fails
        ELSE Walk(how, top, IF l.abs THEN top ELSE cur, l.to \o Tail(todo), links + 1)
      ELSE IF last THEN [found |-> "entry", at |-> at]
      ELSE Walk(how, top, at, Tail(todo), links)

\* find, names_no_entry and push_components ("." is dropped).
Find(a, how) ==
  LET names == SelectSeq(a.names, LAMBDA n : n # ".")
      base  == IF ~a.abs \/ how \intersect {"in_root", "beneath"} # {} THEN Cwd ELSE <<>>
      top   == IF how \intersect {"in_root", "beneath"} # {} THEN base ELSE <<>>
      start == IF a.abs THEN top ELSE base
  IN  IF "entry" \in how /\ (a.names = <<>> \/ Last(a.names) \in {".", ".."}) THEN Fails
      ELSE IF "beneath" \in how /\ a.abs THEN Fails
      ELSE IF a.names = <<>> /\ ~a.abs THEN Fails
      ELSE Walk(IF a.slash THEN how \union {"follow"} ELSE how, top, start, names, 0)

Access(p, rights) == [check |-> "access", at |-> p, rights |-> rights, to |-> <<>>, dir |-> FALSE]
Refer(from, to, dir) == [check |-> "refer", at |-> from, rights |-> {}, to |-> to, dir |-> dir]
Cannot == {[check |-> "unchecked", at |-> <<>>, rights |-> {}, to |-> <<>>, dir |-> FALSE]}
Has(c, flag) == flag \in c.flags

\* How the last name of a path is looked up.
OpenFlags(c) ==
  c.resolve \union (IF Has(c, "nofollow") \/ (Has(c, "creat") /\ Has(c, "excl")) THEN {} ELSE {"follow"})
UseFlags(c) == IF Has(c, "nofollow") THEN {} ELSE {"follow"}

\* accesses, Op::Open: flags "path", "creat", "excl", "trunc", "nofollow",
\* "directory", "tmpfile"; mode a subset of {"r", "w"}.
OpenChecks(c, found) ==
  LET excl == Has(c, "creat") /\ Has(c, "excl")
      kind == fs[found.at].kind
      writes == "w" \in c.mode
      file == (IF "r" \in c.mode THEN {"read_file"} ELSE {})
                \union (IF writes \/ Has(c, "trunc") THEN {"write_file"} ELSE {})
  IN  IF Has(c, "path") THEN {}
      ELSE IF found.found = "unchecked" THEN Cannot
      ELSE IF found.found = "missing"
      THEN IF Has(c, "creat") THEN {Access(found.at, {"make_reg"})} ELSE {}
      ELSE IF found.found = "fails" \/ excl \/ kind = "link" \/ (kind # "dir" /\ c.flags \intersect {"directory", "tmpfile"} # {}) THEN {}
      ELSE IF kind # "dir" THEN {Access(found.at, file)}
      ELSE IF Has(c, "tmpfile") THEN {Access(found.at, file \union {"write_file"})}
      ELSE IF writes \/ c.flags \intersect {"creat", "trunc"} # {} THEN {}
      ELSE {Access(found.at, {"read_dir"})}

\* Op::Exec and Op::Truncate: one right on what the path names.
UseChecks(found, right) ==
  IF found.found = "unchecked" THEN Cannot
  ELSE IF found.found = "entry" /\ fs[found.at].kind # "link" THEN {Access(found.at, {right})} ELSE {}

\* Op::Make: of an entry that does not exist yet.
MakeChecks(c, found) ==
  IF found.found = "unchecked" THEN Cannot
  ELSE IF found.found = "missing" THEN {Access(found.at, {MakeRight(c.kind)})} ELSE {}

\* Op::Remove.  unlink and rmdir name the right by what is there, unlinkat by its flag.
RemoveChecks(c, found) ==
  IF found.found = "unchecked" THEN Cannot
  ELSE IF found.found = "entry"
  THEN {Access(Parent(found.at), {RemoveRight(IF c.kind = "any" THEN fs[found.at].kind ELSE c.kind)})}
  ELSE {}

\* Op::Link.
LinkChecks(old, new) ==
  IF old.found = "unchecked" THEN Cannot
  ELSE IF old.found # "entry" THEN {}
  ELSE IF new.found = "unchecked" THEN Cannot
  ELSE IF new.found # "missing" THEN {}
  ELSE {Access(new.at, {MakeRight(fs[old.at].kind)}), Refer(Parent(old.at), new.at, FALSE)}

\* Op::Rename: both directories lose and gain an entry; what is replaced is
\* removed, what is exchanged goes the other way.
RenameChecks(c, old, new) ==
  LET from == Parent(old.at)
      there == new.found = "entry"
      to == IF there THEN Parent(new.at) ELSE new.at
      kind == fs[old.at].kind
  IN  IF old.found = "unchecked" THEN Cannot
      ELSE IF old.found # "entry" THEN {}
      ELSE IF new.found = "unchecked" THEN Cannot
      ELSE IF new.found = "fails" \/ (there /\ Has(c, "noreplace")) \/ (~there /\ Has(c, "exchange")) THEN {}
      ELSE {Access(from, {RemoveRight(kind)}), Access(to, {MakeRight(kind)}), Refer(from, to, kind = "dir")}
             \union (IF there THEN {Access(to, {RemoveRight(fs[new.at].kind)})} ELSE {})
             \union (IF there /\ Has(c, "exchange")
                     THEN {Access(from, {MakeRight(fs[new.at].kind)}), Refer(to, from, fs[new.at].kind = "dir")} ELSE {})

\* accesses: the entry or entries a call names, and what is checked on them.
Accesses(c) ==
  CASE c.op = "open" -> OpenChecks(c, Find(c.path, OpenFlags(c)))
    [] c.op = "exec" -> UseChecks(Find(c.path, UseFlags(c)), "execute")
    [] c.op = "truncate" -> UseChecks(Find(c.path, UseFlags(c)), "truncate")
    [] c.op = "make" -> MakeChecks(c, Find(c.path, {"entry"}))
    [] c.op = "remove" -> RemoveChecks(c, Find(c.path, {"entry"}))
    [] c.op = "link" -> LinkChecks(Find(c.path, c.flags \intersect {"follow"}), Find(c.new, {"entry"}))
    [] c.op = "rename" -> RenameChecks(c, Find(c.path, {"entry"}), Find(c.new, {"entry"}))

\* judge: denied when a check is refused, or the call could not be checked.
Judge(c) ==
  \E checks \in {Accesses(c)} :
    \/ checks = Cannot
    \/ \E k \in checks : IF k.check = "access" THEN ~Allows(k.at, k.rights) ELSE ~Refers(k.at, k.to, k.dir)

(***************************************************************************)
(* External: what a call does without a sandbox, and the rights Landlock's  *)
(* hooks ask for on the way: [works, need, uses, after], uses being the     *)
(* inodes read, run or written.                                             *)
(***************************************************************************)
NoEffect == [works |-> FALSE, need |-> {}, uses |-> {}, after |-> fs]
Effect(need, uses, after) == [works |-> TRUE, need |-> need, uses |-> uses, after |-> after]
IsDirAt(e) == e.found = "entry" /\ fs[e.at].kind = "dir"

KOpen(c, e) ==
  LET excl == Has(c, "creat") /\ Has(c, "excl")
      data == (IF "r" \in c.mode THEN {"read_file"} ELSE {}) \union (IF "w" \in c.mode THEN {"write_file"} ELSE {})
                \union (IF Has(c, "trunc") THEN {"truncate"} ELSE {})
      changes == "w" \in c.mode \/ c.flags \intersect {"creat", "trunc"} # {}
  IN  IF c.path.slash /\ ~IsDirAt(e) THEN NoEffect
      ELSE IF Has(c, "path") THEN Effect({}, {}, fs)
      ELSE IF e.found = "missing" /\ Has(c, "creat")
      THEN Effect({Access(e.at, data \union {"make_reg"})}, {}, With(fs, Append(e.at, c.as), File(Fresh(fs))))
      ELSE IF e.found # "entry" \/ excl THEN NoEffect
      ELSE CASE fs[e.at].kind = "link" -> NoEffect
             [] fs[e.at].kind = "file" ->
                  IF c.flags \intersect {"directory", "tmpfile"} # {} THEN NoEffect
                  ELSE Effect({Access(e.at, data)}, {fs[e.at].ino}, fs)
             [] fs[e.at].kind = "dir" ->
                  IF Has(c, "tmpfile") /\ "w" \in c.mode THEN Effect({Access(e.at, data)}, {}, fs)
                  ELSE IF changes \/ Has(c, "tmpfile") THEN NoEffect
                  ELSE Effect({Access(e.at, {"read_dir"})}, {}, fs)

KUse(c, e, rights) ==
  IF e.found # "entry" \/ c.path.slash THEN NoEffect
  ELSE IF fs[e.at].kind # "file" THEN NoEffect
  ELSE Effect({Access(e.at, rights)}, {fs[e.at].ino}, fs)

KMake(c, e) ==
  LET n == IF c.kind = "dir" THEN Dir(Fresh(fs)) ELSE IF c.kind = "link" THEN Link(Fresh(fs), TRUE, c.to) ELSE File(Fresh(fs))
  IN  IF e.found # "missing" \/ (c.path.slash /\ c.kind # "dir") THEN NoEffect
      ELSE Effect({Access(e.at, {MakeRight(c.kind)})}, {}, With(fs, Append(e.at, Last(c.path.names)), n))

KRemove(c, e) ==
  LET dir == fs[e.at].kind = "dir"
  IN  IF e.found # "entry" \/ (c.path.slash /\ ~dir) \/ e.at = <<>> \/ IsPrefix(e.at, Cwd) THEN NoEffect
      ELSE IF (c.kind # "any" /\ dir # (c.kind = "dir")) \/ (dir /\ Children(fs, e.at) # {}) THEN NoEffect
      ELSE Effect({Access(Parent(e.at), {RemoveRight(fs[e.at].kind)})}, {}, Without(fs, e.at))

KLink(c, old, new) ==
  IF old.found # "entry" \/ new.found # "missing" \/ c.path.slash \/ c.new.slash THEN NoEffect
  ELSE IF fs[old.at].kind = "dir" THEN NoEffect
  ELSE Effect({Access(new.at, {MakeRight(fs[old.at].kind)}), Refer(Parent(old.at), new.at, FALSE)}, {},
              With(fs, Append(new.at, Last(c.new.names)), fs[old.at]))

\* The tree under p moved to q, which it replaces.
Moved(f, p, q) ==
  LET g == Without(Without(f, q), p)
      down == {r \in DOMAIN f : IsPrefix(p, r)}
      new == {q \o SubSeq(r, Len(p) + 1, Len(r)) : r \in down}
  IN  [r \in DOMAIN g \union new |-> IF r \in new THEN f[p \o SubSeq(r, Len(q) + 1, Len(r))] ELSE g[r]]
KRename(c, old, new) ==
  LET there == new.found = "entry"
      at == IF there THEN new.at ELSE Append(new.at, Last(c.new.names))
      okind == fs[old.at].kind
      nkind == fs[new.at].kind
      from == Parent(old.at)
      to == Parent(at)
      swap == Has(c, "exchange")
  IN  IF old.found # "entry" \/ new.found = "fails" \/ c.path.slash \/ c.new.slash \/ IsPrefix(old.at, Cwd) THEN NoEffect
      ELSE IF (there /\ Has(c, "noreplace")) \/ (~there /\ swap) \/ (IsPrefix(old.at, at) /\ old.at # at)
              \/ (IsPrefix(at, old.at) /\ old.at # at) THEN NoEffect
      ELSE IF there /\ ~swap /\ old.at # at /\ ((okind = "dir") # (nkind = "dir") \/ (nkind = "dir" /\ Children(fs, at) # {})) THEN NoEffect
      ELSE Effect({Access(from, {RemoveRight(okind)}), Access(to, {MakeRight(okind)}), Refer(from, to, okind = "dir")}
                    \union (IF there THEN {Access(to, {RemoveRight(nkind)})} ELSE {})
                    \union (IF swap THEN {Access(from, {MakeRight(nkind)}), Refer(to, from, nkind = "dir")} ELSE {}),
                  {},
                  IF old.at = at THEN fs
                  ELSE IF swap THEN LET tmp == <<"swap">> IN Moved(Moved(Moved(fs, old.at, tmp), at, old.at), tmp, at)
                  ELSE Moved(fs, old.at, at))

Kernel(c) ==
  LET Named(path, how) == KFind(fs, path, how)
  IN  CASE c.op = "open" -> KOpen(c, Named(c.path, OpenFlags(c)))
        [] c.op = "exec" -> KUse(c, Named(c.path, UseFlags(c)), {"read_file", "execute"})
        [] c.op = "truncate" -> KUse(c, Named(c.path, UseFlags(c)), {"truncate"})
        [] c.op = "make" -> KMake(c, Named(c.path, {"entry"}))
        [] c.op = "remove" -> KRemove(c, Named(c.path, {"entry"}))
        [] c.op = "link" -> KLink(c, Named(c.path, c.flags \intersect {"follow"}), Named(c.new, {"entry"}))
        [] c.op = "rename" -> KRename(c, Named(c.path, {"entry"}), Named(c.new, {"entry"}))

\* A right that it does not know of, Landlock does not restrict.
LandlockAllows(abi, k) ==
  \A n \in k.need :
    IF n.check = "access" THEN n.rights \intersect Handled(abi) \subseteq LandlockGrants(abi, n.at)
    ELSE LandlockRefers(abi, n.at, n.to, n.dir)

(***************************************************************************)
(* The run of a sandboxed task.                                            *)
(***************************************************************************)
Init ==
  /\ fs \in Trees /\ input \in {PolicyInput(t) : t \in Tasks} /\ before = fs
  /\ rules = NoRules /\ created = {} /\ ruleset = [abi \in Abis |-> [i \in {} |-> {}]]
  /\ late = [stage |-> "none", call |-> <<>>, raced |-> FALSE]
  /\ phase = "build" /\ moves = 0

\* unchanged, remove_created: deepest first, the empty ones that are still those.
RECURSIVE RemoveAll(_, _)
RemoveAll(f, dirs) ==
  IF dirs = {} THEN f
  ELSE LET d == CHOOSE d \in dirs : \A e \in dirs : Len(e.path) <= Len(d.path)
           same == Canonical(f, d.path) = d.path /\ f[d.path].ino = d.ino /\ f[d.path].kind = "dir"
       IN  RemoveAll(IF same /\ Children(f, d.path) = {} THEN Without(f, d.path) ELSE f, dirs \ {d})

\* Policy::build.  A failure removes what it created.
Build ==
  /\ phase = "build"
  /\ \E s \in {Granted([fs |-> fs, ok |-> TRUE, writable |-> {}, created |-> {}], input)} :
       IF ~s.ok
       THEN /\ fs' = RemoveAll(s.fs, s.created) /\ phase' = "failed"
            /\ UNCHANGED <<rules, created>>
       ELSE /\ fs' = s.fs /\ created' = s.created /\ phase' = "rules"
            /\ rules' = RulesOf(s.fs, Readable(s.fs, input), s.writable)
  /\ UNCHANGED <<input, ruleset, late, before, moves>>

\* Another process replaces what a rule names by a link, before the ruleset is built.
SwapForLink ==
  /\ phase = "rules" /\ moves = 0
  /\ \E p \in {q \in DOMAIN rules \intersect DOMAIN fs : IsPrefix(Root, q) /\ q # Root /\ ~IsPrefix(q, Cwd)}, to \in {Root, Parent(Root)} :
       fs' = With(Without(fs, p), p, Link(Fresh(fs), TRUE, to))
  /\ moves' = 1
  /\ UNCHANGED <<input, rules, created, ruleset, late, phase, before>>

\* landlock::ruleset, on the first command.
BuildRuleset ==
  /\ phase = "rules"
  /\ ruleset' = [abi \in Abis |-> RulesetOf(fs, abi)]
  /\ phase' = "run"
  /\ UNCHANGED <<fs, input, rules, created, late, before, moves>>

\* Either back end lets the call through.
LetThrough(c, k) == ~Judge(c) \/ \E abi \in Abis : LandlockAllows(abi, k)

\* A command's call, let through and made.
Call(c) ==
  /\ phase = "run" /\ moves < MaxMoves
  /\ \E k \in {Kernel(c)} : k.works /\ LetThrough(c, k) /\ k.after # fs /\ fs' = k.after
  /\ moves' = moves + 1
  /\ UNCHANGED <<input, rules, created, ruleset, late, phase, before>>

\* The supervisor lets a call through, and it is made on what its path names later.
Check(c) ==
  /\ phase = "run" /\ moves < MaxMoves /\ late.stage = "none" /\ ~Judge(c)
  /\ late' = [late EXCEPT !.stage = "checked", !.call = c]
  /\ UNCHANGED <<fs, input, rules, created, ruleset, phase, before, moves>>

Follow ==
  /\ phase = "run" /\ late.stage = "checked"
  /\ \E k \in {Kernel(late.call)} :
       /\ fs' = IF k.works THEN k.after ELSE fs
       /\ late' = [stage |-> "made", call |-> <<>>, raced |-> k.works /\ Judge(late.call)]
  /\ UNCHANGED <<input, rules, created, ruleset, phase, before, moves>>

\* Another process puts its own directory where the build created one.
Replace ==
  /\ phase = "run" /\ moves < MaxMoves
  /\ \E d \in created : /\ d.path \in DOMAIN fs /\ fs[d.path].ino = d.ino /\ ~IsPrefix(d.path, Cwd)
                        /\ fs' = With(Without(fs, d.path), d.path, Dir(Fresh(fs)))
  /\ moves' = MaxMoves + 1
  /\ UNCHANGED <<input, rules, created, ruleset, late, phase, before>>

\* The run is over: remove_created.
Over ==
  /\ phase = "run" /\ late.stage # "checked"
  /\ fs' = RemoveAll(fs, created) /\ phase' = "over"
  /\ UNCHANGED <<input, rules, created, ruleset, late, before, moves>>

Next ==
  \/ Build \/ SwapForLink \/ BuildRuleset \/ Replace \/ Follow \/ Over
  \/ \E c \in Calls : Call(c)
  \/ \E c \in Held : Check(c)
Spec == Init /\ [][Next]_vars

(***************************************************************************)
(* Properties.                                                             *)
(***************************************************************************)
\* The files beneath the root that the task does not declare, in no granted
\* directory.
Undeclared ==
  LET s == Granted([fs |-> before, ok |-> TRUE, writable |-> {}, created |-> {}], input)
      open == {Canonical(s.fs, p) : p \in Range(input.declared) \union Range(input.own) \union Range(input.generated)}
                \ ({None} \union Prefixes(Root))
  IN  {before[p].ino : p \in {q \in DOMAIN before : /\ before[q].kind = "file" /\ IsPrefix(Root, q)
                                                     /\ q \notin {Canonical(before, r) : r \in input.readable}
                                                     /\ ~\E d \in open : IsPrefix(d, q)}}

\* No call is between its check and its use; what is then asked of every call does not
\* depend on the one that was.
Settled == phase = "run" /\ late.stage # "checked"

\* The call truncates, which Landlock leaves to everyone under this ABI.
Truncates(abi, k) == \E n \in k.need : "truncate" \in n.rights \ Handled(abi)

\* What sandbox: true is for: a call that is let through reads, runs and writes no file
\* beneath the root that is neither a source nor in a directory granted for writing,
\* and adds, removes or replaces no entry of the root itself.
Confined(k, undeclared) ==
  /\ k.uses \intersect undeclared = {}
  /\ Children(k.after, Root) = Children(fs, Root)
  /\ \A p \in Children(fs, Root) : k.after[p].ino = fs[p].ino

\* Whatever the commands do, in any order, neither back end lets a call through that
\* is not confined.  Two exceptions, which seccomp.rs and handled name: once a call that
\* followed its check late did what the supervisor would by then have denied, and a
\* truncation under Landlock's ABI 2.  And the supervisor decides as Landlock does: of
\* the calls that would succeed without a sandbox it denies those that Landlock denies,
\* and no other but those truncations (seccomp.rs, policy.rs: granted, refers "as
\* Landlock has it"), also after what the commands have moved and linked.
OnlyDeclared ==
  Settled =>
    \A undeclared \in {Undeclared}, c \in Calls :
      \A k \in {Kernel(c)} : k.works =>
        \A denied \in {Judge(c)}, confined \in {late.raced \/ Confined(k, undeclared)} :
          /\ denied \/ confined
          /\ \A abi \in Abis :
               IF LandlockAllows(abi, k)
                 THEN Truncates(abi, k) \/ (confined /\ (moves <= MaxMoves => ~denied))
                 ELSE moves <= MaxMoves => denied

\* What is declared works: until something is moved, both back ends let the
\* commands read every source that exists, by its real path, and create files
\* in every directory granted.
DeclaredWorks ==
  phase = "run" /\ moves = 0 =>
    /\ \A p \in {Canonical(fs, q) : q \in input.readable} \ {None} :
         fs[p].kind = "file" => \A abi \in Abis : {"read_file"} \subseteq GrantedTo(p) \intersect LandlockGrants(abi, p)
    /\ \A p \in Range(input.declared) \union Range(input.own) \union Range(input.generated) :
         LET d == Canonical(fs, p)
         IN  d # None /\ ~Above(d) =>
               \A abi \in Abis : {"make_reg", "refer"} \subseteq GrantedTo(d) \intersect LandlockGrants(abi, d)

\* Cleaning up costs nobody anything: a failed build leaves the tree it found
\* (but for Task's own directories and those of a path through "..", which are
\* not recorded); the end of a run removes only
\* directories the build made, still the same and empty, and leaves none.
CleansUp ==
  /\ (phase = "build" /\ phase' = "failed") =>
       \A p \in (DOMAIN fs' \ DOMAIN fs) \union (DOMAIN fs \ DOMAIN fs') :
         \/ \E o \in Range(input.own) : IsPrefix(p, o)
         \/ \E o \in Range(input.declared \o input.generated) : ".." \in Range(o)
  /\ phase' = "over" =>
       /\ \A p \in DOMAIN fs \ DOMAIN fs' : [path |-> p, ino |-> fs[p].ino] \in created
       /\ \A d \in created : ~(d.path \in DOMAIN fs' /\ fs'[d.path] = Dir(d.ino) /\ Children(fs', d.path) = {})
=============================================================================
