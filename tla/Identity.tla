------------------------------ MODULE Identity ------------------------------
(***************************************************************************)
(* A task's identity: taskcore/src/hash.rs (Encoder, encode_task,           *)
(* fingerprint, cache_vars_digest, call_key) and the encoding of a sources  *)
(* checksum, checksum.rs (Datum::encode, combine).                          *)
(*                                                                          *)
(* An encoding is a sequence of bytes: numbers.  A text is a sequence over  *)
(* {1, 2} (no NUL), a length or a u64 one number, an option a sequence of   *)
(* at most one value.  Hashes do not collide: the encoding is the identity. *)
(*                                                                          *)
(* `decl` is a task as its Taskfile has it, with paths relative to its      *)
(* directory; Compiled(decl, root) is what compilation makes of it in a     *)
(* project at root, and what hash.rs sees.                                  *)
(***************************************************************************)
EXTENDS Naturals, Sequences, SequencesExt, FiniteSetsExt

CONSTANTS
  Base,      \* a declared task
  Values,    \* Values[f]: what the field f may be edited to
  Roots,     \* project roots: paths
  MaxEdits   \* bound: edits in a row

VARIABLES decl, root, edits
vars == <<decl, root, edits>>

(***************************************************************************)
(* Encoder.                                                                *)
(***************************************************************************)
Str(s) == <<Len(s)>> \o s
Bool(b) == <<IF b THEN 1 ELSE 0>>
U64(n) == <<n>>
List(Enc(_), s) == <<Len(s)>> \o FlattenSeq([i \in DOMAIN s |-> Enc(s[i])])
Opt(Enc(_), o) == IF o = <<>> THEN <<0>> ELSE <<1>> \o Enc(o[1])

RECURSIVE Value(_)
\* encode_value: a tag, then what the kind has.
Value(v) ==
  CASE v.t = "null" -> <<0>>
    [] v.t = "bool" -> <<1>> \o Bool(v.v)
    [] v.t = "number" -> <<2>> \o Str(v.v)
    [] v.t = "string" -> <<3>> \o Str(v.v)
    [] v.t = "seq" -> <<4>> \o List(Value, v.v)
    [] v.t = "map" -> LET Pair(kv) == Value(kv[1]) \o Value(kv[2]) IN <<5>> \o List(Pair, v.v)
    [] v.t = "tagged" -> <<6>> \o Str(v.tag) \o Value(v.v)

\* encode_var, encode_opt_vars, encode_vars_flat: no vars and an empty map
\* are one in the flat form.
Var(x) == Opt(Value, x.value) \o Opt(Value, x.live) \o Opt(Str, x.sh) \o Str(x.ref) \o Str(x.dir)
KeyedVar(kv) == Str(kv[1]) \o Var(kv[2])
VarList(vs) == List(KeyedVar, vs)
OptVars(o) == Opt(VarList, o)
\* The mutant of VarsFlat: the list is encoded without its length.
VarsFlat_Uncounted(o) == IF o = <<>> THEN <<>> ELSE FlattenSeq([i \in DOMAIN o[1] |-> KeyedVar(o[1][i])])

VarsFlat(o) == IF o = <<>> THEN <<0>> ELSE VarList(o[1])

\* encode_for, encode_matrix, encode_cmds, encode_deps.
MatrixRow(kv) == Str(kv[1]) \o Str(kv[2].ref) \o List(Value, kv[2].value)
Matrix(m) == List(MatrixRow, m)
For(f) == Str(f.from) \o List(Value, f.list) \o Opt(Matrix, f.matrix)
            \o Str(f.var) \o Str(f.split) \o Str(f.as)
Cmd(c) == Str(c.cmd) \o Str(c.task) \o Opt(For, c.for) \o Str(c.if) \o Bool(c.silent)
            \o OptVars(c.vars) \o Bool(c.ignoreError) \o Bool(c.defer)
Dep(d) == Str(d.task) \o Opt(For, d.for) \o OptVars(d.vars) \o Bool(d.silent) \o Opt(Bool, d.fingerprint)

\* encode_globs: a folded entry's group and a `task:` reference take the slot
\* of `from`, behind a NUL no `from` holds.
GroupMark == <<0, 1>>
TaskMark == <<0, 2>>
Slot(g) ==
  IF g.group # 0 THEN Str(GroupMark) \o U64(g.group)
  ELSE IF g.task = <<>> THEN Str(g.from)
  ELSE Str(TaskMark) \o Str(g.task) \o VarsFlat(g.vars)
Glob(g) == Str(g.glob) \o Bool(g.negate) \o Str(g.fingerprint) \o Slot(g)

\* encode_cache, encode_location, encode_requires, encode_preconditions.
Cache(c) == Str(c.inherit) \o Opt(Bool, c.enabled) \o Str(c.url) \o Str(c.namespace)
Location(l) == U64(l.line) \o Str(l.taskfile)
Require(v) == Str(v.name) \o List(Str, v.enum)
Requires(rs) == List(Require, rs)
Precondition(p) == Str(p.sh) \o Str(p.msg)

\* encode_task: the vars, and what merging and compiling fill in, are left out.  So are,
\* here, the fields encoded as one of these next to them is: desc, prompt, summary, set,
\* shopt, interactive, internal, platforms, if, watch and failfast.
Task(t) ==
  List(Dep, t.setup) \o List(Cmd, t.cmds) \o List(Dep, t.deps) \o Str(t.label)
  \o Opt(Requires, t.requires) \o List(Str, t.aliases)
  \o List(Glob, t.sources) \o List(Glob, t.generates) \o Opt(Cache, t.cache)
  \o List(Precondition, t.preconditions) \o List(Str, t.dirs) \o List(Str, t.dotenv)
  \o Opt(Bool, t.silent) \o Bool(t.ignoreError) \o Str(t.run) \o Opt(Location, t.location)

(***************************************************************************)
(* Paths: an absolute path starts with 3, ".." is 4.                       *)
(***************************************************************************)
IsAbs(p) == p # <<>> /\ p[1] = 3

\* rel_str: up from base to what it shares with path, then down.
RelStr(base, path) ==
  LET shared == Max({k \in 0..Min({Len(base), Len(path)}) : SubSeq(base, 1, k) = SubSeq(path, 1, k)})
  IN  [i \in 1..(Len(base) - shared) |-> 4] \o SubSeq(path, shared + 1, Len(path))
Relative(base, path) == IF base # <<>> /\ IsAbs(path) THEN RelStr(base, path) ELSE path

\* What compilation does to a declared task: the project root first in dirs,
\* and every structural path joined onto the task's directory.
Compiled(d, r) ==
  LET dir == r \o d.dir
      Joined(gs) == [i \in DOMAIN gs |->
                       [gs[i] EXCEPT !.glob = dir \o @,
                                     !.fingerprint = IF @ = <<>> THEN @ ELSE dir \o @]]
  IN  [d EXCEPT !.dirs = <<r, d.dir>>, !.sources = Joined(@), !.generates = Joined(@),
                !.dotenv = [i \in DOMAIN @ |-> dir \o @[i]],
                !.location = [i \in DOMAIN @ |-> [@[i] EXCEPT !.taskfile = r \o @]]]

ComputeDir(t) == t.dirs[1] \o t.dirs[2]

\* fingerprint: structural paths relative to the project or the task's
\* directory, no line, no aliases; then the declared env.
Normalized(t) ==
  LET r == t.dirs[1]
      dir == ComputeDir(t)
      Rel(gs) == [i \in DOMAIN gs |-> [gs[i] EXCEPT !.glob = Relative(dir, @),
                                                    !.fingerprint = Relative(dir, @)]]
  IN  [t EXCEPT !.dirs = <<Relative(r, dir)>>, !.sources = Rel(@), !.generates = Rel(@),
                !.dotenv = [i \in DOMAIN @ |-> Relative(dir, @[i])],
                !.location = [i \in DOMAIN @ |-> [@[i] EXCEPT !.taskfile = Relative(r, @), !.line = 0]],
                !.aliases = <<>>]
Fingerprint(t) == Str(t.local) \o Task(Normalized(t)) \o VarsFlat(t.env)

\* cache_vars_digest, of the raw declarations; call_key, with each dialect.
CacheVarsDigest(d) == VarsFlat(d.vars) \o VarsFlat(d.includeVars)
KeyedCallVar(kv) == KeyedVar(kv) \o <<kv[2].dialect>>
CallKey(task, captures, vs) == Str(task) \o List(Str, captures) \o List(KeyedCallVar, vs)

\* checksum.rs: Datum::encode and the framed record of combine, data sorted.
SrcRule(dir, g) == <<20>> \o U64(g.group) \o Bool(g.negate) \o Str(Relative(dir, g.glob))
CmdDatum(i, c) == <<21>> \o U64(i) \o Str(c.cmd)
Data(t) ==
  LET dir == ComputeDir(t)
  IN  {SrcRule(dir, t.sources[i]) : i \in DOMAIN t.sources}
      \union {CmdDatum(i, t.cmds[i]) : i \in DOMAIN t.cmds}
      \union {<<22>> \o Tail(SrcRule(dir, t.generates[i])) : i \in DOMAIN t.generates}

(***************************************************************************)
(* The Taskfile is edited, or the project moved.                           *)
(***************************************************************************)
Init == decl = Base /\ root \in Roots /\ edits = 0

EditField ==
  /\ edits < MaxEdits
  /\ \E f \in DOMAIN Values : \E v \in Values[f] \ {decl[f]} : decl' = [decl EXCEPT ![f] = v]
  /\ edits' = edits + 1 /\ UNCHANGED root

\* A var moves between the task and the include that passes it.
MoveVars ==
  /\ edits < MaxEdits /\ decl.vars # decl.includeVars
  /\ decl' = [decl EXCEPT !.vars = decl.includeVars, !.includeVars = decl.vars]
  /\ edits' = edits + 1 /\ UNCHANGED root

Relocate == root' \in Roots \ {root} /\ UNCHANGED <<decl, edits>>

Next == EditField \/ MoveVars \/ Relocate
Spec == Init /\ [][Next]_vars

(***************************************************************************)
(* Properties.                                                             *)
(***************************************************************************)

\* What a task builds, as declared: where it stands in the file, its aliases
\* and an empty against a missing env are not part of it, nor are vars.
FlatOf(o) == IF o = <<>> THEN <<>> ELSE o[1]
Texts(o) == [i \in DOMAIN FlatOf(o) |-> <<o[1][i][1], [o[1][i][2] EXCEPT !.dialect = 0]>>]
Meaning(d) ==
  [f \in DOMAIN d \ {"vars", "includeVars", "aliases", "dirs"} |->
     CASE f = "env" -> Texts(d.env)
       [] f = "location" -> [i \in DOMAIN d.location |-> d.location[i].taskfile]
       [] OTHER -> d[f]]

\* "Exported fingerprints survive relocation" and two tasks share a checksum
\* file only if they build the same: an edit changes the identity when it
\* changes the meaning, a move never does.
SameIdentity ==
  /\ Fingerprint(Compiled(decl', root')) = Fingerprint(Compiled(decl, root))
       <=> Meaning(decl') = Meaning(decl)
  /\ Data(Compiled(decl, root')) = Data(Compiled(decl, root))

\* The digest of the raw vars tells any two declarations apart by their text,
\* wherever the line between a task's own and the include's falls (their
\* dialect it leaves out); a call's key, dialects included, any two calls.
SameVars ==
  /\ CacheVarsDigest(decl') = CacheVarsDigest(decl)
       <=> Texts(decl'.vars) = Texts(decl.vars) /\ Texts(decl'.includeVars) = Texts(decl.includeVars)
  /\ CallKey(decl'.local, <<decl'.label>>, FlatOf(decl'.vars)) = CallKey(decl.local, <<decl.label>>, FlatOf(decl.vars))
       <=> /\ decl'.local = decl.local /\ decl'.label = decl.label
           /\ FlatOf(decl'.vars) = FlatOf(decl.vars)
=============================================================================
