-------------------------------- MODULE Glob --------------------------------
(***************************************************************************)
(* Which files `sources` and `generates` name: taskcore/src/fingerprint/    *)
(* glob.rs.  A list of entries is expanded against a directory tree, in     *)
(* shell mode (globs, for checksums) or in tree mode (cache_globs, for      *)
(* archives), with exclusions that prune the walk; CacheMatcher answers,    *)
(* from a name alone, whether a restore may write it.                       *)
(*                                                                          *)
(* A name is a sequence of characters, a path a sequence of names from the  *)
(* file system's root, a pattern a sequence of segments, each a sequence of *)
(* characters; a pattern ending in "/" has a last segment <<>>.  A link's   *)
(* `to` is the path, itself free of links, that the kernel resolves it to.  *)
(***************************************************************************)
EXTENDS Naturals, Sequences, FiniteSets, SequencesExt

CONSTANTS
  Trees,     \* the trees: functions from paths to nodes
  Lists,     \* the lists of entries [glob, negate, fp, group, folded]
  Code       \* the order of the characters

VARIABLES tree, globs, mode,
          left,      \* folded groups not yet expanded
          folded,    \* what the folded groups listed
          listed     \* the result, Pending until then

vars == <<tree, globs, mode, left, folded, listed>>

Pending == {<<<<"pending">>>>}
Failed == <<<<"failed">>>>   \* stands, in a set of paths, for an I/O error of the walk

Star == <<"*">>
DoubleStar == <<"*", "*">>
Dot == "."

(***************************************************************************)
(* Matching names.                                                         *)
(***************************************************************************)

\* A star's row is filled from the end, each place needing the one after it;
\* ok[j]: the star may span the item at j.
SpanRow(next, ok) ==
  LET fill[j \in DOMAIN next] == next[j] \/ (j \in DOMAIN ok /\ ok[j] /\ fill[j + 1])
  IN  fill

\* star_match_with: row by row, from the last token.
StarMatch(toks, text, IsStar(_), StarOk(_), Hit(_, _)) ==
  LET n == Len(text) + 1
      Row(tok, next) ==
        IF IsStar(tok) THEN SpanRow(next, [j \in 1..Len(text) |-> StarOk(text[j])])
        ELSE [j \in 1..n |-> j < n /\ next[j + 1] /\ Hit(tok, text[j])]
  IN  FoldRight(Row, toks, [j \in 1..n |-> j = n])[1]

\* What it decides: the text can be cut into one piece per token.
CanCut(toks, text, IsStar(_), StarOk(_), Hit(_, _)) ==
  \E cut \in [0..Len(toks) -> 0..Len(text)] :
    /\ cut[0] = 0 /\ cut[Len(toks)] = Len(text)
    /\ \A i \in 1..Len(toks) :
         /\ cut[i - 1] <= cut[i]
         /\ IF IsStar(toks[i]) THEN \A j \in (cut[i - 1] + 1)..cut[i] : StarOk(text[j])
            ELSE cut[i] = cut[i - 1] + 1 /\ Hit(toks[i], text[cut[i]])

RECURSIVE BracketItems(_, _, _)

\* bracket_len, match_bracket: the ranges of a bracket expression and the
\* place of its "]", 0 if it has none; a "]" first is a member.
BracketItems(pat, i, first) ==
  IF i > Len(pat) THEN [end |-> 0, ranges |-> {}]
  ELSE IF pat[i] = "]" /\ i > first THEN [end |-> i, ranges |-> {}]
  ELSE LET range == i + 2 <= Len(pat) /\ pat[i + 1] = "-" /\ pat[i + 2] # "]"
           rest == BracketItems(pat, IF range THEN i + 3 ELSE i + 1, first)
           item == <<pat[i], IF range THEN pat[i + 2] ELSE pat[i]>>
       IN  [rest EXCEPT !.ranges = @ \union {item}]

Negated(pat) == pat # <<>> /\ pat[1] \in {"!", "^"}
Bracket(pat) == LET first == IF Negated(pat) THEN 2 ELSE 1 IN BracketItems(pat, first, first)

RECURSIVE Tokens(_)

\* tokens: a "[" without its "]" matches nothing, and ends the pattern.
Tokens(pat) ==
  IF pat = <<>> THEN <<>>
  ELSE LET c == Head(pat)
           rest == Tail(pat)
           b == Bracket(rest)
       IN  CASE c = "*" -> <<[tok |-> "Star"]>> \o Tokens(rest)
             [] c = "?" -> <<[tok |-> "Any"]>> \o Tokens(rest)
             [] c = "[" /\ b.end = 0 -> <<[tok |-> "Never"]>>
             [] c = "[" /\ b.end > 0 ->
                  <<[tok |-> "Class", neg |-> Negated(rest), ranges |-> b.ranges]>>
                    \o Tokens(SubSeq(rest, b.end + 1, Len(rest)))
             [] OTHER -> <<[tok |-> "Lit", c |-> c]>> \o Tokens(rest)

IsStarTok(t) == t.tok = "Star"
AnyChar(c) == TRUE
HitsChar(t, c) ==
  CASE t.tok = "Any" -> TRUE
    [] t.tok = "Lit" -> t.c = c
    [] t.tok = "Class" ->
         (\E r \in t.ranges : Code[r[1]] <= Code[c] /\ Code[c] <= Code[r[2]]) # t.neg
    [] OTHER -> FALSE

\* glob_match, has_meta, matches_segment.
GlobMatch(seg, name) == StarMatch(Tokens(seg), name, IsStarTok, AnyChar, HitsChar)
HasMeta(seg) == \E c \in Range(seg) : c \in {"*", "?", "["}
Hidden(name) == name[1] = Dot
MatchesSegment(seg, name, dotglob) ==
  /\ dotglob \/ ~Hidden(name) \/ seg[1] = Dot
  /\ GlobMatch(seg, name)

\* match_segments, of a whole path.
IsDoubleStar(seg) == seg = DoubleStar
MatchSegments(pat, path, dotglob) ==
  LET Crosses(name) == dotglob \/ ~Hidden(name)
      Hits(seg, name) == IF HasMeta(seg) THEN MatchesSegment(seg, name, dotglob) ELSE seg = name
  IN  StarMatch(pat, path, IsDoubleStar, Crosses, Hits)

(***************************************************************************)
(* The tree, as the handles see it.                                        *)
(***************************************************************************)
Nowhere == <<<<"nowhere">>>>
Node(p) == IF p = <<>> THEN [kind |-> "dir", io |-> FALSE]
           ELSE IF p \in DOMAIN tree THEN tree[p] ELSE [kind |-> "none"]

\* stat and child following a link: where it leads, a path without links.
Real(p) == IF Node(p).kind = "link" THEN Node(p).to ELSE p
KindAt(p) == IF Real(p) = Nowhere THEN "none" ELSE Node(Real(p)).kind
Names(dir) == {Last(p) : p \in {q \in DOMAIN tree : q # <<>> /\ Front(q) = dir}}

\* lookup_by_handles, is_dir, Scan::exists.
RECURSIVE Lookup(_, _)
Lookup(dir, path) ==
  IF path = <<>> THEN Node(dir).kind
  ELSE LET next == Append(dir, Head(path))
       IN  IF KindAt(next) = "none" THEN "none"
           ELSE IF Len(path) > 1 /\ KindAt(next) # "dir" THEN "none"
           ELSE Lookup(Real(next), Tail(path))
IsDir(path) == Lookup(<<>>, path) = "dir"
Exists(path) == Lookup(<<>>, path) # "none"

(***************************************************************************)
(* Exclusions.                                                             *)
(***************************************************************************)
Clean(pattern) == SelectSeq(pattern, LAMBDA s : s # <<>>)
EndsInSlash(pattern) == pattern # <<>> /\ Last(pattern) = <<>>

RECURSIVE WithoutStars(_)
WithoutStars(segs) ==
  IF segs # <<>> /\ Last(segs) = DoubleStar THEN WithoutStars(Front(segs)) ELSE segs

\* Pruner::new: the directories `<prefix>/**/*` or `<prefix>/**` covers, none
\* when that would be the root; at most one prefix.
PrunerOf(pattern) ==
  LET segs == Clean(pattern)
      cut == IF segs # <<>> /\ Last(segs) = Star THEN Front(segs) ELSE segs
      prefix == WithoutStars(cut)
  IN  IF ~EndsInSlash(pattern) /\ prefix # cut /\ \E s \in Range(prefix) : s # DoubleStar
      THEN {prefix} ELSE {}

\* Walker::enter.
Pruned(pruners, path) == \E prefix \in pruners : MatchSegments(prefix, path, TRUE)

\* Exclusion::new.
ExclusionOf(g, fast) ==
  LET segs == Clean(g.glob)
      tail == IF EndsInSlash(g.glob) THEN "Dir"
              ELSE IF segs # <<>> /\ Last(segs) = DoubleStar THEN "Tree" ELSE "Name"
  IN  [segments |-> IF tail = "Tree" THEN WithoutStars(segs) ELSE segs,
       tail |-> tail,
       literal |-> tail # "Tree" /\ \A s \in Range(g.glob) : ~HasMeta(s),
       pruned |-> fast /\ PrunerOf(g.glob) # {},
       fast |-> fast]

\* excludes_clean's checks on the text: the leading literal segments, each
\* later literal, and the last name's fixed start and end.
Lead(segs) == CHOOSE k \in 0..Len(segs) :
                /\ \A i \in 1..k : ~HasMeta(segs[i])
                /\ k = Len(segs) \/ HasMeta(segs[k + 1])
Affix(seg) ==
  LET metas == {i \in DOMAIN seg : seg[i] \in {"*", "?", "["}}
      from == CHOOSE i \in metas : \A j \in metas : i <= j
      to == CHOOSE i \in metas : \A j \in metas : j <= i
  IN  [start |-> SubSeq(seg, 1, from - 1),
       end |-> IF "[" \in Range(seg) THEN <<>> ELSE SubSeq(seg, to + 1, Len(seg))]
LastFits(e, path) ==
  LET segs == e.segments
  IN  \/ segs = <<>> \/ Last(segs) = DoubleStar
      \/ path # <<>> /\ IF HasMeta(Last(segs))
                        THEN LET a == Affix(Last(segs))
                             IN  IsPrefix(a.start, Last(path)) /\ IsSuffix(a.end, Last(path))
                        ELSE Last(path) = Last(segs)
TextFits(e, path, below) ==
  LET lead == Lead(e.segments)
  IN  /\ IsPrefix(SubSeq(e.segments, 1, lead), path)
      /\ \A i \in (lead + 1)..Len(e.segments) :
           ~HasMeta(e.segments[i]) => e.segments[i] \in Range(path)
      /\ below \/ LastFits(e, path)

\* Matcher::excludes_clean: walked paths are not below a covered directory.
ExcludedBy(e, path, walked) ==
  LET skip == walked /\ e.pruned
      below == e.tail = "Tree" /\ ~skip
      Matches(segs) == MatchSegments(segs, path, TRUE)
  IN  IF e.literal THEN e.segments = path /\ (e.tail = "Name" \/ IsDir(path))
      ELSE /\ ~(skip /\ e.tail = "Name")
           /\ e.fast => TextFits(e, path, below)
           /\ CASE e.tail = "Name" -> Matches(e.segments)
                [] e.tail = "Dir" -> Matches(e.segments) /\ IsDir(path)
                [] e.tail = "Tree" ->
                     \/ below /\ Matches(e.segments \o <<Star, DoubleStar>>)
                     \/ (e.fast => LastFits(e, path)) /\ Matches(e.segments) /\ IsDir(path)

(***************************************************************************)
(* The walk.  o: [pruners, dotglob, follow, fast]; at: the current          *)
(* directory [path, real, chain, kind], chain the directories on the way.   *)
(* An output is [path, kind].                                               *)
(***************************************************************************)
Out(path, kind) == [path |-> path, kind |-> kind]
Shown(o, name) == o.dotglob \/ ~Hidden(name)
TrailingSlash(rest) == rest # <<>> /\ \A s \in Range(rest) : s = <<>>
Start == [path |-> <<>>, real |-> <<>>, chain |-> {<<>>}, kind |-> "dir"]
Down(at, name) ==
  LET real == Real(Append(at.real, name))
  IN  [path |-> Append(at.path, name), real |-> real, chain |-> at.chain \union {real},
       kind |-> Node(Append(at.real, name)).kind]

\* list, list_dir: a failed listing fails the walk.
Listing(o, at) == {n \in Names(at.real) : Shown(o, n)}
ListError(o, at) == IF o.fast /\ Node(at.real).io THEN {Out(Failed, "none")} ELSE {}

\* Walker::child: what a listed entry is to a wildcard.
ChildOf(o, at, name) ==
  LET p == Append(at.real, name)
      kind == Node(p).kind
  IN  IF ~(kind = "dir" \/ (kind = "link" /\ o.follow /\ KindAt(p) = "dir")) THEN "NotDir"
      ELSE IF Pruned(o.pruners, Append(at.path, name)) THEN "Pruned"
      ELSE IF Real(p) \in at.chain THEN "NotDir"
      ELSE "Dir"

\* slashed: with only "/" left, a link to a directory is the entry.
Slashed(at, name) ==
  LET p == Append(at.real, name)
  IN  IF Node(p).kind = "link" /\ KindAt(p) = "dir"
      THEN {Out(Append(at.path, name), "link")} ELSE {}

\* pruned_link: a link to a covered directory, as the walk into it would have
\* listed it.
PrunedLink(at, name, rest, step) ==
  LET p == Append(at.real, name)
      looped == step # "Literal" /\ Real(p) \in at.chain
      isListed == IF looped THEN (step = "DoubleStar" /\ rest = <<>>) \/ TrailingSlash(rest)
                  ELSE \A s \in Range(rest) : s \in {DoubleStar, <<>>}
  IN  IF Node(p).kind = "link" /\ KindAt(p) = "dir" /\ isListed
      THEN {Out(Append(at.path, name), "link")} ELSE {}

RECURSIVE Walk(_, _, _), Descend(_, _, _)

\* Walker::walk and Walker::literal.
Walk(o, at, segs) ==
  IF segs = <<>> THEN {Out(at.path, at.kind)}
  ELSE
    LET seg == Head(segs)
        rest == Tail(segs)
        next == Append(at.real, seg)
        Matched(name) ==
          IF rest = <<>> THEN {Out(Append(at.path, name), Node(Append(at.real, name)).kind)}
          ELSE IF TrailingSlash(rest) THEN Slashed(at, name)
          ELSE CASE ChildOf(o, at, name) = "Dir" -> Walk(o, Down(at, name), rest)
                 [] ChildOf(o, at, name) = "Pruned" -> PrunedLink(at, name, rest, "Wildcard")
                 [] ChildOf(o, at, name) = "NotDir" -> {}
    IN  CASE seg = <<>> -> Walk(o, at, rest)
          [] seg = DoubleStar -> Walk(o, at, rest) \union Descend(o, at, rest)
          [] seg # <<>> /\ ~HasMeta(seg) ->
               IF rest = <<>>
               THEN IF KindAt(next) = "none" THEN {}
                    ELSE {Out(Append(at.path, seg), Node(next).kind)}
               ELSE IF Pruned(o.pruners, Append(at.path, seg))
               THEN PrunedLink(at, seg, rest, "Literal")
               ELSE IF KindAt(next) = "dir" THEN Walk(o, Down(at, seg), rest) ELSE {}
          [] OTHER ->
               ListError(o, at) \union
               UNION {Matched(n) : n \in {m \in Listing(o, at) : MatchesSegment(seg, m, o.dotglob)}}

\* descend_double_star, walk_double_star.
Descend(o, at, rest) ==
  LET Passed(name) ==
        CASE ChildOf(o, at, name) = "Dir" ->
               Walk(o, Down(at, name), rest) \union Descend(o, Down(at, name), rest)
          [] ChildOf(o, at, name) = "Pruned" -> PrunedLink(at, name, rest, "DoubleStar")
          [] ChildOf(o, at, name) = "NotDir" ->
               IF rest = <<>>
               THEN {Out(Append(at.path, name), Node(Append(at.real, name)).kind)}
               ELSE IF TrailingSlash(rest) THEN Slashed(at, name) ELSE {}
  IN  ListError(o, at) \union UNION {Passed(n) : n \in Listing(o, at)}

\* expand, expand_fields: everything but directories.
Options(m, pruners, fast) ==
  [pruners |-> pruners, dotglob |-> m = "tree", follow |-> m = "shell", fast |-> fast]
Expand(m, pattern, pruners, fast) ==
  {out.path : out \in {w \in Walk(Options(m, pruners, fast), Start, pattern) : w.kind # "dir"}}

(***************************************************************************)
(* A group of entries.                                                     *)
(***************************************************************************)
HasWildcards(g) == \E s \in Range(g.glob) : HasMeta(s)
IsNamed(g) == ~g.negate /\ ~g.folded /\ (g.fp # <<>> \/ ~HasWildcards(g))

\* mark, on the working sets.
Mark(w, path, negate) ==
  IF negate THEN [w EXCEPT !.inc = @ \ {path}, !.exc = @ \union {path}]
  ELSE IF path \in w.exc THEN w ELSE [w EXCEPT !.inc = @ \union {path}]

\* The loops of shell_globs and tree_globs over a group's entries.
Entry(m, g, w, fast) ==
  LET fp == IF g.fp # <<>> /\ Exists(g.fp) /\ (m = "shell" \/ ~g.negate)
            THEN IF IsNamed(g) THEN [w EXCEPT !.named = @ \union {g.fp}]
                 ELSE Mark(w, g.fp, g.negate)
            ELSE w
      byName == IsNamed(g) /\ (m = "shell" \/ ~HasWildcards(g))
  IN  IF m = "shell" /\ g.fp # <<>> THEN fp
      ELSE IF byName THEN [fp EXCEPT !.named = @ \union Expand(m, g.glob, {}, fast)]
      ELSE [fp EXCEPT !.patterns = Append(@, g)]

\* expand_patterns and collect: included less excluded, then what is named.
ExpandPatterns(m, w, extra, fast) ==
  LET neg == {w.patterns[i] : i \in {j \in DOMAIN w.patterns : w.patterns[j].negate}}
      pos == {w.patterns[i] : i \in {j \in DOMAIN w.patterns : ~w.patterns[j].negate}}
      exclusions == {ExclusionOf(g, fast) : g \in neg}
      pruners == IF fast THEN extra \union UNION {PrunerOf(g.glob) : g \in neg} ELSE {}
      before == {p \in w.inc \ {Failed} : \E e \in exclusions : ExcludedBy(e, p, FALSE)}
      found == UNION {Expand(m, g.glob, pruners, fast) : g \in pos} \ (w.inc \union w.exc)
      out == w.exc \union before \union
             {p \in found \ {Failed} : \E e \in exclusions : ExcludedBy(e, p, TRUE)}
      byName == {p \in w.named \ {Failed} : p \in w.exc \/
                   \E e \in exclusions : e.literal /\ ExcludedBy(e, p, FALSE)}
  IN  (((w.inc \union found) \ out) \union w.named) \ byName

\* shell_globs, tree_globs.
Group(m, k, included, extra, fast) ==
  LET es == SelectSeq(globs, LAMBDA g : g.group = k)
      start == [inc |-> included, exc |-> {}, named |-> {}, patterns |-> <<>>]
      Step(w, g) == Entry(m, g, w, fast)
  IN  ExpandPatterns(m, FoldLeft(Step, start, es), extra, fast)

\* own_pruners: the task's own exclusions keep the folded walks out too.
OwnPruners(m) ==
  UNION {PrunerOf(globs[i].glob) : i \in
           {j \in DOMAIN globs : /\ globs[j].group = 0 /\ globs[j].negate
                                 /\ m = "tree" \/ globs[j].fp = <<>>}}
Groups == {globs[i].group : i \in DOMAIN globs} \ {0}

Init ==
  /\ tree \in Trees /\ globs \in Lists /\ mode \in {"shell", "tree"}
  /\ left = SetToSortSeq(Groups, <) /\ folded = {} /\ listed = Pending

\* globs_scanned, cache_globs: one folded group, evaluated by itself.
FoldGroup ==
  /\ left # <<>>
  /\ folded' = folded \union Group(mode, Head(left), {}, OwnPruners(mode), TRUE)
  /\ left' = Tail(left)
  /\ UNCHANGED <<tree, globs, mode, listed>>

\* The task's own entries, over what the groups listed.
ListOwn ==
  /\ left = <<>> /\ listed = Pending
  /\ listed' = Group(mode, 0, folded, {}, TRUE)
  /\ UNCHANGED <<tree, globs, mode, left, folded>>

Next == FoldGroup \/ ListOwn
Spec == Init /\ [][Next]_vars

(***************************************************************************)
(* CacheMatcher.                                                           *)
(***************************************************************************)

\* The mutant of Stretched: the trailing "**" may match the directory itself.
Stretched_Bare(segs) == segs

\* MatchGroup::new: an exclusion's trailing "**" must match something here.
Stretched(segs) ==
  IF segs # <<>> /\ Last(segs) = DoubleStar THEN Append(segs, Star) ELSE segs
Of(k, P(_)) == {globs[i] : i \in {j \in DOMAIN globs : globs[j].group = k /\ P(globs[j])}}
Excludes(g) == g.negate /\ ~EndsInSlash(g.glob)
Includes(g) == ~g.negate
NamesIt(k, path) ==
  \E g \in Of(k, Includes) :
    IsNamed(g) /\ (path = g.fp \/ (~HasWildcards(g) /\ path = Clean(g.glob)))
Removes(k, path) ==
  \E g \in Of(k, Excludes) :
    \/ ~HasWildcards(g) /\ path = Clean(g.glob)
    \/ ~NamesIt(k, path) /\ MatchSegments(Stretched(Clean(g.glob)), path, TRUE)
ListsIt(k, path) ==
  /\ NamesIt(k, path) \/ \E g \in Of(k, Includes) : MatchSegments(Clean(g.glob), path, TRUE)
  /\ ~Removes(k, path)
MatcherMatches(path) ==
  (\E k \in Groups \union {0} : ListsIt(k, path)) /\ ~Removes(0, path)

(***************************************************************************)
(* Properties.                                                             *)
(***************************************************************************)

\* The list with no pruner, no check on the text and no I/O error.
RECURSIVE Plainly(_, _)
Plainly(groups, acc) ==
  IF groups = <<>> THEN Group(mode, 0, acc, {}, FALSE)
  ELSE Plainly(Tail(groups), acc \union Group(mode, Head(groups), {}, {}, FALSE))
Plain == Plainly(SetToSortSeq(Groups, <), {})

\* "Pruning preserves `included - excluded`" (Pruner), and "a fingerprint
\* never covers part of a tree" (ends_branch): a list that comes back is the
\* one that walking everything and then matching every exclusion gives.
PruningKeeps == listed # Pending => Failed \in listed \/ listed = Plain

\* CacheMatcher "matches every path the walk lists": what a run saves, its
\* restore takes for the task's.
MatcherCovers ==
  (mode = "tree" /\ listed # Pending) => \A p \in listed \ {Failed} : MatcherMatches(p)

\* star_match, in rows, decides what its definition says: for every name of
\* the tree and every segment, and for every path and pattern.
StarMatchExact ==
  \A i \in DOMAIN globs : \A p \in DOMAIN tree :
    LET pat == Clean(globs[i].glob)
        Hits(seg, name) == IF HasMeta(seg) THEN MatchesSegment(seg, name, FALSE) ELSE seg = name
        Crosses(name) == ~Hidden(name)
    IN  /\ MatchSegments(pat, p, FALSE) <=> CanCut(pat, p, IsDoubleStar, Crosses, Hits)
        /\ \A s \in Range(pat) : GlobMatch(s, Last(p)) <=>
             CanCut(Tokens(s), Last(p), IsStarTok, AnyChar, HitsChar)
=============================================================================
