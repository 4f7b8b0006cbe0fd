----------------------------- MODULE MCTaskfiles -----------------------------
(***************************************************************************)
(* Projects of up to four files: diamonds, flattening, excludes, aliases,  *)
(* cycles of every length and references of every form.                    *)
(***************************************************************************)
EXTENDS Taskfiles

MCVars == {"V"}

None == [v \in MCVars |-> 0]
Inc(ns, f, flatten, opt) ==
  [ns |-> ns, file |-> f, flatten |-> flatten, excludes |-> {}, aliases |-> {},
   optional |-> opt, internal |-> FALSE, advanced |-> FALSE, vars |-> None]
Aliased(i) == [i EXCEPT !.aliases = {"z"}, !.advanced = TRUE, !.vars = [v \in MCVars |-> 7]]
Excluding(i) == [i EXCEPT !.excludes = {<<"x">>}, !.internal = TRUE]

T(refs, aliases) == [refs |-> refs, aliases |-> aliases, internal |-> FALSE, silent |-> "unset"]
F(tasks, incs) == [version |-> "3", dotenv |-> FALSE, silent |-> FALSE, vars |-> None, tasks |-> tasks, includes |-> incs]

Ref == {<<"x">>, <<"", "x">>, <<"", "", "x">>, <<"b", "x">>, <<"", "b">>, <<"y">>}
RootFile(incs) == F([x |-> T(<< <<"a">>, <<"a", "b", "x">> >>, {"r"}), w |-> T(<< <<"z", "x">>, <<"x">> >>, {})], incs)
AFile(r, incs) == F([x |-> T(<<r>>, {"y"}), default |-> T(<< <<"b", "x">>, <<"b">> >>, {})], incs)
BFile(r, incs) == F([x |-> T(<<r, <<"y">> >>, {"y"}), default |-> T(<< <<"", "", "w">> >>, {})], incs)

RootIncs == {<<a>> : a \in {Inc("a", "a", fl, FALSE) : fl \in BOOLEAN}}
            \cup {<<Inc("a", "a", FALSE, FALSE), i>> :
                    i \in {Inc("b", "b", FALSE, FALSE), Aliased(Inc("c", "b", FALSE, FALSE)), Inc("m", "m", FALSE, TRUE),
                           Inc("m", "m", FALSE, FALSE), Excluding(Inc("d", "a", FALSE, FALSE)), Inc("d", "b", TRUE, FALSE)}}
            \cup {<<Aliased(Inc("a", "a", FALSE, FALSE)), Inc("d", "a", FALSE, FALSE)>>, <<Inc("s", "root", FALSE, FALSE)>>}
AIncs == {<<>>} \cup {<<Inc("b", "b", fl, FALSE)>> : fl \in BOOLEAN}
         \cup {<<Inc("b", "b", FALSE, FALSE), Inc("c", "b", FALSE, FALSE)>>, <<Excluding(Inc("b", "b", FALSE, FALSE))>>}
BIncs == {<<>>, <<Inc("u", "a", FALSE, FALSE)>>, <<Inc("u", "root", FALSE, FALSE)>>, <<Inc("m", "m", FALSE, TRUE)>>}

Here == <<[has |-> TRUE, owner |-> "me"]>>
Files(ri, ai, bi, ra, rb) == [root |-> RootFile(ri), a |-> AFile(ra, ai), b |-> BFile(rb, bi), m |-> Missing]
Usual == {[files |-> Files(ri, ai, bi, ra, rb), levels |-> Here] :
            ri \in RootIncs, ai \in AIncs, bi \in BIncs, ra \in Ref, rb \in Ref}
Plain == Files(<<Inc("a", "a", FALSE, FALSE)>>, <<Inc("b", "b", FALSE, FALSE)>>, <<>>, <<"x">>, <<"x">>)
\* What is refused besides: other versions, none at all, dotenv in an include.
Odd == {[Plain EXCEPT ![f] = [@ EXCEPT !.version = v]] : f \in {"root", "b"}, v \in {"none", "3.1"}}
       \cup {[Plain EXCEPT !.a.dotenv = TRUE], [Plain EXCEPT !.root.dotenv = TRUE],
             [Plain EXCEPT !.b.silent = TRUE, !.b.vars = [v \in MCVars |-> 1], !.a.vars = [v \in MCVars |-> 2]]}
Above == {<<[has |-> FALSE, owner |-> "me"], [has |-> h, owner |-> o]>> : h \in BOOLEAN, o \in {"me", "other"}}
MCProjects == Usual \cup {[files |-> fs, levels |-> Here] : fs \in Odd} \cup {[files |-> Plain, levels |-> l] : l \in Above}
=============================================================================
