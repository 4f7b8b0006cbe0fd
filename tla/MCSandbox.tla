------------------------------ MODULE MCSandbox ------------------------------
EXTENDS Sandbox, TLC
MCRoot == <<"h", "r">>
MCCwd == MCRoot
MCOutside == <<>> :> Dir(1) @@ <<"h">> :> Dir(2) @@ MCRoot :> Dir(3) @@ <<"o">> :> Dir(4)
In(p) == MCRoot \o p
MCBase == MCOutside @@ In(<<"a">>) :> File(5) @@ In(<<"d">>) :> Dir(6) @@ In(<<"d", "b">>) :> File(7)
MCTrees == {
  MCBase,
  MCBase @@ In(<<"d", "c">>) :> File(8) @@ In(<<"l">>) :> Link(9, FALSE, <<"d">>),
  MCBase @@ In(<<"d", "l">>) :> Link(9, FALSE, <<"..", "a">>) @@ In(<<"e">>) :> Dir(8),
  MCBase @@ In(<<"e">>) :> Dir(8) @@ In(<<"e", "l">>) :> Link(9, TRUE, In(<<"n">>)),
  MCBase @@ <<"o", "x">> :> File(8) @@ In(<<"l">>) :> Link(9, TRUE, <<"o">>),
  MCBase @@ <<"o", "l">> :> Link(8, TRUE, MCRoot) @@ <<"h", "l">> :> Link(9, FALSE, <<"r", "d">>)}
F(files, prints) == [negate |-> FALSE, value |-> FALSE, files |-> files, prints |-> prints]
Not(files) == [F(files, {}) EXCEPT !.negate = TRUE]
T(rd, de, ow, ge) == [sources |-> {F(rd, {})}, reads |-> {}, plain |-> {}, grants |-> <<>>, writes |-> de, temp |-> ow, generates |-> ge]
G(kind, p) == [kind |-> kind, path |-> p]
MCWild == {"*"}
MCTasks == {
  [T({In(<<"a">>), In(<<"d", "b">>)}, <<>>, <<>>, <<In(<<"d", "*", "x">>)>>) EXCEPT !.reads = {Not({In(<<"e">>)})},
     !.sources = {F({In(<<"d", "b">>)}, {In(<<"a">>)}), Not({In(<<"d", "b">>)})}],
  [T({In(<<"d", "b">>)}, <<>>, <<In(<<"t">>)>>, <<>>) EXCEPT !.grants = <<G("writes", In(<<"e">>))>>],
  [T({In(<<"l", "b">>)}, <<In(<<"e", "n">>)>>, <<>>, <<>>) EXCEPT !.plain = {In(<<"a">>)}, !.grants = <<G("generates", <<"o", "g", "x">>)>>],
  [T({In(<<"d", "l">>), In(<<"d", "b">>)}, <<In(<<"w", "v">>), <<"h", "n">>>>, <<>>, <<In(<<"x">>)>>) EXCEPT !.sources = @ \union {[F({In(<<"d", "c">>)}, {}) EXCEPT !.value = TRUE]}],
  [T({}, <<In(<<"w">>), In(<<"l", "..", "m">>)>>, <<>>, <<In(<<"e", "l", "x">>)>>) EXCEPT !.grants = <<G("dotenv", In(<<"n">>))>>],
  T({}, <<<<"o", "l">>, In(<<"w">>)>>, <<In(<<"t">>)>>, <<In(<<"a", "k", "*">>)>>)}
A(n) == [abs |-> FALSE, names |-> n, slash |-> FALSE]
MCPaths == {A(n) : n \in {<<"a">>, <<"d">>, <<"d", "b">>, <<"d", "n">>, <<"e", "n">>, <<"l">>, <<"l", "n">>, <<"d", "l">>, <<"w">>,
               <<"w", "n">>, <<"n">>, <<"l", "..", "a">>, <<"a", "..", "d">>, <<"..", "n">>, <<"..", "..", "o", "n">>, <<"e", "l">>, <<".">>}}
   \union {[abs |-> TRUE, names |-> <<"o", "x">>, slash |-> FALSE], [abs |-> TRUE, names |-> In(<<"d", "c">>), slash |-> FALSE],
           [abs |-> FALSE, names |-> <<"l">>, slash |-> TRUE], [abs |-> FALSE, names |-> <<"d">>, slash |-> TRUE],
           [abs |-> TRUE, names |-> <<"h", "l", "b">>, slash |-> FALSE]}
C(op, p, new, flags, mode, resolve, kind) ==
  [op |-> op, path |-> p, new |-> new, flags |-> flags, mode |-> mode, resolve |-> resolve, kind |-> kind, to |-> In(<<"a">>), as |-> "n"]
MCOpens == {C("open", p, p, f, m, {}, "any") : p \in MCPaths, f \in {{}, {"creat"}, {"nofollow"}, {"directory"}, {"path"}}, m \in {{"r"}, {"w"}}}
   \union {C("open", p, p, {}, {"r"}, r, "any") : p \in MCPaths, r \in {{"in_root"}, {"beneath"}, {"no_symlinks"}}}
   \union {C("open", p, p, f, m, {}, "any") : p \in MCPaths, f \in {{"trunc"}, {"creat", "excl"}, {"tmpfile", "directory"}}, m \in {{"r", "w"}}}
MCOthers == {C(o, p, p, {}, {}, {}, k) : p \in MCPaths, <<o, k>> \in {<<"exec", "any">>, <<"truncate", "any">>, <<"make", "dir">>, <<"make", "link">>,
                                           <<"remove", "any">>, <<"remove", "dir">>}}
MCMovable == {A(n) : n \in {<<"a">>, <<"d">>, <<"d", "b">>, <<"d", "n">>, <<"e", "n">>, <<"w", "n">>, <<"n">>, <<"l", "n">>, <<"..", "..", "o", "x">>, <<"e">>}}
MCMoves == {C(o, p, q, f, {}, {}, "any") : p, q \in MCMovable, <<o, f>> \in {<<"link", {}>>, <<"rename", {}>>, <<"rename", {"exchange"}>>, <<"rename", {"noreplace"}>>}}
MCHeld == {C("open", A(<<"e", "n">>), A(<<"e", "n">>), {"creat"}, {"w"}, {}, "any"),
           C("rename", A(<<"e", "n">>), A(<<"w", "n">>), {}, {}, {}, "any")}
MCCalls == MCOpens \union MCOthers \union MCMoves
=============================================================================
