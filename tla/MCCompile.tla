----------------------------- MODULE MCCompile -----------------------------
EXTENDS Compile

MCNames == {"CHECKSUM", "X", "ITEM", "EXIT_CODE"}
None == {}
Unset == [n \in MCNames |-> {}]
Cmd(body, call, loop, defer, onFail) ==
  [body |-> body, call |-> call, loop |-> loop, defer |-> defer, onFail |-> onFail]
Body(reads, loop) == Cmd(reads, {}, loop, FALSE, {})

Palette == {Body({"X"}, "no"), Body({"CHECKSUM"}, "no"), Body({"CHECKSUM", "ITEM"}, "tree"),
            Body({"ITEM"}, "tree"), Body({"CHECKSUM", "ITEM"}, "list"),
            Cmd({"CHECKSUM"}, {}, "no", TRUE, {}), Body({Test}, "no")}
CmdLists == SeqOf(Palette, 3)

Base == [environ |-> [Unset EXCEPT !["CHECKSUM"] = {<<"environ">>}],
         decls |-> <<[name |-> "X", sh |-> FALSE, text |-> {}]>>,
         fields |-> [f \in EarlyFields |-> {}], env |-> [sh |-> FALSE, text |-> {}],
         cmds |-> <<>>, setup |-> <<>>, deps |-> <<>>, late |-> {}, cache |-> "none",
         sources |-> TRUE, generates |-> FALSE]

Decl(name, sh, text) == [name |-> name, sh |-> sh, text |-> text]
\* Every list of commands, with and without sources and generates.
Lists == {[Base EXCEPT !.cmds = l, !.sources = s, !.generates = g] :
            l \in CmdLists, s \in BOOLEAN, g \in {FALSE}}
\* Every place that can name CHECKSUM, beside a few lists of commands.
Heres == {{"CHECKSUM"}, {"X"}, {Test}, {Test, "CHECKSUM"}}
Places(b, t) ==
  {[b EXCEPT !.fields["dir"] = t], [b EXCEPT !.fields["sources"] = t],
   [b EXCEPT !.fields["other"] = t],
   [b EXCEPT !.env = [sh |-> FALSE, text |-> t]], [b EXCEPT !.env = [sh |-> TRUE, text |-> t]],
   [b EXCEPT !.decls = <<Decl("X", FALSE, t)>>], [b EXCEPT !.decls = <<Decl("X", TRUE, t)>>],
   [b EXCEPT !.decls = <<Decl("CHECKSUM", FALSE, t), Decl("X", TRUE, {"X"})>>],
   [b EXCEPT !.decls = <<Decl("CHECKSUM", FALSE, {}), Decl("X", TRUE, t)>>],
   [b EXCEPT !.setup = <<Cmd({}, t, "list", FALSE, {})>>],
   [b EXCEPT !.deps = <<Cmd({}, t, "no", FALSE, {})>>],
   [b EXCEPT !.deps = <<Cmd({}, t, "tree", FALSE, {})>>],
   [b EXCEPT !.cmds = @ \o <<Cmd({}, t, "no", FALSE, {})>>],
   [b EXCEPT !.cmds = @ \o <<Cmd({"X"}, t, "tree", FALSE, {})>>],
   [b EXCEPT !.cmds = @ \o <<Cmd({}, t, "list", FALSE, {})>>],
   [b EXCEPT !.cmds = @ \o <<Cmd({}, t, "no", TRUE, {})>>],
   [b EXCEPT !.late = t], [b EXCEPT !.cache = "vk", !.late = t],
   [b EXCEPT !.cache = "vk with url", !.late = t]}
Fixed == {[Base EXCEPT !.cmds = l, !.generates = g] : g \in BOOLEAN,
            l \in {<<>>, <<Body({"X"}, "no")>>, <<Body({"CHECKSUM"}, "no")>>,
                  <<Body({Test, "ITEM"}, "tree"), Cmd({Test}, {}, "no", TRUE, {})>>}}
MCPrograms == Lists \union UNION {Places(b, t) : b \in Fixed, t \in Heres}

MCTrees == {[rev |-> r, files |-> f] : r \in 1..1, f \in {<<>>, <<"f">>, <<"f", "g">>}}
=============================================================================
