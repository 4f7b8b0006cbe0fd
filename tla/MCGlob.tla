------------------------------- MODULE MCGlob -------------------------------
EXTENDS Glob
A == <<"a">>
B == <<"b">>
H == <<".", "a">>
AB == <<"a", "b">>
MCCode == "." :> 0 @@ "a" :> 1 @@ "b" :> 2
D == [kind |-> "dir", io |-> FALSE]
Bad == [kind |-> "dir", io |-> TRUE]
F == [kind |-> "file"]
L(p) == [kind |-> "link", to |-> p]
MCTrees == {
  <<A>> :> D @@ <<A, B>> :> F @@ <<A, H>> :> F @@ <<B>> :> F,
  <<A>> :> D @@ <<A, B>> :> D @@ <<A, B, AB>> :> F @@ <<H>> :> D @@ <<H, B>> :> F,
  <<A>> :> D @@ <<A, B>> :> L(<<A>>) @@ <<A, AB>> :> F @@ <<B>> :> L(<<A>>),
  <<A>> :> L(<<B>>) @@ <<B>> :> D @@ <<B, A>> :> L(<<>>) @@ <<B, AB>> :> L(Nowhere),
  <<A>> :> L(<<B, B>>) @@ <<B>> :> D @@ <<B, B>> :> D @@ <<B, B, H>> :> F @@ <<B, A>> :> L(<<B, B, H>>),
  <<A>> :> Bad @@ <<A, B>> :> F @@ <<B>> :> D @@ <<B, A>> :> F}
S == Star
DS == DoubleStar
E == <<>>
MCPatterns == {<<A>>, <<A, B>>, <<S>>, <<DS>>, <<A, DS>>, <<A, DS, S>>, <<B, DS, S>>, <<S, B>>, <<DS, B>>, <<DS, A, DS>>,
  <<S, E>>, <<DS, E>>, <<A, E>>, <<B, A, S>>, <<DS, A, S>>, <<A, DS, B>>, <<S, DS>>,
  <<<<"a", "*">>>>, <<S, <<"?", "b">>>>, <<S, <<"[", "!", "a", "]", "*">>>>, <<DS, <<"[", "a", "-", "b", "]">>>>, <<S, <<"[", "b">>>>}
MCEntry(p, n, f, k) == [glob |-> p, negate |-> n, fp |-> f, group |-> k, folded |-> FALSE]
MCEntries(k) == {MCEntry(p, n, <<>>, k) : p \in MCPatterns, n \in BOOLEAN}
MCInc(k) == {MCEntry(p, FALSE, <<>>, k) : p \in MCPatterns}
MCExc(k) == {MCEntry(p, TRUE, <<>>, k) : p \in MCPatterns}
MCLists == {<<i, e>> : i \in MCInc(0), e \in MCExc(0)}
  \union {<<e, i>> : e \in MCExc(0), i \in MCInc(1)}
  \union {<<i, x, e>> : i \in MCInc(0), x \in {MCEntry(<<A, DS, S>>, FALSE, <<A, B>>, 0), MCEntry(<<B>>, TRUE, <<A, B>>, 0)},
                        e \in {MCEntry(<<DS, A, DS>>, TRUE, <<>>, 0), MCEntry(<<A, B>>, TRUE, <<>>, 0)}}
=============================================================================
