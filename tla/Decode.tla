------------------------------- MODULE Decode -------------------------------
(***************************************************************************)
(* A YAML document loaded into a Value: taskcore/src/yaml/loader.rs         *)
(* (next_document), de.rs (the event deserializer), value_de.rs and         *)
(* mapping.rs (what a Value and a Mapping make of it): the first step of    *)
(* reader/read.rs decode.                                                   *)
(*                                                                          *)
(* The parser is a library: Node and End stand for the events it can        *)
(* produce.  Its anchors are numbered as they are met, so an alias may      *)
(* refer to a node that is still open.  A scalar's text is a class: a word, *)
(* "null", "true", "int" (64 bits), "int128" (more), "int999" (more than    *)
(* 128), "0022" (leading zero), "1.5" or "".  Positions in the text, and    *)
(* re-indenting what the parser refuses, are left out.                      *)
(***************************************************************************)
EXTENDS Naturals, Sequences, FiniteSets, SequencesExt, FiniteSetsExt

CONSTANTS
  Scalars,        \* scalars met: [text, style, tag]
  Tags,           \* tags of collections
  Beginnings,     \* events a document may begin with
  MaxMore,        \* bound: events after those
  RecursionLimit, \* RECURSION_LIMIT
  AliasFactor     \* jump: aliases allowed, per event of the document

VARIABLES events,  \* Document::events: [kind, text, style, tag, id, of]
          aliases, \* Document::aliases: anchor id -> position
          rest,    \* what follows them: "unread", "error", "nothing", "document"
          begun,   \* the length of the beginning
          result   \* of the decode: [done, ok, value, hops]

vars == <<events, aliases, rest, begun, result>>

\* A node's anchor is its id, 0 for none; an alias is of an anchor.
Event(kind, tag) == [kind |-> kind, text |-> "", style |-> "plain", tag |-> tag, id |-> 0, of |-> 0]
Starts == {"seq", "map"}
Val(kind, text, items) == [kind |-> kind, text |-> text, items |-> items]
Null == Val("null", "", <<>>)

(***************************************************************************)
(* Loading.                                                                *)
(***************************************************************************)
\* External: the parser's open collections, the innermost first, with how many
\* nodes each has.
Opened(es) ==
  LET counted(a) == IF a = <<>> THEN a ELSE <<[Head(a) EXCEPT !.n = @ + 1]>> \o Tail(a)
      step(a, e) == IF e.kind = "end" THEN Tail(a)
                    ELSE IF e.kind \in Starts THEN <<[kind |-> e.kind, n |-> 0]>> \o counted(a) ELSE counted(a)
  IN  FoldLeft(step, <<>>, es)
open == Opened(events)

\* The index of every anchor's node.
Anchored(es) == [i \in {e.id : e \in Range(es)} \ {0} |-> CHOOSE k \in DOMAIN es : es[k].id = i]

Init ==
  /\ events \in Beginnings /\ aliases = Anchored(events) /\ begun = Len(events)
  /\ rest = "unread" /\ result = [done |-> FALSE, ok |-> FALSE, value |-> Null, hops |-> 0]

Nodes ==
  LET ids == {0, 1 + Cardinality(DOMAIN aliases)}
  IN  {[Event("scalar", s.tag) EXCEPT !.text = s.text, !.style = s.style, !.id = i] : s \in Scalars, i \in ids}
      \union {[Event("alias", "none") EXCEPT !.of = i] : i \in DOMAIN aliases}
      \union {[Event(k, t) EXCEPT !.id = i] : k \in Starts, t \in Tags, i \in ids}

\* next_document: an event is pushed, the anchor of a node at its index.
Loaded(e) ==
  /\ events' = Append(events, e)
  /\ aliases' = IF e.id = 0 THEN aliases
                ELSE [i \in DOMAIN aliases \union {e.id} |-> IF i = e.id THEN Len(events) + 1 ELSE aliases[i]]

Node ==
  /\ rest = "unread" /\ (events = <<>> \/ open # <<>>) /\ Len(events) < begun + MaxMore
  /\ \E e \in Nodes : Loaded(e)
  /\ UNCHANGED <<rest, begun, result>>

\* A mapping ends after a value.
End ==
  /\ rest = "unread" /\ open # <<>> /\ (open[1].kind = "map" => open[1].n % 2 = 0)
  /\ Loaded(Event("end", "none"))
  /\ UNCHANGED <<rest, begun, result>>

\* A parse error: the events before it are kept.
Refused ==
  /\ rest = "unread" /\ rest' = "error"
  /\ UNCHANGED <<events, aliases, begun, result>>

\* The document ends; another one after it is seen, even if malformed.
Ended ==
  /\ rest = "unread" /\ events # <<>> /\ open = <<>>
  /\ rest' \in {"nothing", "document"}
  /\ UNCHANGED <<events, aliases, begun, result>>

\* end_of_stream: no document at all.
Empty ==
  /\ rest = "unread" /\ events = <<>> /\ rest' = "nothing"
  /\ Loaded(Event("void", "none"))
  /\ UNCHANGED <<begun, result>>

(***************************************************************************)
(* Decoding, as ValueVisitor asks for it.  s is [ok, pos, jumps, hops, v]:  *)
(* jumps is jumpcount, hops all the aliases followed.                       *)
(***************************************************************************)
Failed(s) == [s EXCEPT !.ok = FALSE]
Gives(s, v) == [s EXCEPT !.v = v]

\* visit_untagged_scalar.  An integer of more than 64 bits reaches a visitor
\* that takes none; one of more than 128 is a float.
Untagged(s, text) ==
  CASE text \in {"", "null"} -> Gives(s, Null)
    [] text = "true" -> Gives(s, Val("bool", text, <<>>))
    [] text = "int" -> Gives(s, Val("int", text, <<>>))
    [] text = "int128" -> Failed(s)
    [] text \in {"int999", "1.5"} -> Gives(s, Val("float", text, <<>>))
    [] OTHER -> Gives(s, Val("str", text, <<>>))

\* visit_scalar: a standard tag decides, unless the node was tagged already.
Scalar(s, e, tagged) ==
  CASE tagged \/ e.tag = "none" -> IF e.style = "plain" THEN Untagged(s, e.text) ELSE Gives(s, Val("str", e.text, <<>>))
    [] ~tagged /\ e.tag = "!!bool" -> IF e.text = "true" THEN Untagged(s, e.text) ELSE Failed(s)
    [] ~tagged /\ e.tag = "!!int" -> IF e.text = "int" THEN Untagged(s, e.text) ELSE Failed(s)
    [] ~tagged /\ e.tag = "!!float" ->
         IF e.text \in {"int", "0022", "int128", "int999", "1.5"}
         THEN Gives(s, Val("float", e.text, <<>>)) ELSE Failed(s)
    [] ~tagged /\ e.tag = "!!null" -> IF e.text = "null" THEN Untagged(s, e.text) ELSE Failed(s)
    [] OTHER -> Gives(s, Val("str", e.text, <<>>))
EnumTag(tag) == tag = "!t"

\* jump: the count is one for the document.
Jump(s) ==
  IF s.jumps + 1 > Len(events) * AliasFactor THEN Failed(s) ELSE [s EXCEPT !.jumps = @ + 1, !.hops = @ + 1]

\* Mutant: what follows is read after the anchored node.
Back_There(s, r) == r
\* The position an alias is read at is its own: after it, what follows it is next.
Back(s, r) == [r EXCEPT !.pos = s.pos]

\* Mapping: an entry whose key is there already is refused.
Taken(items, key) == \E k \in DOMAIN items : k % 2 = 1 /\ items[k] = key

\* end_sequence, end_mapping: nothing is left, and the end is read.
Closed(s, kind, items) == [s EXCEPT !.pos = @ + 1, !.v = Val(kind, "", items)]
\* EnumAccess: a node tagged "!t" is read again, its tag known.
Tagged(r, tag) == Gives(r, Val("tagged", tag, <<r.v>>))

RECURSIVE ReadAny(_, _, _), Collection(_, _, _), Elements(_, _, _), Entries(_, _, _)
\* deserialize_any.
ReadAny(s, tagged, depth) ==
  LET e == events[s.pos]
      next == [s EXCEPT !.pos = @ + 1]
      j == Jump(next)
  IN  IF s.pos > Len(events) THEN Failed(s)
      ELSE CASE e.kind = "alias" ->
                  IF ~j.ok THEN j ELSE Back(next, ReadAny([j EXCEPT !.pos = aliases[e.of]], FALSE, depth))
             [] e.kind \in Starts \union {"scalar"} /\ ~tagged /\ EnumTag(e.tag) ->
                  Tagged(ReadAny(s, TRUE, depth), e.tag)
             [] e.kind = "scalar" /\ (tagged \/ ~EnumTag(e.tag)) -> Scalar(next, e, tagged)
             [] e.kind \in Starts /\ (tagged \/ ~EnumTag(e.tag)) -> Collection(next, e.kind, depth)
             [] e.kind = "end" -> Failed(s)
             [] e.kind = "void" -> Gives(next, Null)

\* visit_sequence, visit_mapping and recursion_check.
Collection(s, kind, depth) ==
  IF depth = 0 THEN Failed(s)
  ELSE IF kind = "seq" THEN Elements(s, depth - 1, <<>>) ELSE Entries(s, depth - 1, <<>>)

\* SeqAccess.
Elements(s, depth, items) ==
  LET r == ReadAny(s, FALSE, depth)
  IN  IF s.pos > Len(events) THEN Failed(s)
      ELSE IF events[s.pos].kind = "end" THEN Closed(s, "seq", items)
      ELSE IF ~r.ok THEN r ELSE Elements(r, depth, Append(items, r.v))

\* MapAccess: a key, and unless it is taken its value.
Entries(s, depth, items) ==
  LET k == ReadAny(s, FALSE, depth)
      r == ReadAny(k, FALSE, depth)
  IN  IF s.pos > Len(events) THEN Failed(s)
      ELSE IF events[s.pos].kind = "end" THEN Closed(s, "map", items)
      ELSE IF ~k.ok THEN k
      ELSE IF Taken(items, k.v) THEN Failed(k)
      ELSE IF ~r.ok THEN r ELSE Entries(r, depth, items \o <<k.v, r.v>>)

\* deserialize_document and finish: then a parse error after what was read, or
\* another document, refuses it.
Finished(r) == r.ok /\ rest \notin {"error", "document"}

Decoded ==
  /\ rest # "unread" /\ ~result.done
  /\ LET r == ReadAny([ok |-> TRUE, pos |-> 1, jumps |-> 0, hops |-> 0, v |-> Null], FALSE, RecursionLimit)
     IN  result' = [done |-> TRUE, ok |-> Finished(r), value |-> IF Finished(r) THEN r.v ELSE Null, hops |-> r.hops]
  /\ UNCHANGED <<events, aliases, rest, begun>>

Next == Node \/ End \/ Refused \/ Ended \/ Empty \/ Decoded
Spec == Init /\ [][Next]_vars

(***************************************************************************)
(* What a document means, from how its events nest and not from how they    *)
(* are read: Children are the nodes one level below, found by counting.     *)
(***************************************************************************)
Level(i) == Len(Opened(SubSeq(events, 1, i - 1)))
Children(i) ==
  LET below == Level(i) + 1
      end == Min({j \in (i + 1)..Len(events) : events[j].kind = "end" /\ Level(j) = below})
  IN  SelectSeq([j \in DOMAIN events |-> j], LAMBDA j : i < j /\ j < end /\ events[j].kind # "end" /\ Level(j) = below)
Target(i) == IF events[i].kind = "alias" THEN CHOOSE j \in DOMAIN events : events[j].id = events[i].of ELSE i

\* More than n collections within each other, from node i on.
RECURSIVE Deeper(_, _)
Deeper(i, n) ==
  LET t == Target(i)
      kids == Children(t)
  IN  events[t].kind \in Starts /\ (n = 0 \/ \E k \in DOMAIN kids : Deeper(kids[k], n - 1))

\* How many aliases are met when every alias stands for its node.
RECURSIVE Met(_)
Met(i) ==
  LET t == Target(i)
      kids == Children(t)
      below == IF events[t].kind \in Starts THEN FoldLeft(LAMBDA a, n : a + n, 0, [k \in DOMAIN kids |-> Met(kids[k])]) ELSE 0
  IN  below + IF t # i THEN 1 ELSE 0

\* The value of a node, and whether it has one.
RECURSIVE Meaning(_)
Meaning(i) ==
  LET t == Target(i)
      e == events[t]
      none == [ok |-> TRUE, pos |-> 0, jumps |-> 0, hops |-> 0, v |-> Null]
      kids == Children(t)
      under == [k \in DOMAIN kids |-> Meaning(kids[k])]
      bare == IF e.kind = "scalar" THEN Scalar(none, e, EnumTag(e.tag))
              ELSE [ok |-> /\ \A k \in DOMAIN under : under[k].ok
                           /\ e.kind = "map" => \A j, k \in {n \in DOMAIN under : n % 2 = 1} : j # k => under[j].v # under[k].v,
                    v |-> Val(e.kind, "", [k \in DOMAIN under |-> under[k].v])]
  IN  [ok |-> bare.ok, v |-> IF EnumTag(e.tag) THEN Val("tagged", e.tag, <<bare.v>>) ELSE bare.v]

(***************************************************************************)
(* Properties.                                                             *)
(***************************************************************************)
\* A Taskfile is read as what it says, or refused: the value is the tree of the
\* document with the anchored node in the place of every alias, and there is one
\* exactly if the document is whole and the only one, nests no deeper than
\* RECURSION_LIMIT (an alias inside its own node never ends), stays within the
\* limit on aliases and gives no mapping the same key twice.
LoadedExactly ==
  result.done =>
    IF rest = "nothing" /\ events[1].kind # "void" /\ ~Deeper(1, RecursionLimit)
    THEN LET m == Meaning(1)
         IN  /\ result.ok <=> m.ok /\ Met(1) <= Len(events) * AliasFactor
             /\ result.ok => result.value = m.v
    ELSE result.ok <=> rest = "nothing" /\ events[1].kind = "void"

\* A document of aliases to aliases costs no more than its length allows,
\* accepted or not (alias_expansion_is_limited).
ExpansionBounded == result.hops <= Len(events) * AliasFactor
=============================================================================
