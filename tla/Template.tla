------------------------------ MODULE Template ------------------------------
(***************************************************************************)
(* taskcore/src/templater.rs: a Go template action is rewritten as text    *)
(* for minijinja, which then parses and evaluates it.                      *)
(*                                                                         *)
(* A text is a sequence of atoms: names, fields, literals, parentheses,    *)
(* commas and bars.  Values are terms <<function, arguments ...>>: two     *)
(* texts mean the same when they evaluate to the same term.  The functions *)
(* stand for their kinds: "upper" and "trimPrefix" mean the same before    *)
(* and after a pipe, "title" has a minijinja filter of another meaning,    *)
(* "default" has only a filter, "joinPath" only a function, "OS" takes no  *)
(* argument, and "uuid" is not mapped.                                     *)
(***************************************************************************)
EXTENDS Naturals, Sequences, SequencesExt

CONSTANT Actions    \* the pipelines users write, as Go parses them

VARIABLES
  written,  \* one of Actions
  dialect,  \* of the file it is in, "unknown" until it is detected
  text,     \* what is given to minijinja
  shown     \* what it renders to, None before

vars == <<written, dialect, text, shown>>

None == <<"none">>
Refused == <<"error">>     \* an error naming the construct; nothing is rendered

Field == ".A"              \* a variable that is set
Unset == ".upper"          \* one that is not, and has the name of a helper
Fields == {Field, Unset}
Operators == {"and", "or", "not"}
MappedFuncs == {"upper", "trimPrefix", "title", "default", "joinPath", "OS"} \union Operators

\* The mutant of CallAfterPipe: title becomes minijinja's filter.
CallAfterPipe_None == {}

CallAfterPipe == {"title"}
RejectedKeywords == {"range"}
Unmapped == {"uuid"} \union RejectedKeywords

-----------------------------------------------------------------------------
(* What a text means to Go: an operand is an atom or a pipeline in parens, *)
(* a command its first operand and the others, a pipeline its commands.    *)

Atom(a) == [atom |-> a, sub |-> <<>>]
Paren(p) == [atom |-> "(", sub |-> p]
Command(first, args) == <<first>> \o args

Arity(f) == CASE f = "OS" -> {0}
              [] f \in {"upper", "title", "not"} -> {1}
              [] f = "trimPrefix" -> {2}
              [] f = "joinPath" -> 0 .. 4
              [] f \in {"default", "and", "or"} -> 1 .. 4
              [] OTHER -> {}

\* sprig's default looks at the first value given; `and` of one is that one.
Applied(f, args) ==
  IF Refused \in Range(args) \/ Len(args) \notin Arity(f) THEN Refused
  ELSE IF f \in {"default", "and", "or"} /\ Len(args) = 1 THEN args[1]
  ELSE IF f = "default" THEN <<f, args[1], args[2]>>
  ELSE <<f>> \o args

RECURSIVE Meaning(_), OperandMeaning(_)
OperandMeaning(o) ==
  IF o.atom = "(" THEN Meaning(o.sub)
  ELSE IF o.atom \in MappedFuncs THEN Applied(o.atom, <<>>)
  ELSE <<o.atom>>

\* Go appends the piped value to a command's arguments.
Meaning(p) ==
  LET Run(piped, c) ==
        LET args == [i \in 1 .. Len(c) - 1 |-> OperandMeaning(c[i + 1])] \o piped
        IN  <<IF c[1].atom \in MappedFuncs THEN Applied(c[1].atom, args)
              ELSE IF args # <<>> \/ c[1].atom \in Unmapped THEN Refused ELSE OperandMeaning(c[1])>>
  IN  FoldLeft(Run, <<>>, p)[1]

RECURSIVE Printed(_)
Printed(p) ==
  LET Operand(o) == IF o.atom = "(" THEN <<"(">> \o Printed(o.sub) \o <<")">> ELSE <<o.atom>>
      Segment(c) == FlattenSeq([i \in DOMAIN c |-> Operand(c[i])])
  IN  FlattenSeq([i \in DOMAIN p |-> IF i = 1 THEN Segment(p[i]) ELSE <<"|">> \o Segment(p[i])])

-----------------------------------------------------------------------------
(* The dialect *)

HasDottedAccess(s) == Fields \intersect Range(s) # {}

\* action_looks_go: a field, a function without its parentheses, or a call with
\* its arguments after a space.
ActionLooksGo(s) ==
  \/ HasDottedAccess(s)
  \/ s = <<"OS">>
  \/ s[1] \in MappedFuncs /\ Len(s) > 1
  \/ s[1] \in RejectedKeywords

-----------------------------------------------------------------------------
(* The translation *)

\* How deep in parentheses the text is after each atom; a `)` too many is let
\* pass (saturating_sub).
Depths(s) ==
  LET Deeper(ds, a) ==
        LET d == Last(ds)
        IN  Append(ds, CASE a = "(" -> d + 1 [] a = ")" /\ d > 0 -> d - 1 [] OTHER -> d)
  IN  Tail(FoldLeft(Deeper, <<0>>, s))

\* The members of a set of places in a text, in order.
InOrder(places, n) == SelectSeq([i \in 1 .. n |-> i], LAMBDA i : i \in places)

\* The pieces of s that end before the atoms at cuts.
Pieces(s, cuts) ==
  LET ends == Append(InOrder(cuts, Len(s)), Len(s) + 1)
  IN  [i \in DOMAIN ends |-> SubSeq(s, IF i = 1 THEN 1 ELSE ends[i - 1] + 1, ends[i] - 1)]

\* split_pipeline: at the bars outside parentheses.
SplitPipeline(s) ==
  LET d == Depths(s) IN Pieces(s, {i \in DOMAIN s : s[i] = "|" /\ d[i] = 0})

\* tokenize: at the spaces outside parentheses.
Tokenize(s) ==
  LET d == Depths(s)
      ends == InOrder({i \in DOMAIN s : d[i] = 0 \/ i = Len(s)}, Len(s))
  IN  [k \in DOMAIN ends |-> SubSeq(s, IF k = 1 THEN 1 ELSE ends[k - 1] + 1, ends[k])]

RewriteDots(tok) ==
  [i \in DOMAIN tok |-> IF tok[i] = Field THEN "A" ELSE IF tok[i] = Unset THEN "upper" ELSE tok[i]]

IsBareIdentifier(tok) == Len(tok) = 1 /\ tok[1] \in MappedFuncs \union Unmapped

Separated(args, by) ==
  FlattenSeq([i \in DOMAIN args |-> IF i = 1 THEN args[i] ELSE <<by>> \o args[i]])

Called(f, args) == <<f, "(">> \o Separated(args, ",") \o <<")">>

\* join_segment: the first segment is the expression, a later one a filter.
JoinSegment(expr, rendered) == IF expr = <<>> THEN rendered ELSE expr \o <<"|">> \o rendered

\* translate_default: minijinja's filter, for any empty value.
TranslateDefault(idx, args, expr) ==
  LET Filter(fallback, subject) == subject \o <<"|">> \o Called("default", <<fallback, <<"true">>>>)
  IN  CASE idx = 1 /\ Len(args) = 1 -> args[1]
        [] idx = 1 /\ Len(args) = 2 -> Filter(args[1], args[2])
        [] idx > 1 /\ Len(args) = 1 -> Filter(args[1], expr)
        [] OTHER -> Refused

RECURSIVE TranslateAction(_)
\* translate_arg: what is in parentheses is translated, without them.
TranslateArg(tok) ==
  IF Len(tok) > 1 /\ Head(tok) = "(" /\ Last(tok) = ")"
  THEN TranslateAction(SubSeq(tok, 2, Len(tok) - 1)) ELSE RewriteDots(tok)

Operator(op, args) ==
  <<"(">> \o (IF op = "not" THEN <<"not">> \o FlattenSeq(args) ELSE Separated(args, op)) \o <<")">>

\* One segment: what has been built so far, and its place.
TranslateSegment(expr, idx, segment) ==
  LET tokens == Tokenize(segment)
      first == tokens[1]
      args == [i \in 1 .. Len(tokens) - 1 |-> TranslateArg(tokens[i + 1])]
      f == first[1]
  IN  IF tokens = <<>> \/ Refused \in Range(args) THEN Refused
      ELSE IF first \in {<<op>> : op \in Operators} THEN JoinSegment(expr, Operator(f, args))
      ELSE IF IsBareIdentifier(first)
      THEN CASE f \notin MappedFuncs -> Refused
             [] f = "default" -> TranslateDefault(idx, args, expr)
             [] f \in CallAfterPipe /\ idx > 1 -> Called(f, Append(args, expr))
             [] OTHER -> JoinSegment(expr, Called(f, args))
      ELSE IF idx > 1 \/ args # <<>> THEN Refused ELSE TranslateArg(first)

TranslateAction(body) ==
  LET segments == SplitPipeline(body)
      One(expr, i) == IF expr = Refused THEN expr ELSE TranslateSegment(expr, i, segments[i])
  IN  IF body = <<>> THEN <<>>
      ELSE IF body[1] \in RejectedKeywords THEN Refused
      ELSE FoldLeft(One, <<>>, [i \in DOMAIN segments |-> i])

-----------------------------------------------------------------------------
(* minijinja: `or` binds least, then `and`, `not`, and filters most.  A    *)
(* parser gives the term it read and the rest of the text.                 *)

\* register_helpers: a global is found wherever no variable has its name.
Globals == {"upper", "trimPrefix", "title", "joinPath", "OS"}
Filters == {"upper", "trimPrefix"}

CalledAs(f, args) == IF f \in Globals THEN Applied(f, args) ELSE Refused

\* register_helpers: a filter takes its subject first; the builtin title and
\* the builtin default are others than sprig's.
FilteredBy(f, args, subject) ==
  CASE f \in Filters -> Applied(f, Append(args, subject))
    [] f = "title" -> IF args = <<>> THEN <<"jinja title", subject>> ELSE Refused
    [] f = "default" /\ Len(args) = 2 /\ Last(args) = <<"true">> -> Applied(f, <<args[1], subject>>)
    [] f = "default" /\ Len(args) = 1 -> <<"jinja default", args[1], subject>>
    [] OTHER -> Refused

Read(term, rest) == [term |-> term, rest |-> rest]
Bad == Read(Refused, <<>>)
Next1(s, a) == s # <<>> /\ Head(s) = a

RECURSIVE ReadOr(_), ReadAnd(_), ReadNot(_), ReadFilters(_), ReadArgs(_)

\* The arguments up to the closing parenthesis.
ReadArgs(s) ==
  IF Next1(s, ")") THEN [args |-> <<>>, rest |-> Tail(s)]
  ELSE LET one == ReadOr(s)
       IN  IF one.term = Refused \/ ~(Next1(one.rest, ",") \/ Next1(one.rest, ")"))
           THEN [args |-> <<Refused>>, rest |-> <<>>]
           ELSE LET more == ReadArgs(IF Next1(one.rest, ",") THEN Tail(one.rest) ELSE one.rest)
                IN  [args |-> <<one.term>> \o more.args, rest |-> more.rest]

ReadPrimary(s) ==
  IF s = <<>> THEN Bad
  ELSE IF s[1] = "(" THEN
    LET in == ReadOr(Tail(s))
    IN  IF in.term # Refused /\ Next1(in.rest, ")") THEN Read(in.term, Tail(in.rest)) ELSE Bad
  ELSE IF s[1] \in {")", ",", "|", "range"} \union Fields \union Operators THEN Bad
  ELSE IF Next1(Tail(s), "(") THEN
    LET a == ReadArgs(SubSeq(s, 3, Len(s))) IN Read(CalledAs(s[1], a.args), a.rest)
  ELSE Read(IF s[1] = "A" THEN <<Field>>
            ELSE IF s[1] \in Globals THEN <<"function", <<s[1]>>>> ELSE <<s[1]>>, Tail(s))

ReadFilters(p) ==
  IF p.term = Refused \/ ~Next1(p.rest, "|") THEN p
  ELSE LET s == Tail(p.rest)
           a == IF Len(s) > 1 /\ s[2] = "(" THEN ReadArgs(SubSeq(s, 3, Len(s)))
                ELSE [args |-> <<>>, rest |-> Tail(s)]
       IN  IF s = <<>> \/ Refused \in Range(a.args) THEN Bad
           ELSE ReadFilters(Read(FilteredBy(s[1], a.args, p.term), a.rest))

ReadNot(s) ==
  IF Next1(s, "not") THEN LET x == ReadNot(Tail(s)) IN Read(Applied("not", <<x.term>>), x.rest)
  ELSE ReadFilters(ReadPrimary(s))

RECURSIVE ReadChain(_, _)
ReadChain(op, s) ==
  LET one == IF op = "or" THEN ReadAnd(s) ELSE ReadNot(s)
  IN  IF Next1(one.rest, op)
      THEN LET more == ReadChain(op, Tail(one.rest))
           IN  [args |-> <<one.term>> \o more.args, rest |-> more.rest]
      ELSE [args |-> <<one.term>>, rest |-> one.rest]
ReadAnd(s) == LET c == ReadChain("and", s) IN Read(Applied("and", c.args), c.rest)
ReadOr(s) == LET c == ReadChain("or", s) IN Read(Applied("or", c.args), c.rest)

Evaluated(s) == LET e == ReadOr(s) IN IF e.rest = <<>> THEN e.term ELSE Refused

-----------------------------------------------------------------------------
Init ==
  /\ written \in Actions
  /\ dialect = "unknown" /\ text = Printed(written) /\ shown = None

\* detect_dialect, for a file whose only action this is.
DetectDialect ==
  /\ dialect = "unknown"
  /\ dialect' = IF ActionLooksGo(text) THEN "go" ELSE "jinja"
  /\ UNCHANGED <<written, text, shown>>

\* render: a Go text is translated, and then evaluated by the environment of
\* its dialect, where undefined variables are empty.
Render ==
  /\ dialect # "unknown" /\ shown = None
  /\ text' = IF dialect = "go" THEN TranslateAction(text) ELSE text
  /\ shown' = IF text' = Refused THEN Refused ELSE Evaluated(text')
  /\ UNCHANGED <<written, dialect>>

Next == DetectDialect \/ Render
Spec == Init /\ [][Next]_vars

-----------------------------------------------------------------------------
\* A function named without parentheses where a value is meant: `eq OS "linux"`
\* is translated to a comparison with the function itself.
RECURSIVE NamesFunction(_)
NamesFunction(p) ==
  \E c \in Range(p) :
    \/ \E i \in 2 .. Len(c) : c[i].atom = "OS"
    \/ dialect = "jinja" /\ c[1].atom \in Globals /\ c = p[1]
    \/ \E o \in Range(c) : o.atom = "(" /\ NamesFunction(o.sub)

\* A variable that is not set and has the name of a helper renders the helper,
\* where Go renders nothing.
RECURSIVE NamesHelper(_)
NamesHelper(p) ==
  \E c \in Range(p) : \E o \in Range(c) :
    o.atom = Unset \/ (o.atom = "(" /\ NamesHelper(o.sub))

\* What no translation exists for, and is refused.
RECURSIVE Unsupported(_)
Unsupported(p) ==
  \E i \in DOMAIN p :
    \/ i > 1 /\ p[i][1].atom \in {"joinPath", "and", "or", "not"}
    \/ p[i][1].atom = "default" /\ Len(p[i]) # 2 /\ ~(i = 1 /\ Len(p[i]) = 3)
    \/ \E o \in Range(p[i]) : o.atom = "(" /\ Unsupported(o.sub)

\* minijinja's own title, where nothing in the file tells that it is Go.
JinjaTitle == dialect = "jinja" /\ \E i \in 2 .. Len(written) : written[i][1].atom = "title"

\* "anything this module cannot render faithfully produces a clear error
\* instead of silently-wrong output" (templater.rs), but for a function that is
\* named and not called, for an unset variable that has a helper's name, and for
\* a `title` in a file that is not told to be Go; and what has a translation is
\* not refused.
RenderedFaithfully ==
  shown # None /\ Meaning(written) # Refused
    /\ ~(NamesFunction(written) \/ NamesHelper(written) \/ JinjaTitle) =>
    /\ shown \in {Meaning(written), Refused}
    /\ dialect = "go" /\ ~Unsupported(written) => shown = Meaning(written)
=============================================================================
