------------------------------- MODULE Output -------------------------------
(***************************************************************************)
(* Running shell commands under an output style: execext::run_command, the *)
(* drain threads behind captured streams, exec_shell, and the group,       *)
(* prefixed and interleaved styles.                                        *)
(*                                                                         *)
(* The engine is one thread.  A command under a capturing style writes     *)
(* into two pipes, each drained by a thread of its own into a buffer; when *)
(* the shell is done the engine *blocks* until both drains saw end of      *)
(* file, and only then replays the buffers through the style.  A process   *)
(* the command left in the background keeps the write ends open.  The      *)
(* replay is several writes to a line-buffered stdout, and commands that   *)
(* inherited the terminal write to it at any time.                         *)
(***************************************************************************)
EXTENDS Naturals, Sequences, SequencesExt, FiniteSets

CONSTANTS Cmds,      \* the commands of one run
          Programs,  \* what a command may do: [writes, child, ok, opts, live, boxed]
          Styles,    \* the output styles tried
          Permits    \* the limiter's permits

\* A program's writes are <<stream, text>>, the text a sequence of bytes in
\* which NL ends a line.  child: it leaves a background process that holds
\* its streams and may still write; ok: it exits zero; opts: its set/shopt
\* options apply; live: `interactive: true`; boxed: it runs sandboxed.
NL == "nl"
Streams == {"out", "err"}

VARIABLES style,   \* [name, error_only, marked]
          prog,    \* the program of each command
          pc,      \* where each command's future is
          left,    \* the writes it has still to make
          wrote,   \* what was written to each stream, whoever wrote it
          pipe,    \* written and not yet drained
          buf,     \* drained: SharedBytes
          holders, \* who holds the write ends
          eof,     \* the streams whose drain thread has ended
          engine,  \* the command whose join or replay has the engine, or None
          queue,   \* what its replay has still to write
          stash,   \* in the engine's stdout: written and without a newline yet
          term,    \* the terminal: <<command, kind, bytes>> as written
          broken   \* history: commands with a write of their replay failed

vars == <<style, prog, pc, left, wrote, pipe, buf, holders, eof, engine, queue, stash, term, broken>>
screen == <<queue, stash, term, broken>>
None == "none"

Captured(c) == ~prog[c].live /\ style.name # "interleaved"
Running == {c \in Cmds : pc[c] \in {"running", "joining"}}
EngineFree == engine = None
\* A sandboxed command's shell is polled on a worker thread of its own.
Polled(c) == EngineFree \/ prog[c].boxed

Init ==
    /\ style \in Styles
    /\ prog \in [Cmds -> Programs]
    /\ pc = [c \in Cmds |-> "queued"]
    /\ left = [c \in Cmds |-> prog[c].writes]
    /\ wrote = [c \in Cmds |-> [s \in Streams |-> <<>>]]
    /\ pipe = wrote
    /\ buf = wrote
    /\ holders = [c \in Cmds |-> {}]
    /\ eof = [c \in Cmds |-> {}]
    /\ engine = None
    /\ queue = <<>> /\ stash = <<>> /\ term = <<>>
    /\ broken = {}

----------------------------------------------------------------------------
(* The styles.                                                             *)

\* The lines of a byte sequence, a last partial one included.
Lines(bytes) ==
    LET cut == FoldLeft(LAMBDA a, b : IF b = NL THEN <<Append(a[1], Append(a[2], b)), <<>>>>
                                               ELSE <<a[1], Append(a[2], b)>>,
                        <<<<>>, <<>>>>, bytes)
    IN IF cut[2] = <<>> THEN cut[1] ELSE Append(cut[1], cut[2])

\* PrefixWriter: the buffer is cut at newlines, what is left over is written
\* when the style closes, and a line without its newline gets one.
PrefixedOut(c, bytes) ==
    LET Whole(l) == IF Last(l) = NL THEN l ELSE Append(l, NL)
        ls == Lines(bytes)
    IN [i \in 1 .. Len(ls) |-> <<c, "prefixed", Whole(ls[i])>>]

\* GroupBuf::flush_block: nothing for an empty buffer, the markers around it
\* when the style has them.
GroupOut(c, bytes, failed) ==
    IF bytes = <<>> \/ (style.error_only /\ ~failed) THEN <<>>
    ELSE IF style.marked
         THEN <<<<c, "begin", <<>>>>, <<c, "block", bytes>>, <<c, "end", <<>>>>>>
         ELSE <<<<c, "block", bytes>>>>

\* exec_shell replays the whole of stdout, then the whole of stderr, into one
\* wrapped writer, and closes it with the command's outcome.
Replayed(c, failed) ==
    LET bytes == buf[c]["out"] \o buf[c]["err"]
    IN IF style.name = "group" THEN GroupOut(c, bytes, failed) ELSE PrefixedOut(c, bytes)

----------------------------------------------------------------------------
(* The engine and the commands.                                            *)

Acquire(c) ==
    /\ pc[c] = "queued" /\ EngineFree
    /\ Cardinality(Running) < Permits
    /\ pc' = [pc EXCEPT ![c] = "running"]
    /\ holders' = [holders EXCEPT ![c] = {"shell"}]
    /\ UNCHANGED <<style, prog, left, wrote, pipe, buf, eof, engine, screen>>

Blocks(c) == IF prog[c].boxed THEN engine ELSE c

\* The engine waits in finish_with for the drains; without drains there is
\* nothing to wait for.
Join(c) ==
    /\ pc' = [pc EXCEPT ![c] = "joining"]
    /\ engine' = Blocks(c)

\* The set/shopt prelude fails: finish_with is called with the shell, and so
\* the pipes' write ends, still alive.
PreludeFails(c) ==
    /\ pc[c] = "running" /\ Polled(c)
    /\ ~prog[c].opts
    /\ Join(c)
    /\ UNCHANGED <<style, prog, left, wrote, pipe, buf, holders, eof, screen>>

\* The shell, or the process it left behind, writes.
Put(c, s, bytes) ==
    /\ wrote' = [wrote EXCEPT ![c][s] = @ \o bytes]
    /\ IF Captured(c)
       THEN /\ pipe' = [pipe EXCEPT ![c][s] = @ \o bytes]
            /\ UNCHANGED term
       ELSE /\ term' = Append(term, <<c, "live", bytes>>)
            /\ UNCHANGED pipe

Write(c) ==
    /\ pc[c] = "running" /\ prog[c].opts /\ left[c] # <<>>
    /\ Put(c, Head(left[c])[1], Head(left[c])[2])
    /\ left' = [left EXCEPT ![c] = Tail(@)]
    /\ UNCHANGED <<style, prog, pc, buf, holders, eof, engine, queue, stash, broken>>

\* The mutant of ShellEnds: the shell is dropped only after the join.
ShellEnds_Held(c) ==
    /\ pc[c] = "running" /\ prog[c].opts /\ left[c] = <<>>
    /\ Polled(c)
    /\ Join(c)
    /\ UNCHANGED <<style, prog, left, wrote, pipe, buf, holders, eof, screen>>

\* The shell ends.  Its write ends are closed before the drains are joined.
ShellEnds(c) ==
    /\ pc[c] = "running" /\ prog[c].opts /\ left[c] = <<>>
    /\ Polled(c)
    /\ holders' = [holders EXCEPT ![c] = IF prog[c].child THEN {"child"} ELSE {}]
    /\ Join(c)
    /\ UNCHANGED <<style, prog, left, wrote, pipe, buf, eof, screen>>

\* The background process says one last thing and exits.
ChildExits(c) ==
    /\ "child" \in holders[c]
    /\ holders' = [holders EXCEPT ![c] = @ \ {"child"}]
    /\ Put(c, "out", <<"late", NL>>)
    /\ UNCHANGED <<style, prog, pc, left, buf, eof, engine, queue, stash, broken>>

\* A drain thread moves one read's bytes to the buffer.
Drain(c, s) ==
    /\ pipe[c][s] # <<>>
    /\ buf' = [buf EXCEPT ![c][s] = Append(@, Head(pipe[c][s]))]
    /\ pipe' = [pipe EXCEPT ![c][s] = Tail(@)]
    /\ UNCHANGED <<style, prog, pc, left, wrote, holders, eof, engine, screen>>

\* ... and ends when nobody can write any more.
DrainEnds(c, s) ==
    /\ Captured(c) /\ pc[c] # "queued" /\ s \notin eof[c]
    /\ pipe[c][s] = <<>> /\ holders[c] = {}
    /\ eof' = [eof EXCEPT ![c] = @ \cup {s}]
    /\ UNCHANGED <<style, prog, pc, left, wrote, pipe, buf, holders, engine, screen>>

\* The mutant of Joined: only one drain is joined.
Joined_OneStream(c) == ~Captured(c) \/ "out" \in eof[c]

Joined(c) == ~Captured(c) \/ eof[c] = Streams

\* run_command returns; the permit goes back and the buffers are replayed on the
\* engine's thread, with no await between.
Finish(c) ==
    /\ pc[c] = "joining" /\ engine \in {c, None}
    /\ Joined(c)
    /\ pc' = [pc EXCEPT ![c] = "writing"]
    /\ engine' = c
    /\ queue' = IF Captured(c) THEN Replayed(c, ~(prog[c].ok /\ prog[c].opts)) ELSE <<>>
    /\ UNCHANGED <<style, prog, left, wrote, pipe, buf, holders, eof, stash, term, broken>>

\* Up to where a write goes out: the last newline, if it has one; a marker ends with one.
Goes(r) ==
    IF r[2] \in {"begin", "end"} THEN {Len(r[3])}
    ELSE {n \in 1 .. Len(r[3]) : r[3][n] = NL /\ \A j \in n + 1 .. Len(r[3]) : r[3][j] # NL}
HeadOf(r, n) == <<r[1], r[2], SubSeq(r[3], 1, n)>>
TailOf(r, n) == IF n = Len(r[3]) THEN <<>> ELSE <<<<r[1], r[2], SubSeq(r[3], n + 1, Len(r[3]))>>>>

\* One write of the replay, through a stdout that keeps back what has no newline yet.
\* A write that fails ends the block of a group, and is dropped with its line, or
\* with all that is left, under the prefixed style; the command is none the wiser.
Emit(c) ==
    /\ pc[c] = "writing" /\ queue # <<>>
    /\ \/ /\ queue' = Tail(queue)
          /\ \/ \E n \in Goes(Head(queue)) :
                  /\ term' = (term \o stash) \o <<HeadOf(Head(queue), n)>>
                  /\ stash' = TailOf(Head(queue), n)
             \/ /\ Goes(Head(queue)) = {}
                /\ stash' = Append(stash, Head(queue))
                /\ UNCHANGED term
          /\ UNCHANGED broken
       \/ /\ queue' \in {<<>>} \cup (IF style.name = "group" THEN {} ELSE {Tail(queue)})
          /\ broken' = broken \cup {c}
          /\ UNCHANGED <<stash, term>>
    /\ UNCHANGED <<style, prog, pc, left, wrote, pipe, buf, holders, eof, engine>>

\* The style is closed, and the command has its result.
Report(c) ==
    /\ pc[c] = "writing" /\ queue = <<>>
    /\ pc' = [pc EXCEPT ![c] = "done"]
    /\ engine' = None
    /\ UNCHANGED <<style, prog, left, wrote, pipe, buf, holders, eof, screen>>

\* A failing sibling has the command's future dropped: the shell goes, the
\* drains are left to themselves and what they hold is not shown.
Dropped(c) ==
    /\ pc[c] = "running" /\ EngineFree
    /\ \E d \in Cmds : pc[d] = "done" /\ ~(prog[d].ok /\ prog[d].opts)
    /\ pc' = [pc EXCEPT ![c] = "dropped"]
    /\ holders' = [holders EXCEPT ![c] = {}]
    /\ UNCHANGED <<style, prog, left, wrote, pipe, buf, eof, engine, screen>>

Over == \A c \in Cmds : pc[c] \in {"done", "dropped"}

\* The process exits: its stdout is flushed.
Exit ==
    /\ Over /\ stash # <<>>
    /\ term' = term \o stash /\ stash' = <<>>
    /\ UNCHANGED <<style, prog, pc, left, wrote, pipe, buf, holders, eof, engine, queue, broken>>

Done == Over /\ UNCHANGED vars

Step(c) ==
    \/ Acquire(c) \/ PreludeFails(c) \/ Write(c) \/ ShellEnds(c)
    \/ ChildExits(c) \/ Finish(c) \/ Emit(c) \/ Report(c)
    \/ \E s \in Streams : Drain(c, s) \/ DrainEnds(c, s)

Next == (\E c \in Cmds : Step(c) \/ Dropped(c)) \/ Exit \/ Done

Spec == Init /\ [][Next]_vars

----------------------------------------------------------------------------
\* What the terminal shows, or will when the engine's stdout is flushed; the records
\* of a command in it, and their bytes.
Out == term \o stash
Of(c) == SelectSeq(Out, LAMBDA r : r[1] = c)
BytesOf(c) == FoldLeft(LAMBDA a, r : a \o r[3], <<>>, Of(c))
Closed(bytes) == IF bytes # <<>> /\ Last(bytes) # NL THEN Append(bytes, NL) ELSE bytes
Swallowed(c) == style.error_only /\ prog[c].ok /\ prog[c].opts

\* A finished command's captured output is on the terminal once and whole:
\* every byte of stdout, then every byte of stderr, also what a background
\* process wrote before the drains ended, between its markers, unless error_only
\* swallows it or the terminal refused a write.
NothingLost ==
    \A c \in Cmds : (pc[c] = "done" /\ Captured(c) /\ c \notin broken) =>
        LET all == wrote[c]["out"] \o wrote[c]["err"]
        IN /\ BytesOf(c) = IF style.name = "prefixed" THEN Closed(all)
                           ELSE IF Swallowed(c) THEN <<>> ELSE all
           /\ style.name = "group" /\ style.marked /\ Of(c) # <<>> =>
                Head(Of(c))[2] = "begin" /\ Last(Of(c))[2] = "end"

\* What is shown of a captured command is all that was ever written: both pipes
\* are drained to their ends, and nobody holds a write end any more.
Drained ==
    \A c \in Cmds : (pc[c] = "done" /\ Captured(c)) =>
        /\ holders[c] = {}
        /\ \A s \in Streams : buf[c][s] = wrote[c][s]

Records(c) == {i \in 1 .. Len(Out) : Out[i][1] = c}

\* Between two pieces of a command's output there are only pieces of its own and what
\* commands that have the terminal to themselves wrote there meanwhile.
Together(c) ==
    \A i, k \in Records(c) : \A j \in i .. k : Out[j][1] = c \/ Out[j][2] = "live"

\* A grouped command is on the terminal as one block, that no other command's block
\* cuts, whatever waits in the engine's stdout; before it is done nothing of it is
\* there.
BlocksWhole ==
    style.name = "group" => \A c \in Cmds : Captured(c) =>
        /\ Together(c)
        /\ pc[c] \in {"queued", "running", "joining"} => Records(c) = {}

\* Nobody waits for ever: until every command has ended, something (a command,
\* a drain thread, the engine's join) can go on.
GoesOn == ~Over => ENABLED (\E c \in Cmds : Step(c))

----------------------------------------------------------------------------
(* The inductive invariant behind Drained and BlocksWhole.                 *)
Symbols == {"late", NL} \cup
    UNION {UNION {Range(p.writes[i][2]) : i \in 1 .. Len(p.writes)} : p \in Programs}
Bytes == Seq(Symbols)
Kinds == {"live", "begin", "block", "end"}
ParametersOK ==
    /\ Programs \subseteq [writes : Seq(Streams \X Bytes), child : BOOLEAN, ok : BOOLEAN,
                            opts : BOOLEAN, live : BOOLEAN, boxed : BOOLEAN]
    /\ None \notin Cmds
    /\ Styles \subseteq [name : STRING, error_only : BOOLEAN, marked : BOOLEAN]

TypeOK ==
    /\ style \in Styles
    /\ prog \in [Cmds -> Programs]
    /\ pc \in [Cmds -> {"queued", "running", "joining", "writing", "done", "dropped"}]
    /\ left \in [Cmds -> Seq(Streams \X Bytes)]
    /\ wrote \in [Cmds -> [Streams -> Bytes]]
    /\ pipe \in [Cmds -> [Streams -> Bytes]]
    /\ buf \in [Cmds -> [Streams -> Bytes]]
    /\ holders \in [Cmds -> SUBSET {"shell", "child"}]
    /\ eof \in [Cmds -> SUBSET Streams]
    /\ engine \in Cmds \cup {None}
    /\ style.name = "group" =>
         \A q \in {queue, stash, term} : q \in Seq(Cmds \X Kinds \X Bytes)

\* What was written is drained or still in the pipe, in order.
InTransit ==
    \A c \in Cmds, s \in Streams : Captured(c) => wrote[c][s] = buf[c][s] \o pipe[c][s]

\* A drain that ended has seen the end: nobody can write any more.
EndsSeen ==
    \A c \in Cmds :
        /\ pc[c] = "running" => "shell" \in holders[c]
        /\ pc[c] = "queued" => holders[c] = {} /\ eof[c] = {}
        /\ eof[c] # {} => holders[c] = {}
        /\ \A s \in eof[c] : pipe[c][s] = <<>>
        /\ pc[c] \in {"writing", "done"} /\ Captured(c) => eof[c] = Streams

\* Nothing captured comes after what is shown of a command.
AtEnd(c) ==
    \A i \in Records(c) : \A j \in i .. Len(Out) : Out[j][1] = c \/ Out[j][2] = "live"

\* One replay at a time has the engine, and is the last of what was captured.
Replaying ==
    \A c \in Cmds : pc[c] = "writing" =>
        /\ engine = c
        /\ style.name = "group" =>
             /\ \A i \in 1 .. Len(queue) : queue[i][1] = c
             /\ IF Captured(c) THEN AtEnd(c) ELSE queue = <<>>

OutputInd == TypeOK /\ InTransit /\ EndsSeen /\ BlocksWhole /\ Replaying
=============================================================================
