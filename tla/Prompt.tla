------------------------------- MODULE Prompt -------------------------------
(***************************************************************************)
(* Asking the user for the required variables nobody set: upfront for the  *)
(* dependencies (prompt_deps_vars), just in time for a called task         *)
(* (prompt_task_vars), and a task's own `prompt:`, all through the one     *)
(* thread that reads the terminal (executor/prompter.rs).                  *)
(*                                                                         *)
(* The calls run concurrently and yield while a question is open; a        *)
(* failing sibling may abandon any of them at any await.  A read that has  *)
(* begun cannot be cancelled: it ends with the next line of the user, who  *)
(* answers the question that was printed last.  The variables one call     *)
(* misses are asked for one after the other, in any order.                 *)
(***************************************************************************)
EXTENDS Naturals, Sequences

CONSTANTS Calls,   \* the calls of the run
          Vars,    \* the variables somebody requires
          Upfront, \* what the run's own calls and their deps miss
          Requires,\* [Calls -> the variables it requires]
          Confirms,\* calls whose task has a `prompt:` of its own
          MaxLines \* bound: lines the user types

VARIABLES prompted, \* prompted_vars: [Vars -> line, or 0]
          call,     \* [Calls -> [pc, need, vars]]
          turn,     \* who holds prompt_turn, or "free"
          queue,    \* questions sent to the terminal thread
          open,     \* the question printed last, being read, or "none"
          lines     \* lines typed so far

vars == <<prompted, call, turn, queue, open, lines>>

Root == "root"
NoAsk == [by |-> "none", var |-> "none"]
Unset == [v \in Vars |-> 0]

ParametersOK ==
  /\ Calls \cap {Root, "free", "none"} = {} /\ "confirm" \notin Vars
  /\ Upfront \subseteq Vars /\ Requires \in [Calls -> SUBSET Vars] /\ Confirms \subseteq Calls

Questions == [by : Calls \cup {Root}, var : Vars \cup {"confirm"}]
TypeOK ==
  /\ prompted \in [Vars -> Nat]
  /\ call \in [Calls \cup {Root} ->
                [pc : {"start", "turn", "need", "asking", "confirming", "done", "failed", "abandoned"},
                 vars : [Vars -> Nat], need : SUBSET Vars]]
  /\ turn \in Calls \cup {"free"} /\ queue \in Seq(Questions)
  /\ open \in Questions \cup {NoAsk} /\ lines \in Nat

Init ==
  /\ prompted = Unset
  /\ call = [c \in Calls \cup {Root} |->
               [pc |-> IF c = Root THEN "need" ELSE "start", vars |-> Unset,
                need |-> IF c = Root THEN Upfront ELSE {}]]
  /\ turn = "free" /\ queue = <<>> /\ open = NoAsk /\ lines = 0

RunStarted == call[Root].pc = "done"
To(c, pc) == [call EXCEPT ![c].pc = pc]
Got(c, v, line) ==
  [call EXCEPT ![c] = [pc |-> "need", need |-> call[c].need \ {v}, vars |-> [call[c].vars EXCEPT ![v] = line]]]

\* inject_prompted_vars, then missing_required_vars of the compiled task.
Injected(c) == [v \in Vars |-> IF call[c].vars[v] # 0 THEN call[c].vars[v] ELSE prompted[v]]
Missing(c, set) == {v \in Requires[c] : set[v] = 0}

Enter(c) ==
  /\ c # Root /\ RunStarted /\ call[c].pc = "start"
  /\ call' = [call EXCEPT ![c] = [pc |-> "turn", vars |-> Injected(c), need |-> Missing(c, Injected(c))]]
  /\ UNCHANGED <<prompted, turn, queue, open, lines>>

\* The mutant of TakesTurn: nobody waits for the turn.
TakesTurn_Unheld(c) == TRUE

\* prompt_turn is held across the whole loop of questions.
TakesTurn(c) == turn = "free"

Turn(c) ==
  /\ call[c].pc = "turn" /\ TakesTurn(c)
  /\ call' = To(c, "need") /\ turn' = c
  /\ UNCHANGED <<prompted, queue, open, lines>>

\* The answers given while this call waited for its turn.
Cached(c, v) == c # Root /\ prompted[v] # 0

Ask(c) ==
  /\ call[c].pc = "need"
  /\ \E v \in call[c].need :
       IF Cached(c, v)
       THEN call' = Got(c, v, prompted[v]) /\ UNCHANGED queue
       ELSE /\ call' = To(c, "asking")
            /\ queue' = Append(queue, [by |-> c, var |-> v])
  /\ UNCHANGED <<prompted, turn, open, lines>>

\* Every variable is there: the turn is let go, then the task's own `prompt:`.
Answered(c) ==
  /\ call[c].pc = "need" /\ call[c].need = {}
  /\ turn' = IF turn = c THEN "free" ELSE turn
  /\ IF c \in Confirms
     THEN call' = To(c, "confirming") /\ queue' = Append(queue, [by |-> c, var |-> "confirm"])
     ELSE call' = To(c, "done") /\ UNCHANGED queue
  /\ UNCHANGED <<prompted, open, lines>>

-----------------------------------------------------------------------------
(* The terminal thread. *)

Waiting(ask) == call[ask.by].pc = (IF ask.var = "confirm" THEN "confirming" ELSE "asking")

\* A question abandoned before its turn came is not asked at all.
AskedNow(ask) == Waiting(ask)

Terminal ==
  /\ open = NoAsk /\ queue # <<>>
  /\ queue' = Tail(queue)
  /\ open' = IF AskedNow(Head(queue)) THEN Head(queue) ELSE NoAsk
  /\ UNCHANGED <<prompted, call, turn, lines>>

\* The user answers what is printed.  The answer is taken by who asked and
\* still waits, else dropped; it may be refused (not an allowed value, end of
\* input, a declined confirmation), which fails the call.
Failed(c) == /\ call' = To(c, "failed")
             /\ turn' = IF turn = c THEN "free" ELSE turn
Line ==
  /\ open # NoAsk /\ lines < MaxLines
  /\ lines' = lines + 1
  /\ open' = NoAsk
  /\ LET c == open.by
     IN  IF ~Waiting(open) THEN UNCHANGED <<call, prompted, turn>>
         ELSE IF open.var = "confirm"
         THEN call' = To(c, "done") /\ UNCHANGED <<prompted, turn>>
         ELSE /\ call' = Got(c, open.var, lines + 1)
              /\ prompted' = [prompted EXCEPT ![open.var] = lines + 1]
              /\ UNCHANGED turn
  /\ UNCHANGED queue

Refuse ==
  /\ open # NoAsk /\ Waiting(open)
  /\ Failed(open.by) /\ open' = NoAsk
  /\ UNCHANGED <<prompted, queue, lines>>

\* The mutant of LetsGo: the turn of an abandoned call is never given back.
LetsGo_Kept(c) == turn

\* Dropping an abandoned call's future drops the guard of the turn it holds.
LetsGo(c) == IF turn = c THEN "free" ELSE turn

Abandon(c) ==
  /\ c # Root /\ RunStarted /\ call[c].pc \in {"start", "turn", "need", "asking", "confirming"}
  /\ call' = To(c, "abandoned") /\ turn' = LetsGo(c)
  /\ UNCHANGED <<prompted, queue, open, lines>>

Engine(c) == Enter(c) \/ Turn(c) \/ Ask(c) \/ Answered(c)
Next == \/ \E c \in Calls \cup {Root} : Engine(c) \/ Abandon(c)
        \/ Terminal \/ Line \/ Refuse
\* The engine and the terminal thread are scheduled, and the user answers.
Spec == Init /\ [][Next]_vars /\ \A c \in Calls \cup {Root} : SF_vars(Engine(c))
             /\ WF_vars(Terminal) /\ WF_vars(Line)

-----------------------------------------------------------------------------
\* A variable is asked for once: an answer that was kept is never replaced,
\* and every call that goes on has that answer, whatever it waited for while
\* the question was open (prompt_task_vars).
AnswerKept ==
  \A v \in Vars :
    /\ prompted[v] # 0 => prompted'[v] = prompted[v]
    /\ \A c \in Calls : call'[c].pc = "done" => call'[c].vars[v] \in {0, prompted'[v]}

\* As long as the user answers, every call that is not abandoned gets past its
\* questions: an abandoned or failed one leaves neither the turn nor the
\* terminal taken behind it.
Asks(c) == call[c].pc = "turn"
Past(c) == call[c].pc \in {"done", "failed", "abandoned"} \/ lines = MaxLines

-----------------------------------------------------------------------------
(* The inductive invariant behind AnswerKept                               *)

\* Only one asks: the holder of the turn, or the run itself before its calls.
OneAsks ==
  /\ \A c \in Calls : call[c].pc \in {"need", "asking"} => turn = c
  /\ call[Root].pc # "done" => \A c \in Calls : call[c].pc = "start"
  /\ call[Root].pc \notin {"turn", "start", "confirming"}

\* A call has at most one question on its way, and none before it asks.
OneQuestion ==
  /\ \A i, j \in 1 .. Len(queue) : queue[i].by = queue[j].by => i = j
  /\ \A i \in 1 .. Len(queue) : queue[i].by # open.by
  /\ \A i \in 1 .. Len(queue) : call[queue[i].by].pc \notin {"start", "turn", "need"}
  /\ open # NoAsk => call[open.by].pc \notin {"start", "turn", "need"}

\* What a call that waits has asked for is still to be answered, and so is
\* everything the run has not yet asked for upfront.
Wanted(ask) ==
  call[ask.by].pc = "asking" => ask.var \in call[ask.by].need /\ prompted[ask.var] = 0
StillWanted ==
  /\ \A i \in 1 .. Len(queue) : Wanted(queue[i])
  /\ open # NoAsk => Wanted(open)
  /\ call[Root].pc # "done" => \A v \in call[Root].need : prompted[v] = 0

\* Whatever a call got by asking is the answer that was kept.
SameAnswer ==
  \A c \in Calls \cup {Root}, v \in Vars : call[c].vars[v] \in {0, prompted[v]}

PromptInd == TypeOK /\ OneAsks /\ OneQuestion /\ StillWanted /\ SameAnswer
=============================================================================
