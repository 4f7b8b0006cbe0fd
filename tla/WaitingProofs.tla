--------------------------- MODULE WaitingProofs ---------------------------
(***************************************************************************)
(* Proofs about what waits: the answers of the user (Prompt) and the       *)
(* temporary directories of sandboxed runs (TmpDir), for every value of the *)
(* constants, and about MCWaiting, which starts either.                    *)
(***************************************************************************)
EXTENDS MCWaiting, SequenceTheorems, TLAPS

(***************************************************************************)
(* Prompts: an answer is kept.                                             *)
(***************************************************************************)
\* The asker of a question is a call or the run itself, never the asker of none.
LEMMA AskerKnown ==
  ASSUME P!ParametersOK, NEW ask \in P!Questions
  PROVE  /\ ask.by \in PromptCalls \cup {P!Root} /\ ask # P!NoAsk /\ ask.by # P!NoAsk.by
         /\ ask.var \in Vars \cup {"confirm"}
BY DEF P!ParametersOK, P!Questions, P!NoAsk, P!Root

\* The questions that wait are questions.
LEMMA QueuedQuestion ==
  ASSUME queue \in Seq(P!Questions), NEW i \in 1 .. Len(queue)
  PROVE  queue[i] \in P!Questions
OBVIOUS

LEMMA PromptInit == ASSUME P!ParametersOK, P!Init PROVE P!PromptInd
<1>1. P!TypeOK
  <2>1. P!Unset \in [Vars -> Nat]
    BY DEF P!Unset
  <2>2. \A c \in PromptCalls \cup {P!Root} :
          [pc |-> IF c = P!Root THEN "need" ELSE "start", vars |-> P!Unset,
           need |-> IF c = P!Root THEN Upfront ELSE {}]
          \in [pc : {"start", "turn", "need", "asking", "confirming", "done", "failed", "abandoned"},
               vars : [Vars -> Nat], need : SUBSET Vars]
    BY <2>1 DEF P!ParametersOK
  <2> QED
    BY <2>1, <2>2 DEF P!Init, P!TypeOK
<1>2. /\ \A c \in PromptCalls : call[c].pc = "start"
      /\ call[P!Root].pc = "need" /\ queue = <<>> /\ open = P!NoAsk
      /\ \A c \in PromptCalls \cup {P!Root} : call[c].vars = P!Unset
  BY DEF P!Init, P!ParametersOK
<1>3. P!OneAsks /\ P!OneQuestion
  BY <1>2 DEF P!OneAsks, P!OneQuestion
<1>4. P!StillWanted /\ P!SameAnswer
  <2>1. \A v \in Vars : P!Unset[v] = 0 /\ prompted[v] = 0
    BY DEF P!Init, P!Unset
  <2>2. \A v \in call[P!Root].need : v \in Vars
    BY <1>1 DEF P!TypeOK
  <2>3. Len(queue) = 0
    BY <1>2
  <2> QED
    BY <1>2, <2>1, <2>2, <2>3 DEF P!StillWanted, P!SameAnswer
<1> QED
  BY <1>1, <1>3, <1>4 DEF P!PromptInd

\* A call changes, and no other.
LEMMA Only ==
  ASSUME P!TypeOK, NEW c \in PromptCalls \cup {P!Root}, NEW to
  PROVE  /\ [call EXCEPT ![c] = to][c] = to
         /\ \A d \in PromptCalls \cup {P!Root} : d # c => [call EXCEPT ![c] = to][d] = call[d]
BY DEF P!TypeOK

LEMMA Moves ==
  ASSUME P!TypeOK, NEW c \in PromptCalls \cup {P!Root}, NEW to,
         to \in {"start", "turn", "need", "asking", "confirming", "done", "failed", "abandoned"}
  PROVE  /\ P!To(c, to) \in [PromptCalls \cup {P!Root} ->
                  [pc : {"start", "turn", "need", "asking", "confirming", "done", "failed", "abandoned"},
                   vars : [Vars -> Nat], need : SUBSET Vars]]
         /\ P!To(c, to)[c].pc = to /\ P!To(c, to)[c].vars = call[c].vars /\ P!To(c, to)[c].need = call[c].need
         /\ \A d \in PromptCalls \cup {P!Root} : d # c => P!To(c, to)[d] = call[d]
BY DEF P!TypeOK, P!To

LEMMA Gets ==
  ASSUME P!TypeOK, NEW c \in PromptCalls \cup {P!Root}, NEW v \in Vars, NEW line \in Nat
  PROVE  /\ P!Got(c, v, line) \in [PromptCalls \cup {P!Root} ->
                  [pc : {"start", "turn", "need", "asking", "confirming", "done", "failed", "abandoned"},
                   vars : [Vars -> Nat], need : SUBSET Vars]]
         /\ P!Got(c, v, line)[c].pc = "need"
         /\ P!Got(c, v, line)[c].vars = [call[c].vars EXCEPT ![v] = line]
         /\ P!Got(c, v, line)[c].need = call[c].need \ {v}
         /\ \A d \in PromptCalls \cup {P!Root} : d # c => P!Got(c, v, line)[d] = call[d]
BY DEF P!TypeOK, P!Got

LEMMA EnterKeeps ==
  ASSUME P!ParametersOK, P!PromptInd, NEW c \in PromptCalls \cup {P!Root}, P!Enter(c)
  PROVE  P!PromptInd'
<1> USE DEF P!PromptInd
<1>1. c \in PromptCalls /\ P!RunStarted /\ call[c].pc = "start"
  BY DEF P!Enter
<1>2. P!Injected(c) \in [Vars -> Nat] /\ P!Missing(c, P!Injected(c)) \in SUBSET Vars
  BY <1>1 DEF P!Injected, P!Missing, P!TypeOK, P!ParametersOK
<1>3. P!TypeOK'
  BY <1>1, <1>2 DEF P!TypeOK, P!Enter
<1>4. /\ call'[c].pc = "turn" /\ call'[c].vars = P!Injected(c)
      /\ \A d \in PromptCalls \cup {P!Root} : d # c => call'[d] = call[d]
  BY Only DEF P!Enter
<1>5. c # P!Root
  BY DEF P!Enter
<1>6. \A i \in 1 .. Len(queue) : queue[i].by # c
  BY <1>1 DEF P!OneQuestion
<1>7. open # P!NoAsk => open.by # c
  BY <1>1 DEF P!OneQuestion
<1>8. P!OneAsks'
  BY <1>1, <1>4, <1>5 DEF P!OneAsks, P!Enter, P!RunStarted
<1>9. \A i \in 1 .. Len(queue) : queue[i].by \in PromptCalls \cup {P!Root}
  BY QueuedQuestion, AskerKnown DEF P!TypeOK
<1>10. open # P!NoAsk => open.by \in PromptCalls \cup {P!Root}
  BY AskerKnown DEF P!TypeOK
<1>11. P!OneQuestion'
  BY <1>4, <1>6, <1>7, <1>9, <1>10 DEF P!OneQuestion, P!Enter
<1>12. P!StillWanted'
  BY <1>4, <1>5, <1>6, <1>7, <1>9, <1>10 DEF P!StillWanted, P!Wanted, P!Enter
<1>13. P!SameAnswer'
  BY <1>1, <1>4 DEF P!SameAnswer, P!Enter, P!Injected, P!TypeOK
<1> QED
  BY <1>3, <1>8, <1>11, <1>12, <1>13

LEMMA TurnKeeps ==
  ASSUME P!ParametersOK, P!PromptInd, NEW c \in PromptCalls \cup {P!Root}, P!Turn(c)
  PROVE  P!PromptInd'
<1> USE DEF P!PromptInd
<1>1. c \in PromptCalls /\ c # P!Root /\ call[c].pc = "turn" /\ turn = "free"
  BY DEF P!Turn, P!TakesTurn, P!OneAsks
<1>2. /\ call'[c].pc = "need" /\ call'[c].vars = call[c].vars
      /\ \A d \in PromptCalls \cup {P!Root} : d # c => call'[d] = call[d]
  BY Moves DEF P!Turn
<1>3. P!TypeOK'
  BY Moves, <1>1 DEF P!TypeOK, P!Turn
<1>4. P!OneAsks'
  BY <1>1, <1>2 DEF P!OneAsks, P!Turn, P!ParametersOK
<1>5. \A i \in 1 .. Len(queue) : queue[i].by \in PromptCalls \cup {P!Root} /\ queue[i].by # c
  BY <1>1, QueuedQuestion, AskerKnown DEF P!TypeOK, P!OneQuestion
<1>6. open # P!NoAsk => open.by \in PromptCalls \cup {P!Root} /\ open.by # c
  BY <1>1, AskerKnown DEF P!TypeOK, P!OneQuestion
<1>7. P!OneQuestion'
  BY <1>2, <1>5, <1>6 DEF P!OneQuestion, P!Turn
<1>8. P!StillWanted'
  BY <1>1, <1>2, <1>5, <1>6 DEF P!StillWanted, P!Wanted, P!Turn
<1>9. P!SameAnswer'
  BY <1>2 DEF P!SameAnswer, P!Turn
<1> QED
  BY <1>3, <1>4, <1>7, <1>8, <1>9

LEMMA AskKeeps ==
  ASSUME P!ParametersOK, P!PromptInd, NEW c \in PromptCalls \cup {P!Root}, P!Ask(c)
  PROVE  P!PromptInd'
<1> USE DEF P!PromptInd
<1> PICK v \in call[c].need :
      IF P!Cached(c, v)
      THEN call' = P!Got(c, v, prompted[v]) /\ UNCHANGED queue
      ELSE /\ call' = P!To(c, "asking")
           /\ queue' = Append(queue, [by |-> c, var |-> v])
  BY DEF P!Ask
<1>1. v \in Vars /\ call[c].pc = "need"
  BY DEF P!TypeOK, P!Ask
<1>2. UNCHANGED <<prompted, turn, open, lines>>
  BY DEF P!Ask
<1>3. \A i \in 1 .. Len(queue) : queue[i].by \in PromptCalls \cup {P!Root} /\ queue[i].by # c
  BY <1>1, QueuedQuestion, AskerKnown DEF P!TypeOK, P!OneQuestion
<1>4. open # P!NoAsk => open.by \in PromptCalls \cup {P!Root} /\ open.by # c
  BY <1>1, AskerKnown DEF P!TypeOK, P!OneQuestion
<1>5. CASE P!Cached(c, v)
  <2>1. c \in PromptCalls /\ c # P!Root /\ P!RunStarted
    BY <1>1, <1>5 DEF P!Cached, P!OneAsks, P!RunStarted
  <2>2. /\ call'[c].pc = "need"
        /\ call'[c].vars = [call[c].vars EXCEPT ![v] = prompted[v]]
        /\ call'[c].need = call[c].need \ {v}
        /\ \A d \in PromptCalls \cup {P!Root} : d # c => call'[d] = call[d]
        /\ queue' = queue
    BY <1>1, <1>5, Gets DEF P!TypeOK
  <2>3. P!TypeOK'
    <3>1. prompted[v] \in Nat /\ call' = P!Got(c, v, prompted[v]) /\ queue' = queue
      BY <1>1, <1>5 DEF P!TypeOK
    <3> QED
      BY <1>1, <1>2, <3>1, Gets DEF P!TypeOK
  <2>4. P!OneAsks'
    BY <1>1, <1>2, <2>1, <2>2 DEF P!OneAsks
  <2>5. P!OneQuestion'
    BY <1>2, <1>3, <1>4, <2>2 DEF P!OneQuestion
  <2>6. P!StillWanted'
    BY <1>2, <1>3, <1>4, <2>1, <2>2 DEF P!StillWanted, P!Wanted
  <2>7. P!SameAnswer'
    <3> SUFFICES ASSUME NEW d \in PromptCalls \cup {P!Root}, NEW w \in Vars
                 PROVE  call'[d].vars[w] \in {0, prompted'[w]}
      BY DEF P!SameAnswer
    <3>1. call[d].vars[w] \in {0, prompted[w]} /\ call[c].vars \in [Vars -> Nat]
      BY DEF P!SameAnswer, P!TypeOK
    <3>2. CASE d = c
      BY <1>2, <2>2, <3>1, <3>2
    <3>3. CASE d # c
      BY <1>2, <2>2, <3>1, <3>3
    <3> QED
      BY <3>2, <3>3
  <2> QED
    BY <2>3, <2>4, <2>5, <2>6, <2>7
<1>6. CASE ~P!Cached(c, v)
  <2> DEFINE ask == [by |-> c, var |-> v]
  <2>1. prompted[v] = 0
    BY <1>1, <1>6 DEF P!Cached, P!StillWanted
  <2>2. /\ call'[c].pc = "asking" /\ call'[c].vars = call[c].vars
        /\ call'[c].need = call[c].need
        /\ \A d \in PromptCalls \cup {P!Root} : d # c => call'[d] = call[d]
    BY <1>6, Moves
  <2>3. ask \in P!Questions
    BY <1>1 DEF P!Questions
  <2>4. /\ Len(queue') = Len(queue) + 1 /\ queue' \in Seq(P!Questions) /\ Len(queue) \in Nat
        /\ \A i \in 1 .. Len(queue) : queue'[i] = queue[i]
        /\ queue'[Len(queue) + 1] = ask
    <3>1. queue' = Append(queue, ask)
      BY <1>6
    <3>2. queue \in Seq(P!Questions)
      BY DEF P!TypeOK
    <3> HIDE DEF ask
    <3> QED
      BY <2>3, <3>1, <3>2
  <2>5. P!TypeOK'
    <3>1. call' = P!To(c, "asking")
      BY <1>6
    <3> QED
      BY <1>2, <2>4, <3>1, Moves DEF P!TypeOK
  <2>6. P!OneAsks'
    BY <1>1, <1>2, <2>2 DEF P!OneAsks
  <2>7. P!OneQuestion'
    <3>1. \A i \in 1 .. Len(queue') : i \in 1 .. Len(queue) \/ i = Len(queue) + 1
      BY <2>4
    <3>2. open.by # c
      BY <1>4 DEF P!NoAsk, P!ParametersOK, P!Root
    <3> QED
      BY <1>2, <1>3, <1>4, <2>2, <2>4, <3>1, <3>2 DEF P!OneQuestion
  <2>8. P!StillWanted'
    <3>1. \A i \in 1 .. Len(queue') : i \in 1 .. Len(queue) \/ i = Len(queue) + 1
      BY <2>4
    <3>2. \A i \in 1 .. Len(queue) : P!Wanted(queue[i])'
      BY <1>2, <1>3, <2>2, <2>4 DEF P!StillWanted, P!Wanted
    <3>3. P!Wanted(ask)'
      BY <1>2, <2>1, <2>2 DEF P!Wanted
    <3>4. open' # P!NoAsk => P!Wanted(open)'
      BY <1>2, <1>4, <2>2 DEF P!StillWanted, P!Wanted
    <3>5. call'[P!Root].pc # "done" => \A w \in call'[P!Root].need : prompted'[w] = 0
      BY <1>1, <1>2, <2>2 DEF P!StillWanted
    <3>6. \A i \in 1 .. Len(queue') : P!Wanted(queue[i])'
      BY <2>4, <3>1, <3>2, <3>3 DEF P!Wanted
    <3> QED
      BY <3>4, <3>5, <3>6 DEF P!StillWanted
  <2>9. P!SameAnswer'
    BY <1>2, <2>2 DEF P!SameAnswer
  <2> QED
    BY <2>5, <2>6, <2>7, <2>8, <2>9
<1> QED
  BY <1>5, <1>6

LEMMA AnsweredKeeps ==
  ASSUME P!ParametersOK, P!PromptInd, NEW c \in PromptCalls \cup {P!Root}, P!Answered(c)
  PROVE  P!PromptInd'
<1> USE DEF P!PromptInd
<1>1. call[c].pc = "need" /\ UNCHANGED <<prompted, open, lines>>
  BY DEF P!Answered
<1>2. turn' \in {turn, "free"} /\ (turn # c => turn' = turn)
  BY DEF P!Answered
<1>3. \A i \in 1 .. Len(queue) : queue[i].by \in PromptCalls \cup {P!Root} /\ queue[i].by # c
  BY <1>1, QueuedQuestion, AskerKnown DEF P!TypeOK, P!OneQuestion
<1>4. open # P!NoAsk => open.by \in PromptCalls \cup {P!Root} /\ open.by # c
  BY <1>1, AskerKnown DEF P!TypeOK, P!OneQuestion
<1>5. /\ call'[c].pc \in {"confirming", "done"}
      /\ call'[c].vars = call[c].vars /\ call'[c].need = call[c].need
      /\ \A d \in PromptCalls \cup {P!Root} : d # c => call'[d] = call[d]
      /\ c = P!Root => call'[c].pc = "done"
  <2>1. c \in Confirms => c # P!Root
    BY DEF P!ParametersOK
  <2>2. (call' = P!To(c, "confirming") /\ c \in Confirms) \/ call' = P!To(c, "done")
    BY DEF P!Answered
  <2> QED
    BY <2>1, <2>2, Moves
<1>6. P!OneAsks'
  BY <1>1, <1>2, <1>5 DEF P!OneAsks
<1>7. P!SameAnswer'
  BY <1>1, <1>5 DEF P!SameAnswer
<1>8. CASE c \in Confirms
  <2> DEFINE ask == [by |-> c, var |-> "confirm"]
  <2>1. ask \in P!Questions
    BY DEF P!Questions
  <2>2. call' = P!To(c, "confirming") /\ queue' = Append(queue, ask)
    BY <1>8 DEF P!Answered
  <2>3. /\ Len(queue') = Len(queue) + 1 /\ queue' \in Seq(P!Questions) /\ Len(queue) \in Nat
        /\ \A i \in 1 .. Len(queue) : queue'[i] = queue[i]
        /\ queue'[Len(queue) + 1] = ask
    <3>1. queue \in Seq(P!Questions)
      BY DEF P!TypeOK
    <3> HIDE DEF ask
    <3> QED
      BY <2>1, <2>2, <3>1
  <2>4. call'[c].pc = "confirming"
    BY <2>2, Moves
  <2>5. P!TypeOK'
    BY <1>1, <1>2, <2>2, <2>3, Moves DEF P!TypeOK
  <2>6. \A i \in 1 .. Len(queue') : i \in 1 .. Len(queue) \/ i = Len(queue) + 1
    BY <2>3
  <2>7. P!OneQuestion'
    <3>1. open.by # c
      BY <1>4 DEF P!NoAsk, P!ParametersOK, P!Root
    <3> QED
      BY <1>1, <1>3, <1>4, <1>5, <2>3, <2>4, <2>6, <3>1 DEF P!OneQuestion
  <2>8. P!StillWanted'
    <3>1. \A i \in 1 .. Len(queue) : P!Wanted(queue[i])'
      BY <1>1, <1>3, <1>5, <2>3 DEF P!StillWanted, P!Wanted
    <3>2. P!Wanted(ask)'
      BY <2>4 DEF P!Wanted
    <3>3. \A i \in 1 .. Len(queue') : P!Wanted(queue[i])'
      BY <2>3, <2>6, <3>1, <3>2 DEF P!Wanted
    <3>4. open' # P!NoAsk => P!Wanted(open)'
      BY <1>1, <1>4, <1>5 DEF P!StillWanted, P!Wanted
    <3> QED
      BY <1>1, <1>5, <3>3, <3>4 DEF P!StillWanted
  <2> QED
    BY <1>6, <1>7, <2>5, <2>7, <2>8
<1>9. CASE c \notin Confirms
  <2>1. call' = P!To(c, "done") /\ queue' = queue
    BY <1>9 DEF P!Answered
  <2>2. P!TypeOK'
    BY <1>1, <1>2, <2>1, Moves DEF P!TypeOK
  <2>3. P!OneQuestion'
    BY <1>1, <1>3, <1>4, <1>5, <2>1 DEF P!OneQuestion
  <2>4. P!StillWanted'
    BY <1>1, <1>3, <1>4, <1>5, <2>1 DEF P!StillWanted, P!Wanted
  <2> QED
    BY <1>6, <1>7, <2>2, <2>3, <2>4
<1> QED
  BY <1>8, <1>9

LEMMA TerminalKeeps ==
  ASSUME P!ParametersOK, P!PromptInd, P!Terminal
  PROVE  P!PromptInd'
<1> USE DEF P!PromptInd
<1>1. /\ open = P!NoAsk /\ queue # <<>> /\ queue' = Tail(queue)
      /\ UNCHANGED <<prompted, call, turn, lines>>
      /\ open' \in {Head(queue), P!NoAsk}
  BY DEF P!Terminal
<1>2. /\ Len(queue) \in Nat \ {0} /\ Head(queue) = queue[1] /\ Head(queue) \in P!Questions
      /\ Tail(queue) \in Seq(P!Questions) /\ Len(Tail(queue)) = Len(queue) - 1
      /\ \A i \in 1 .. Len(Tail(queue)) : Tail(queue)[i] = queue[i + 1]
  BY <1>1 DEF P!TypeOK
<1>3. P!TypeOK'
  BY <1>1, <1>2 DEF P!TypeOK
<1>4. \A i \in 1 .. Len(queue') : i + 1 \in 1 .. Len(queue) /\ queue'[i] = queue[i + 1] /\ i + 1 # 1
  BY <1>1, <1>2
<1>5. \A i \in 1 .. Len(queue) : queue[i].by # P!NoAsk.by /\ queue[i] # P!NoAsk
  BY QueuedQuestion, AskerKnown DEF P!TypeOK
<1>6. P!OneAsks' /\ P!SameAnswer'
  BY <1>1 DEF P!OneAsks, P!SameAnswer
<1>7. P!OneQuestion'
  <2>1. ASSUME NEW i \in 1 .. Len(queue'), NEW j \in 1 .. Len(queue'), queue'[i].by = queue'[j].by
        PROVE  i = j
    <3>1. i + 1 = j + 1
      BY <1>4, <2>1 DEF P!OneQuestion
    <3>2. i \in Int /\ j \in Int
      OBVIOUS
    <3> QED
      BY <3>1, <3>2
  <2>2. \A i \in 1 .. Len(queue') : queue'[i].by # open'.by
    <3>1. 1 \in 1 .. Len(queue)
      BY <1>2
    <3> QED
      BY <1>1, <1>2, <1>4, <1>5, <3>1 DEF P!OneQuestion
  <2>3. \A i \in 1 .. Len(queue') : call'[queue'[i].by].pc \notin {"start", "turn", "need"}
    BY <1>1, <1>4 DEF P!OneQuestion
  <2>4. open' # P!NoAsk => call'[open'.by].pc \notin {"start", "turn", "need"}
    BY <1>1, <1>2 DEF P!OneQuestion
  <2> QED
    BY <2>1, <2>2, <2>3, <2>4 DEF P!OneQuestion
<1>8. P!StillWanted'
  <2>1. \A i \in 1 .. Len(queue') : P!Wanted(queue[i])'
    BY <1>1, <1>4 DEF P!StillWanted, P!Wanted
  <2>2. open' # P!NoAsk => P!Wanted(open)'
    BY <1>1, <1>2 DEF P!StillWanted, P!Wanted
  <2> QED
    BY <1>1, <2>1, <2>2 DEF P!StillWanted
<1> QED
  BY <1>3, <1>6, <1>7, <1>8

\* The end of a question, or of a call, that leaves the answers as they are.
LEMMA EndKeeps ==
  ASSUME P!ParametersOK, P!PromptInd, NEW c \in PromptCalls \cup {P!Root},
         NEW to \in {"done", "failed", "abandoned"},
         to = "done" => call[c].pc = "confirming",
         to = "failed" => call[c].pc \in {"asking", "confirming"},
         to = "abandoned" => c # P!Root /\ P!RunStarted,
         call[c].pc \in {"start", "turn", "need", "asking", "confirming"},
         call' = P!To(c, to), turn' = IF turn = c THEN "free" ELSE turn,
         open' \in {open, P!NoAsk}, prompted' = prompted, queue' = queue, lines' \in Nat
  PROVE  P!PromptInd'
<1> USE DEF P!PromptInd
<1>1. /\ call'[c].pc = to /\ call'[c].vars = call[c].vars /\ call'[c].need = call[c].need
      /\ \A d \in PromptCalls \cup {P!Root} : d # c => call'[d] = call[d]
  BY Moves
<1>2. P!TypeOK'
  BY Moves DEF P!TypeOK
<1>3. \A i \in 1 .. Len(queue) : queue[i].by \in PromptCalls \cup {P!Root} /\ queue[i].by # P!NoAsk.by
  BY QueuedQuestion, AskerKnown DEF P!TypeOK
<1>4. open # P!NoAsk => open.by \in PromptCalls \cup {P!Root}
  BY AskerKnown DEF P!TypeOK
<1>5. c = P!Root => to = "failed"
  BY DEF P!OneAsks
<1>6. c # P!Root => P!RunStarted
  BY DEF P!OneAsks, P!RunStarted
<1>7. P!OneAsks'
  BY <1>1, <1>5, <1>6 DEF P!OneAsks, P!RunStarted, P!ParametersOK
<1>8. P!OneQuestion'
  BY <1>1, <1>3, <1>4 DEF P!OneQuestion
<1>9. P!StillWanted'
  BY <1>1, <1>3, <1>4 DEF P!StillWanted, P!Wanted
<1>10. P!SameAnswer'
  BY <1>1 DEF P!SameAnswer
<1> QED
  BY <1>2, <1>7, <1>8, <1>9, <1>10

LEMMA LineKeeps ==
  ASSUME P!ParametersOK, P!PromptInd, P!Line
  PROVE  P!PromptInd'
<1> USE DEF P!PromptInd
<1>1. /\ open # P!NoAsk /\ open \in P!Questions /\ lines' = lines + 1 /\ lines + 1 \in Nat
      /\ open' = P!NoAsk /\ UNCHANGED queue
  BY DEF P!Line, P!TypeOK
<1>2. /\ open.by \in PromptCalls \cup {P!Root} /\ open.by # P!NoAsk.by
      /\ open.var \in Vars \cup {"confirm"}
  BY <1>1, AskerKnown
<1>3. \A i \in 1 .. Len(queue) :
        queue[i].by \in PromptCalls \cup {P!Root} /\ queue[i].by # P!NoAsk.by /\ queue[i].by # open.by
  BY QueuedQuestion, AskerKnown DEF P!TypeOK, P!OneQuestion
<1>4. CASE ~P!Waiting(open)
  <2>1. UNCHANGED <<call, prompted, turn>>
    BY <1>4 DEF P!Line
  <2>2. P!TypeOK' /\ P!OneAsks' /\ P!SameAnswer'
    BY <1>1, <2>1 DEF P!TypeOK, P!OneAsks, P!SameAnswer
  <2>3. P!OneQuestion'
    BY <1>1, <1>3, <2>1 DEF P!OneQuestion
  <2>4. P!StillWanted'
    BY <1>1, <2>1 DEF P!StillWanted, P!Wanted
  <2> QED
    BY <2>2, <2>3, <2>4
<1>5. CASE P!Waiting(open) /\ open.var = "confirm"
  <2> DEFINE c == open.by
  <2>1. /\ call' = P!To(c, "done") /\ UNCHANGED <<prompted, turn>>
        /\ call[c].pc = "confirming"
    BY <1>5 DEF P!Line, P!Waiting
  <2>2. /\ call'[c].pc = "done" /\ call'[c].vars = call[c].vars /\ call'[c].need = call[c].need
        /\ \A d \in PromptCalls \cup {P!Root} : d # c => call'[d] = call[d]
    BY <1>2, <2>1, Moves
  <2>3. P!TypeOK'
    BY <1>1, <1>2, <2>1, Moves DEF P!TypeOK
  <2>4. c # P!Root /\ call[P!Root].pc = "done"
    BY <1>2, <2>1 DEF P!OneAsks
  <2>5. P!OneAsks' /\ P!SameAnswer'
    BY <2>1, <2>2, <2>4 DEF P!OneAsks, P!SameAnswer
  <2>6. P!OneQuestion'
    BY <1>1, <1>3, <2>2 DEF P!OneQuestion
  <2>7. P!StillWanted'
    BY <1>1, <1>3, <2>1, <2>2, <2>4 DEF P!StillWanted, P!Wanted
  <2> QED
    BY <2>3, <2>5, <2>6, <2>7
<1>6. CASE P!Waiting(open) /\ open.var # "confirm"
  <2> DEFINE c == open.by
             v == open.var
             now == lines + 1
  <2>1. /\ call' = P!Got(c, v, now) /\ prompted' = [prompted EXCEPT ![v] = now]
        /\ UNCHANGED turn /\ call[c].pc = "asking"
    BY <1>6 DEF P!Line, P!Waiting
  <2>2. v \in Vars /\ v \in call[c].need /\ prompted[v] = 0
    BY <1>1, <1>2, <1>6, <2>1 DEF P!StillWanted, P!Wanted
  <2>3. /\ call'[c].pc = "need" /\ call'[c].vars = [call[c].vars EXCEPT ![v] = now]
        /\ call'[c].need = call[c].need \ {v}
        /\ \A d \in PromptCalls \cup {P!Root} : d # c => call'[d] = call[d]
    BY <1>1, <1>2, <2>1, <2>2, Gets
  <2>4. P!TypeOK'
    BY <1>1, <1>2, <2>1, <2>2, Gets DEF P!TypeOK
  <2>5. P!OneAsks'
    BY <1>2, <2>1, <2>3 DEF P!OneAsks
  <2>6. P!OneQuestion'
    BY <1>1, <1>3, <2>3 DEF P!OneQuestion
  <2>7. prompted'[v] = now /\ \A w \in Vars : w # v => prompted'[w] = prompted[w]
    BY <2>1, <2>2 DEF P!TypeOK
  <2>8. P!SameAnswer'
    <3> SUFFICES ASSUME NEW d \in PromptCalls \cup {P!Root}, NEW w \in Vars
                 PROVE  call'[d].vars[w] \in {0, prompted'[w]}
      BY DEF P!SameAnswer
    <3>1. call[d].vars[w] \in {0, prompted[w]}
      BY DEF P!SameAnswer
    <3>2. call[c].vars \in [Vars -> Nat]
      BY <1>2 DEF P!TypeOK
    <3>3. CASE d = c
      BY <2>2, <2>3, <2>7, <3>1, <3>2, <3>3
    <3>4. CASE d # c
      BY <2>2, <2>3, <2>7, <3>1, <3>4
    <3> QED
      BY <3>3, <3>4
  <2>9. P!StillWanted'
    <3>1. \A d \in PromptCalls \cup {P!Root} : d # c => call[d].pc # "asking"
      BY <1>2, <2>1 DEF P!OneAsks, P!ParametersOK
    <3>2. \A i \in 1 .. Len(queue') : P!Wanted(queue[i])'
      BY <1>1, <1>3, <2>3, <3>1 DEF P!Wanted
    <3>3. call'[P!Root].pc # "done" => \A w \in call'[P!Root].need : prompted'[w] = 0
      <4>1. CASE c = P!Root
        BY <2>1, <2>3, <2>7, <4>1 DEF P!StillWanted, P!TypeOK
      <4>2. CASE c # P!Root
        BY <1>2, <2>1, <2>3, <4>2 DEF P!OneAsks
      <4> QED
        BY <4>1, <4>2
    <3> QED
      BY <1>1, <3>2, <3>3 DEF P!StillWanted
  <2> QED
    BY <2>4, <2>5, <2>6, <2>8, <2>9
<1> QED
  BY <1>4, <1>5, <1>6

LEMMA RefuseKeeps ==
  ASSUME P!ParametersOK, P!PromptInd, P!Refuse
  PROVE  P!PromptInd'
<1>1. open \in P!Questions /\ lines \in Nat
  BY DEF P!Refuse, P!PromptInd, P!TypeOK
<1>2. open.by \in PromptCalls \cup {P!Root}
  BY <1>1, AskerKnown
<1>3. call[open.by].pc \in {"asking", "confirming"}
  BY DEF P!Refuse, P!Waiting
<1>4. /\ call' = P!To(open.by, "failed") /\ turn' = IF turn = open.by THEN "free" ELSE turn
      /\ open' = P!NoAsk /\ UNCHANGED <<prompted, queue, lines>>
  BY DEF P!Refuse, P!Failed
<1> QED
  BY <1>1, <1>2, <1>3, <1>4, EndKeeps

LEMMA AbandonKeeps ==
  ASSUME P!ParametersOK, P!PromptInd, NEW c \in PromptCalls \cup {P!Root}, P!Abandon(c)
  PROVE  P!PromptInd'
<1>1. /\ c # P!Root /\ P!RunStarted
      /\ call[c].pc \in {"start", "turn", "need", "asking", "confirming"}
      /\ call' = P!To(c, "abandoned") /\ turn' = IF turn = c THEN "free" ELSE turn
      /\ UNCHANGED <<prompted, queue, open, lines>>
  BY DEF P!Abandon, P!LetsGo
<1>2. lines' \in Nat
  BY <1>1 DEF P!PromptInd, P!TypeOK
<1> QED
  BY <1>1, <1>2, EndKeeps

\* The invariant of the prompts is inductive.
LEMMA PromptInductive ==
  ASSUME P!ParametersOK, P!PromptInd, [P!Next]_(P!vars)
  PROVE  P!PromptInd'
<1>1. ASSUME NEW c \in PromptCalls \cup {P!Root}, P!Engine(c) \/ P!Abandon(c)
      PROVE  P!PromptInd'
  BY <1>1, EnterKeeps, TurnKeeps, AskKeeps, AnsweredKeeps, AbandonKeeps DEF P!Engine
<1>2. ASSUME UNCHANGED P!vars
      PROVE  P!PromptInd'
  BY <1>2 DEF P!vars, P!PromptInd, P!TypeOK, P!OneAsks, P!OneQuestion, P!StillWanted, P!Wanted, P!SameAnswer
<1> QED
  BY <1>1, <1>2, TerminalKeeps, LineKeeps, RefuseKeeps DEF P!Next

\* Only a line of the user writes an answer down, and only where there was none.
LEMMA StepKeepsAnswers ==
  ASSUME P!ParametersOK, P!PromptInd, P!PromptInd', [P!Next]_(P!vars)
  PROVE  P!AnswerKept
<1>1. \A v \in Vars : prompted[v] # 0 => prompted'[v] = prompted[v]
  <2>1. CASE P!Line
    <3>1. \/ prompted' = prompted
          \/ /\ P!Waiting(open) /\ open.var # "confirm" /\ open # P!NoAsk
             /\ prompted' = [prompted EXCEPT ![open.var] = lines + 1]
      BY <2>1 DEF P!Line
    <3>2. P!Waiting(open) /\ open.var # "confirm" /\ open # P!NoAsk => prompted[open.var] = 0
      BY DEF P!Waiting, P!PromptInd, P!StillWanted, P!Wanted
    <3> QED
      BY <3>1, <3>2 DEF P!PromptInd, P!TypeOK
  <2>2. CASE ~P!Line
    <3>1. prompted' = prompted
      BY <2>2 DEF P!Next, P!Engine, P!Enter, P!Turn, P!Ask, P!Answered, P!Abandon, P!Terminal, P!Refuse, P!vars
    <3> QED
      BY <3>1
  <2> QED
    BY <2>1, <2>2
<1>2. \A v \in Vars, c \in PromptCalls : call'[c].vars[v] \in {0, prompted'[v]}
  BY DEF P!PromptInd, P!SameAnswer
<1> QED
  BY <1>1, <1>2 DEF P!AnswerKept

\* For any calls, variables and requirements: an answer of the user that was
\* kept is never replaced, and a call that goes on has that answer, whoever
\* asked for it (prompt_task_vars).
THEOREM AnswersKept ==
  ASSUME P!ParametersOK
  PROVE  P!Spec => [][P!AnswerKept]_(P!vars)
<1>1. P!Init => P!PromptInd
  BY PromptInit
<1>2. P!PromptInd /\ [P!Next]_(P!vars) => P!PromptInd'
  BY PromptInductive
<1>3. P!PromptInd /\ P!PromptInd' /\ [P!Next]_(P!vars) => [P!AnswerKept]_(P!vars)
  BY StepKeepsAnswers
<1> QED
  BY <1>1, <1>2, <1>3, PTL DEF P!Spec

(***************************************************************************)
(* Temporary directories: the one of a live run stays.                     *)
(***************************************************************************)
\* Each run has an inode of its own for each attempt.
LEMMA InodeOf ==
  ASSUME T!TypeOK, NEW r \in Runs
  PROVE  /\ <<r, try[r]>> \in T!Inodes /\ try[r] \in 1..Attempts
         /\ \A q \in Runs, a \in 1..Attempts : <<q, a>> \in T!Inodes
         /\ \A q \in Runs, a \in 1..Attempts : <<q, a>> = <<r, try[r]>> => q = r /\ a = try[r]
BY DEF T!TypeOK, T!Inodes

LEMMA TmpDirInit ==
  ASSUME T!ParametersOK
  PROVE  T!Init => T!TmpDirInd
<1> SUFFICES ASSUME T!Init PROVE T!TmpDirInd
  OBVIOUS
<1> USE DEF T!Init
<1>1. T!TypeOK
  <2>1. sw \in [Sweeps -> T!SweepStates]
    BY DEF T!Idle, T!SweepStates, T!ParametersOK
  <2> QED
    BY <2>1 DEF T!TypeOK, T!Stages, T!ParametersOK
<1>2. T!OwnLock /\ T!LockNamed /\ T!DirMade /\ T!LiveDirKept
  BY DEF T!OwnLock, T!LockNamed, T!DirMade, T!LiveDirKept
<1>3. \A s \in Sweeps : T!SweepKnows(s)
  BY DEF T!SweepKnows, T!Idle
<1> QED
  BY <1>1, <1>2, <1>3 DEF T!TmpDirInd

\* A run's own step leaves what the sweeps know of it true: it goes on, and it takes or
\* gives back no lock but its own.
LEMMA RunGoesOn ==
  ASSUME T!TmpDirInd, NEW r \in Runs, sw' = sw,
         \A q \in Runs : q # r => pc'[q] = pc[q] /\ try'[q] = try[q],
         pc[r] \in T!Named => pc'[r] \in T!Named /\ try'[r] = try[r],
         pc[r] \in {"live", "rmlock", "drop", "done", "crashed"} =>
           pc'[r] \in {"live", "rmlock", "drop", "done", "crashed"},
         pc[r] \in {"drop", "done", "crashed"} => pc'[r] \in {"drop", "done", "crashed"},
         \A i \in T!Inodes : held[i] \in Sweeps => held'[i] = held[i]
  PROVE  \A s \in Sweeps : T!SweepKnows(s)'
<1> SUFFICES ASSUME NEW s \in Sweeps PROVE T!SweepKnows(s)'
  OBVIOUS
<1>1. T!SweepKnows(s)
  BY DEF T!TmpDirInd
<1>2. sw[s].pc \in {"rmdir", "rm"} => <<sw[s].run, sw[s].at>> \in T!Inodes
  BY <1>1 DEF T!SweepKnows, T!Inodes
<1> QED
  BY <1>1, <1>2 DEF T!SweepKnows

\* private_tmp: create, lock, rename, enlist, make.
LEMMA CreateSetupInd ==
  ASSUME T!ParametersOK, T!TmpDirInd, NEW r \in Runs, T!CreateSetup(r)
  PROVE  T!TmpDirInd'
<1> USE DEF T!TmpDirInd, T!CreateSetup, T!Goto
<1>1. T!TypeOK'
  BY InodeOf DEF T!TypeOK, T!Stages
<1>2. T!OwnLock' /\ T!LockNamed' /\ T!DirMade' /\ T!LiveDirKept'
  BY DEF T!TypeOK, T!OwnLock, T!LockNamed, T!DirMade, T!LiveDirKept, T!Named
<1>3. \A s \in Sweeps : T!SweepKnows(s)'
  BY RunGoesOn DEF T!TypeOK, T!Named
<1> QED
  BY <1>1, <1>2, <1>3

LEMMA LockSetupInd ==
  ASSUME T!ParametersOK, ~PosixLocks, T!TmpDirInd, NEW r \in Runs, T!LockSetup(r)
  PROVE  T!TmpDirInd'
<1> USE DEF T!TmpDirInd, T!LockSetup, T!Goto
<1>1. held[<<r, try[r]>>] = T!None
  BY DEF T!MayLock
<1>2. T!TypeOK'
  BY InodeOf DEF T!TypeOK, T!Stages
<1>3. \A i \in T!Inodes : held[i] # T!None => held'[i] = held[i]
  BY <1>1 DEF T!TypeOK
<1>4. held'[<<r, try[r]>>] = r
  BY InodeOf DEF T!TypeOK
<1>5. T!OwnLock'
  BY <1>3, <1>4, InodeOf DEF T!TypeOK, T!OwnLock, T!ParametersOK
<1>6. T!LockNamed' /\ T!DirMade' /\ T!LiveDirKept'
  BY DEF T!TypeOK, T!LockNamed, T!DirMade, T!LiveDirKept, T!Named
<1>7. \A s \in Sweeps : T!SweepKnows(s)'
  BY <1>3, RunGoesOn DEF T!TypeOK, T!Named, T!ParametersOK
<1> QED
  BY <1>2, <1>5, <1>6, <1>7

LEMMA RenameSetupInd ==
  ASSUME T!ParametersOK, T!TmpDirInd, NEW r \in Runs, T!RenameSetup(r)
  PROVE  T!TmpDirInd'
<1> USE DEF T!TmpDirInd, T!Goto
<1>1. pc[r] = "rename" /\ held[<<r, try[r]>>] = r /\ UNCHANGED <<dir, live, sw>>
  BY DEF T!RenameSetup, T!OwnLock
<1>2. CASE <<r, try[r]>> \in setup
  <2>1. /\ setup' = setup \ {<<r, try[r]>>} /\ lock' = [lock EXCEPT ![r] = try[r]]
        /\ pc' = [pc EXCEPT ![r] = "enlist"] /\ UNCHANGED <<held, try, left>>
    BY <1>2 DEF T!RenameSetup
  <2>2. T!TypeOK'
    BY <1>1, <2>1, InodeOf DEF T!TypeOK, T!Stages, T!ParametersOK
  <2>3. T!OwnLock' /\ T!LockNamed' /\ T!DirMade' /\ T!LiveDirKept'
    BY <1>1, <2>1, InodeOf DEF T!TypeOK, T!OwnLock, T!LockNamed, T!DirMade, T!LiveDirKept, T!Named
  <2>4. \A s \in Sweeps : T!SweepKnows(s)'
    BY <1>1, <2>1, RunGoesOn DEF T!TypeOK, T!Named
  <2> QED
    BY <2>2, <2>3, <2>4
<1>3. CASE <<r, try[r]>> \notin setup
  <2>1. /\ held' = [held EXCEPT ![<<r, try[r]>>] = T!None] /\ UNCHANGED <<setup, lock>>
        /\ \/ /\ try[r] < Attempts /\ try' = [try EXCEPT ![r] = @ + 1]
              /\ pc' = [pc EXCEPT ![r] = "create"] /\ left' = left
           \/ pc' = [pc EXCEPT ![r] = "failed"] /\ left' = left \union {r} /\ try' = try
    BY <1>3 DEF T!RenameSetup
  <2>2. /\ pc' \in [Runs -> T!Stages] /\ try' \in [Runs -> 1..Attempts] /\ left' \subseteq Runs
        /\ held' \in [T!Inodes -> Runs \union Sweeps \union {T!None}]
        /\ pc'[r] \in {"create", "failed"}
        /\ \A q \in Runs : q # r => pc'[q] = pc[q] /\ try'[q] = try[q]
    BY <2>1, InodeOf DEF T!TypeOK, T!Stages, T!ParametersOK
  <2>3. T!TypeOK'
    BY <1>1, <2>1, <2>2 DEF T!TypeOK
  <2>4. \A i \in T!Inodes : i # <<r, try[r]>> => held'[i] = held[i]
    BY <2>1 DEF T!TypeOK
  <2>5. T!OwnLock'
    BY <2>2, <2>4, InodeOf DEF T!OwnLock
  <2>6. T!LockNamed' /\ T!DirMade' /\ T!LiveDirKept'
    BY <1>1, <2>1, <2>2 DEF T!LockNamed, T!DirMade, T!LiveDirKept, T!Named
  <2>7. \A i \in T!Inodes : held[i] \in Sweeps => held'[i] = held[i]
    BY <1>1, <2>4 DEF T!ParametersOK
  <2>8. \A s \in Sweeps : T!SweepKnows(s)'
    BY <1>1, <2>2, <2>7, RunGoesOn DEF T!Named
  <2> QED
    BY <2>3, <2>5, <2>6, <2>8
<1> QED
  BY <1>2, <1>3

LEMMA EnlistMakeInd ==
  ASSUME T!ParametersOK, T!TmpDirInd, NEW r \in Runs, T!Enlist(r) \/ T!MakeDir(r)
  PROVE  T!TmpDirInd'
<1> USE DEF T!TmpDirInd, T!Goto
<1>1. CASE T!Enlist(r)
  <2> USE <1>1 DEF T!Enlist
  <2>1. T!TypeOK'
    BY DEF T!TypeOK, T!Stages, T!Procs
  <2>2. T!OwnLock' /\ T!LockNamed' /\ T!DirMade' /\ T!LiveDirKept'
    BY DEF T!TypeOK, T!OwnLock, T!LockNamed, T!DirMade, T!LiveDirKept, T!Named
  <2>3. \A s \in Sweeps : T!SweepKnows(s)'
    BY RunGoesOn DEF T!TypeOK, T!Named
  <2> QED
    BY <2>1, <2>2, <2>3
<1>2. CASE T!MakeDir(r)
  <2> USE <1>2 DEF T!MakeDir
  <2>1. T!TypeOK'
    BY DEF T!TypeOK, T!Stages
  <2>2. T!OwnLock' /\ T!LockNamed' /\ T!DirMade' /\ T!LiveDirKept'
    BY DEF T!TypeOK, T!OwnLock, T!LockNamed, T!DirMade, T!LiveDirKept, T!Named
  <2>3. \A s \in Sweeps : T!SweepKnows(s)'
    BY RunGoesOn DEF T!TypeOK, T!Named
  <2> QED
    BY <2>1, <2>2, <2>3
<1> QED
  BY <1>1, <1>2

\* remove_tmp and the drop of the policy.
LEMMA RemoveInd ==
  ASSUME T!ParametersOK, T!TmpDirInd, NEW r \in Runs, NEW gone \in BOOLEAN,
         T!RemoveDir(r, gone) \/ T!RemoveLock(r, gone) \/ T!DropPolicy(r)
  PROVE  T!TmpDirInd'
<1> USE DEF T!TmpDirInd, T!Goto
<1>1. CASE T!RemoveDir(r, gone)
  <2> USE <1>1 DEF T!RemoveDir
  <2>1. T!TypeOK'
    BY DEF T!TypeOK, T!Stages
  <2>2. T!OwnLock' /\ T!LockNamed' /\ T!DirMade' /\ T!LiveDirKept'
    BY DEF T!TypeOK, T!OwnLock, T!LockNamed, T!DirMade, T!LiveDirKept, T!Named
  <2>3. \A s \in Sweeps : T!SweepKnows(s)'
    BY RunGoesOn DEF T!TypeOK, T!Named
  <2> QED
    BY <2>1, <2>2, <2>3
<1>2. CASE T!RemoveLock(r, gone)
  <2> USE <1>2 DEF T!RemoveLock
  <2>1. T!TypeOK'
    BY DEF T!TypeOK, T!Stages, T!ParametersOK
  <2>2. T!OwnLock' /\ T!LockNamed' /\ T!DirMade' /\ T!LiveDirKept'
    BY DEF T!TypeOK, T!OwnLock, T!LockNamed, T!DirMade, T!LiveDirKept, T!Named
  <2>3. \A s \in Sweeps : T!SweepKnows(s)'
    BY RunGoesOn DEF T!TypeOK, T!Named
  <2> QED
    BY <2>1, <2>2, <2>3
<1>3. CASE T!DropPolicy(r)
  <2>1. /\ pc[r] = "drop" /\ pc' = [pc EXCEPT ![r] = "done"]
        /\ live' = [live EXCEPT ![Proc[r]] = @ \ {r}]
        /\ held' = [held EXCEPT ![<<r, try[r]>>] = T!None]
        /\ left' = left \union {r} /\ UNCHANGED <<setup, lock, dir, try, sw>>
    BY <1>3 DEF T!DropPolicy
  <2>2. held[<<r, try[r]>>] = r
    BY <2>1 DEF T!OwnLock
  <2>3. T!TypeOK'
    BY <2>1, InodeOf DEF T!TypeOK, T!Stages, T!Procs
  <2>4. \A i \in T!Inodes : i # <<r, try[r]>> => held'[i] = held[i]
    BY <2>1 DEF T!TypeOK
  <2>5. T!OwnLock'
    BY <2>1, <2>4, InodeOf DEF T!TypeOK, T!OwnLock
  <2>6. T!LockNamed' /\ T!DirMade' /\ T!LiveDirKept'
    BY <2>1 DEF T!TypeOK, T!LockNamed, T!DirMade, T!LiveDirKept, T!Named
  <2>7. \A i \in T!Inodes : held[i] \in Sweeps => held'[i] = held[i]
    BY <2>2, <2>4 DEF T!ParametersOK
  <2>8. \A s \in Sweeps : T!SweepKnows(s)'
    BY <2>1, <2>7, RunGoesOn DEF T!TypeOK, T!Named
  <2> QED
    BY <2>3, <2>5, <2>6, <2>8
<1> QED
  BY <1>1, <1>2, <1>3

\* A crash takes the locks of the process with it, and no other's.
LEMMA CrashInd ==
  ASSUME T!ParametersOK, T!TmpDirInd, NEW p \in T!Procs, T!Crash(p)
  PROVE  T!TmpDirInd'
<1> USE DEF T!TmpDirInd
<1>1. /\ pc' = [r \in Runs |-> IF Proc[r] = p /\ pc[r] # "done" THEN "crashed" ELSE pc[r]]
      /\ held' = [i \in T!Inodes |-> IF held[i] # T!None /\ Proc[held[i]] = p THEN T!None ELSE held[i]]
      /\ live' = [live EXCEPT ![p] = {}]
      /\ sw' = [s \in Sweeps |-> IF Proc[s] = p THEN [T!Idle EXCEPT !.pc = "crashed"] ELSE sw[s]]
      /\ left' = left \union {r \in Runs : Proc[r] = p /\ pc[r] # "done"}
      /\ UNCHANGED <<setup, lock, dir, try>>
  BY DEF T!Crash
<1>2. [T!Idle EXCEPT !.pc = "crashed"] \in T!SweepStates /\ [T!Idle EXCEPT !.pc = "crashed"].pc = "crashed"
  BY DEF T!Idle, T!SweepStates, T!ParametersOK
<1>3. T!TypeOK'
  <2>1. sw' \in [Sweeps -> T!SweepStates]
    BY <1>1, <1>2 DEF T!TypeOK
  <2> QED
    BY <1>1, <2>1 DEF T!TypeOK, T!Stages
<1>4. \A r \in Runs : pc'[r] = pc[r] \/ pc'[r] = "crashed"
  BY <1>1
<1>5. T!OwnLock'
  <2> SUFFICES ASSUME NEW r \in Runs,
                      pc'[r] \in {"rename", "enlist", "mkdir", "live", "rmlock", "drop"}
               PROVE  held'[<<r, try[r]>>] = r
    BY <1>1 DEF T!OwnLock
  <2>1. pc'[r] = pc[r] /\ Proc[r] # p
    BY <1>1
  <2>2. held[<<r, try[r]>>] = r
    BY <2>1 DEF T!OwnLock
  <2> QED
    BY <1>1, <2>1, <2>2, InodeOf
<1>6. T!LockNamed' /\ T!DirMade' /\ T!LiveDirKept'
  BY <1>1, <1>4 DEF T!LockNamed, T!DirMade, T!LiveDirKept, T!Named
<1>7. ASSUME NEW s \in Sweeps PROVE T!SweepKnows(s)'
  <2>1. CASE Proc[s] = p
    <3>1. sw'[s].pc = "crashed"
      BY <1>1, <1>2, <2>1
    <3> QED
      BY <3>1 DEF T!SweepKnows
  <2>2. CASE Proc[s] # p
    <3>1. sw'[s] = sw[s] /\ T!SweepKnows(s)
      BY <1>1, <2>2
    <3>2. sw[s].pc \in {"rmdir", "rm"} => <<sw[s].run, sw[s].at>> \in T!Inodes
      BY <3>1 DEF T!SweepKnows, T!Inodes
    <3>3. \A i \in T!Inodes : held[i] = s => held'[i] = s
      BY <1>1, <2>2
    <3> QED
      BY <1>1, <1>4, <3>1, <3>2, <3>3 DEF T!SweepKnows, T!Named
  <2> QED
    BY <2>1, <2>2
<1> QED
  BY <1>3, <1>5, <1>6, <1>7

\* A sweep's step in which no run and no name changes: it is enough that what it knows
\* is true.
LEMMA SweepLooks ==
  ASSUME T!ParametersOK, T!TmpDirInd, NEW s \in Sweeps, NEW w \in T!SweepStates,
         sw' = [sw EXCEPT ![s] = w], UNCHANGED <<setup, lock, dir, held, live, pc, try, left>>,
         T!SweepKnows(s)'
  PROVE  T!TmpDirInd'
<1> USE DEF T!TmpDirInd
<1>1. T!TypeOK'
  BY DEF T!TypeOK
<1>2. T!OwnLock' /\ T!LockNamed' /\ T!DirMade' /\ T!LiveDirKept'
  BY DEF T!OwnLock, T!LockNamed, T!DirMade, T!LiveDirKept
<1>3. ASSUME NEW u \in Sweeps, u # s PROVE T!SweepKnows(u)'
  <2>1. sw'[u] = sw[u] /\ T!SweepKnows(u)
    BY <1>3 DEF T!TypeOK
  <2> QED
    BY <2>1 DEF T!SweepKnows
<1> QED
  BY <1>1, <1>2, <1>3

LEMMA IdleKnows ==
  ASSUME T!ParametersOK
  PROVE  T!Idle \in T!SweepStates /\ T!Idle.pc = "idle"
BY DEF T!Idle, T!SweepStates, T!ParametersOK

\* A sweep takes up a name: a lock name that is there was given by its run's rename, a
\* directory that is there was made by its run.
LEMMA OpenInd ==
  ASSUME T!ParametersOK, T!TmpDirInd, NEW s \in Sweeps,
         \/ \E r \in Runs : T!OpenLock(s, r) \/ T!SeeDir(s, r)
         \/ \E i \in T!Inodes : T!OpenSetup(s, i)
  PROVE  T!TmpDirInd'
<1>0. T!TypeOK /\ T!LockNamed /\ T!DirMade /\ sw \in [Sweeps -> T!SweepStates]
  BY DEF T!TmpDirInd, T!TypeOK
<1>1. ASSUME NEW r \in Runs, T!OpenLock(s, r) PROVE T!TmpDirInd'
  <2> DEFINE w == [pc |-> "try", kind |-> "lock", run |-> r, at |-> lock[r]]
  <2>1. /\ sw' = [sw EXCEPT ![s] = w] /\ lock[r] # 0
        /\ UNCHANGED <<setup, lock, dir, held, live, pc, try, left>>
    BY <1>1 DEF T!OpenLock
  <2>2. w \in T!SweepStates /\ lock[r] \in 1..Attempts /\ lock[r] = try[r] /\ pc[r] \in T!Named
    BY <1>0, <2>1 DEF T!TypeOK, T!SweepStates, T!LockNamed, T!ParametersOK
  <2>3. sw'[s] = w
    BY <1>0, <2>1
  <2>4. T!SweepKnows(s)'
    BY <2>1, <2>2, <2>3 DEF T!SweepKnows
  <2> QED
    BY <2>1, <2>2, <2>4, SweepLooks
<1>2. ASSUME NEW r \in Runs, T!SeeDir(s, r) PROVE T!TmpDirInd'
  <2> DEFINE w == [pc |-> "seen", kind |-> "dir", run |-> r, at |-> 0]
  <2>1. /\ sw' = [sw EXCEPT ![s] = w] /\ dir[r]
        /\ UNCHANGED <<setup, lock, dir, held, live, pc, try, left>>
    BY <1>2 DEF T!SeeDir
  <2>2. w \in T!SweepStates /\ pc[r] \in {"live", "rmlock", "drop", "done", "crashed"}
    BY <1>0, <2>1 DEF T!SweepStates, T!DirMade, T!ParametersOK
  <2>3. sw'[s] = w
    BY <1>0, <2>1
  <2>4. T!SweepKnows(s)'
    BY <2>1, <2>2, <2>3 DEF T!SweepKnows
  <2> QED
    BY <2>1, <2>2, <2>4, SweepLooks
<1>3. ASSUME NEW i \in T!Inodes, T!OpenSetup(s, i) PROVE T!TmpDirInd'
  <2> DEFINE w == [pc |-> "try", kind |-> "setup", run |-> i[1], at |-> i[2]]
  <2>1. /\ sw' = [sw EXCEPT ![s] = w]
        /\ UNCHANGED <<setup, lock, dir, held, live, pc, try, left>>
    BY <1>3 DEF T!OpenSetup
  <2>2. w \in T!SweepStates /\ i[1] \in Runs /\ i[2] \in 1..Attempts
    BY DEF T!Inodes, T!SweepStates, T!ParametersOK
  <2>3. sw'[s] = w
    BY <1>0, <2>1
  <2>4. T!SweepKnows(s)'
    BY <2>1, <2>2, <2>3 DEF T!SweepKnows
  <2> QED
    BY <2>1, <2>2, <2>4, SweepLooks
<1> QED
  BY <1>1, <1>2, <1>3

\* Whatever lock file a sweep could lock belongs to no run at work.
LEMMA TryLockInd ==
  ASSUME T!ParametersOK, ~PosixLocks, T!TmpDirInd, NEW s \in Sweeps, T!TryLock(s)
  PROVE  T!TmpDirInd'
<1> DEFINE i == <<sw[s].run, sw[s].at>>
<1>0. T!TypeOK /\ sw \in [Sweeps -> T!SweepStates] /\ T!SweepKnows(s) /\ sw[s].pc = "try"
  BY DEF T!TmpDirInd, T!TypeOK, T!TryLock
<1>1. sw[s].run \in Runs /\ i \in T!Inodes
  BY <1>0 DEF T!SweepKnows, T!Inodes
<1>2. CASE T!MayLock(s, i)
  <2> DEFINE to == IF sw[s].kind = "lock" THEN "rmdir" ELSE "rm"
  <2>1. /\ held' = [held EXCEPT ![i] = IF @ = T!None THEN s ELSE @]
        /\ sw' = [sw EXCEPT ![s].pc = to]
        /\ UNCHANGED <<setup, lock, dir, live, pc, try, left>>
    BY <1>2 DEF T!TryLock, T!At
  <2>2. held[i] = T!None
    BY <1>2 DEF T!MayLock
  <2>3. /\ held' \in [T!Inodes -> Runs \union Sweeps \union {T!None}] /\ held'[i] = s
        /\ \A j \in T!Inodes : held[j] # T!None => held'[j] = held[j]
    BY <1>0, <1>1, <2>1, <2>2 DEF T!TypeOK
  <2>4. /\ sw' = [sw EXCEPT ![s] = [sw[s] EXCEPT !.pc = to]] /\ sw[s] \in T!SweepStates
    BY <1>0, <2>1
  <2>5. /\ sw' \in [Sweeps -> T!SweepStates] /\ sw'[s].pc = to /\ sw'[s].kind = sw[s].kind
        /\ sw'[s].run = sw[s].run /\ sw'[s].at = sw[s].at
        /\ \A u \in Sweeps : u # s => sw'[u] = sw[u]
    BY <1>0, <2>4 DEF T!SweepStates
  <2>6. T!TypeOK'
    BY <1>0, <2>1, <2>3, <2>5 DEF T!TypeOK
  <2>7. T!OwnLock' /\ T!LockNamed' /\ T!DirMade' /\ T!LiveDirKept'
    <3>1. T!OwnLock'
      BY <1>0, <2>1, <2>3, InodeOf DEF T!TmpDirInd, T!OwnLock, T!ParametersOK
    <3> QED
      BY <2>1, <3>1 DEF T!TmpDirInd, T!LockNamed, T!DirMade, T!LiveDirKept
  <2>8. T!SweepKnows(s)'
    BY <1>0, <2>1, <2>3, <2>5 DEF T!SweepKnows
  <2>9. ASSUME NEW u \in Sweeps, u # s PROVE T!SweepKnows(u)'
    <3>1. sw'[u] = sw[u] /\ T!SweepKnows(u)
      BY <2>5, <2>9 DEF T!TmpDirInd
    <3>2. sw[u].pc \in {"rmdir", "rm"} => <<sw[u].run, sw[u].at>> \in T!Inodes
      BY <3>1 DEF T!SweepKnows, T!Inodes
    <3>3. ASSUME sw[u].pc \in {"rmdir", "rm"}
          PROVE  held'[<<sw[u].run, sw[u].at>>] = held[<<sw[u].run, sw[u].at>>]
      <4>1. held[<<sw[u].run, sw[u].at>>] = u
        BY <3>1, <3>3 DEF T!SweepKnows
      <4>2. u # T!None
        BY DEF T!ParametersOK
      <4> QED
        BY <2>3, <3>2, <3>3, <4>1, <4>2
    <3> QED
      BY <2>1, <3>1, <3>3 DEF T!SweepKnows
  <2> QED
    BY <2>6, <2>7, <2>8, <2>9 DEF T!TmpDirInd
<1>3. CASE ~T!MayLock(s, i)
  <2>1. /\ sw' = [sw EXCEPT ![s] = T!Idle] /\ UNCHANGED <<setup, lock, dir, held, live, pc, try, left>>
    BY <1>3 DEF T!TryLock
  <2>2. T!SweepKnows(s)'
    BY <1>0, <2>1, IdleKnows DEF T!SweepKnows
  <2> QED
    BY <2>1, <2>2, IdleKnows, SweepLooks
<1> QED
  BY <1>2, <1>3

\* The directory that goes is of a run that is done or crashed.
LEMMA SweepDirInd ==
  ASSUME T!ParametersOK, T!TmpDirInd, NEW s \in Sweeps, NEW gone \in BOOLEAN,
         T!SweepDir(s, gone) \/ T!SweepBareDir(s, gone)
  PROVE  T!TmpDirInd'
<1> DEFINE r == sw[s].run
<1>0. T!TypeOK /\ sw \in [Sweeps -> T!SweepStates] /\ T!SweepKnows(s)
  BY DEF T!TmpDirInd, T!TypeOK
<1>1. r \in Runs /\ pc[r] # "live"
  <2>1. CASE T!SweepDir(s, gone)
    <3>1. r \in Runs /\ held[<<r, try[r]>>] = s
      BY <1>0, <2>1 DEF T!SweepDir, T!SweepKnows
    <3> QED
      BY <3>1 DEF T!TmpDirInd, T!OwnLock, T!ParametersOK
  <2>2. CASE T!SweepBareDir(s, gone)
    BY <1>0, <2>2 DEF T!SweepBareDir, T!SweepKnows
  <2> QED
    BY <2>1, <2>2
<1>2. /\ dir' = (IF gone THEN [dir EXCEPT ![r] = FALSE] ELSE dir) /\ UNCHANGED <<setup, lock, held, live, pc, try, left>>
  BY DEF T!SweepDir, T!SweepBareDir
<1>3. /\ sw' \in [Sweeps -> T!SweepStates]
      /\ \A u \in Sweeps : u # s => sw'[u] = sw[u]
      /\ \/ sw'[s].pc = "idle"
         \/ /\ sw[s].pc = "rmdir" /\ sw'[s].pc = "rm" /\ sw'[s].kind = sw[s].kind
            /\ sw'[s].run = r /\ sw'[s].at = sw[s].at
  <2>1. CASE T!SweepDir(s, gone)
    <3>1. /\ sw' = [sw EXCEPT ![s] = [sw[s] EXCEPT !.pc = "rm"]] /\ sw[s] \in T!SweepStates
          /\ sw[s].pc = "rmdir"
      BY <1>0, <2>1 DEF T!SweepDir, T!At
    <3> QED
      BY <1>0, <3>1 DEF T!SweepStates
  <2>2. CASE T!SweepBareDir(s, gone)
    BY <1>0, <2>2, IdleKnows DEF T!SweepBareDir
  <2> QED
    BY <2>1, <2>2
<1>4. T!TypeOK'
  BY <1>0, <1>2, <1>3 DEF T!TypeOK
<1>5. T!OwnLock' /\ T!LockNamed' /\ T!DirMade' /\ T!LiveDirKept'
  BY <1>0, <1>1, <1>2 DEF T!TypeOK, T!TmpDirInd, T!OwnLock, T!LockNamed, T!DirMade, T!LiveDirKept
<1>6. T!SweepKnows(s)'
  BY <1>0, <1>2, <1>3 DEF T!SweepKnows
<1>7. \A u \in Sweeps : u # s => T!SweepKnows(u)'
  BY <1>2, <1>3 DEF T!TmpDirInd, T!SweepKnows
<1> QED
  BY <1>4, <1>5, <1>6, <1>7 DEF T!TmpDirInd

\* And so is the name of the lock file that goes with it.
LEMMA SweepFileInd ==
  ASSUME T!ParametersOK, T!TmpDirInd, NEW s \in Sweeps, NEW gone \in BOOLEAN, T!SweepFile(s, gone)
  PROVE  T!TmpDirInd'
<1> DEFINE r == sw[s].run
           i == <<r, sw[s].at>>
<1>0. T!TypeOK /\ sw \in [Sweeps -> T!SweepStates] /\ T!SweepKnows(s) /\ sw[s].pc = "rm"
  BY DEF T!TmpDirInd, T!TypeOK, T!SweepFile
<1>1. /\ r \in Runs /\ i \in T!Inodes /\ held[i] = s
      /\ sw[s].kind = "lock" => pc[r] \in {"done", "crashed"}
  <2>1. r \in Runs /\ i \in T!Inodes /\ held[i] = s
    BY <1>0 DEF T!SweepKnows, T!Inodes
  <2>2. CASE sw[s].kind = "lock"
    <3>1. held[<<r, try[r]>>] = s /\ pc[r] \in T!Named
      BY <1>0, <2>1, <2>2 DEF T!SweepKnows
    <3> QED
      BY <2>1, <3>1 DEF T!TmpDirInd, T!OwnLock, T!ParametersOK, T!Named
  <2> QED
    BY <2>1, <2>2
<1>2. /\ sw' = [sw EXCEPT ![s] = T!Idle] /\ UNCHANGED <<dir, live, pc, try, left>>
      /\ held' = [held EXCEPT ![i] = IF @ = s THEN T!None ELSE @]
      /\ lock' = IF gone /\ sw[s].kind = "lock" THEN [lock EXCEPT ![r] = 0] ELSE lock
      /\ setup' = IF gone /\ sw[s].kind # "lock" THEN setup \ {i} ELSE setup
  BY DEF T!SweepFile
<1>3. /\ held' \in [T!Inodes -> Runs \union Sweeps \union {T!None}]
      /\ \A j \in T!Inodes : held[j] # s => held'[j] = held[j]
  BY <1>0, <1>1, <1>2 DEF T!TypeOK
<1>4. /\ sw' \in [Sweeps -> T!SweepStates] /\ sw'[s].pc = "idle"
      /\ \A u \in Sweeps : u # s => sw'[u] = sw[u]
  BY <1>0, <1>2, IdleKnows
<1>5. /\ setup' \subseteq T!Inodes /\ lock' \in [Runs -> 0..Attempts]
      /\ \A q \in Runs : lock'[q] = lock[q] \/ (lock'[q] = 0 /\ pc[q] \in {"done", "crashed"})
  BY <1>0, <1>1, <1>2 DEF T!TypeOK, T!ParametersOK
<1>6. T!TypeOK'
  BY <1>0, <1>2, <1>3, <1>4, <1>5 DEF T!TypeOK
<1>7. T!OwnLock'
  BY <1>0, <1>2, <1>3, InodeOf DEF T!TmpDirInd, T!OwnLock, T!ParametersOK
<1>8. T!LockNamed' /\ T!DirMade' /\ T!LiveDirKept'
  BY <1>2, <1>5 DEF T!TmpDirInd, T!LockNamed, T!DirMade, T!LiveDirKept
<1>9. T!SweepKnows(s)'
  BY <1>4 DEF T!SweepKnows
<1>10. ASSUME NEW u \in Sweeps, u # s PROVE T!SweepKnows(u)'
  <2>1. sw'[u] = sw[u] /\ T!SweepKnows(u)
    BY <1>4, <1>10 DEF T!TmpDirInd
  <2>2. sw[u].pc \in {"rmdir", "rm"} => <<sw[u].run, sw[u].at>> \in T!Inodes
    BY <2>1 DEF T!SweepKnows, T!Inodes
  <2> QED
    BY <1>2, <1>3, <1>10, <2>1, <2>2 DEF T!SweepKnows
<1> QED
  BY <1>6, <1>7, <1>8, <1>9, <1>10 DEF T!TmpDirInd

\* A directory seen without its lock file is of a run that removed it, or crashed.
LEMMA LookForLockInd ==
  ASSUME T!ParametersOK, T!TmpDirInd, NEW s \in Sweeps, T!LookForLock(s)
  PROVE  T!TmpDirInd'
<1> DEFINE r == sw[s].run
<1>0. T!TypeOK /\ sw \in [Sweeps -> T!SweepStates] /\ T!SweepKnows(s) /\ T!LockNamed
  BY DEF T!TmpDirInd, T!TypeOK
<1>1. /\ sw[s].pc = "seen" /\ r \in Runs /\ try[r] \in 1..Attempts
      /\ pc[r] \in {"live", "rmlock", "drop", "done", "crashed"}
      /\ UNCHANGED <<setup, lock, dir, held, live, pc, try, left>>
  BY <1>0 DEF T!LookForLock, T!SweepKnows, T!TypeOK
<1>2. CASE lock[r] # 0 \/ r \in live[Proc[s]]
  <2>1. sw' = [sw EXCEPT ![s] = T!Idle]
    BY <1>2 DEF T!LookForLock
  <2>2. T!SweepKnows(s)'
    BY <1>0, <2>1, IdleKnows DEF T!SweepKnows
  <2> QED
    BY <1>1, <2>1, <2>2, IdleKnows, SweepLooks
<1>3. CASE ~(lock[r] # 0 \/ r \in live[Proc[s]])
  <2> DEFINE w == [sw[s] EXCEPT !.pc = "rmonly"]
  <2>1. sw' = [sw EXCEPT ![s] = w] /\ sw[s] \in T!SweepStates
    BY <1>0, <1>3 DEF T!LookForLock, T!At
  <2>2. w \in T!SweepStates /\ w.pc = "rmonly" /\ w.run = r
    BY <2>1 DEF T!SweepStates
  <2>3. sw'[s] = w
    BY <1>0, <2>1
  <2>4. pc[r] \in {"drop", "done", "crashed"}
    BY <1>0, <1>1, <1>3 DEF T!LockNamed, T!ParametersOK
  <2> HIDE DEF w
  <2>5. T!SweepKnows(s)'
    BY <1>1, <2>2, <2>3, <2>4 DEF T!SweepKnows
  <2> QED
    BY <1>1, <2>1, <2>2, <2>5, SweepLooks
<1> QED
  BY <1>2, <1>3

\* The invariant of the temporary directories is inductive.
LEMMA TmpDirInductive ==
  ASSUME T!ParametersOK, ~PosixLocks, T!TmpDirInd, [T!Next]_(T!vars)
  PROVE  T!TmpDirInd'
<1>1. ASSUME NEW r \in Runs,
             \/ T!CreateSetup(r) \/ T!LockSetup(r) \/ T!RenameSetup(r) \/ T!Enlist(r) \/ T!MakeDir(r)
             \/ T!DropPolicy(r) \/ \E gone \in BOOLEAN : T!RemoveDir(r, gone) \/ T!RemoveLock(r, gone)
      PROVE  T!TmpDirInd'
  BY <1>1, CreateSetupInd, LockSetupInd, RenameSetupInd, EnlistMakeInd, RemoveInd
<1>2. ASSUME NEW s \in Sweeps, NEW r \in Runs, T!OpenLock(s, r) \/ T!SeeDir(s, r) PROVE T!TmpDirInd'
  BY <1>2, OpenInd
<1>3. ASSUME NEW s \in Sweeps, NEW i \in T!Inodes, T!OpenSetup(s, i) PROVE T!TmpDirInd'
  BY <1>3, OpenInd
<1>4. ASSUME NEW s \in Sweeps, T!Goes(s) PROVE T!TmpDirInd'
  BY <1>4, TryLockInd, SweepDirInd, SweepFileInd, LookForLockInd DEF T!Goes
<1>5. ASSUME NEW p \in T!Procs, T!Crash(p) PROVE T!TmpDirInd'
  BY <1>5, CrashInd
<1>6. CASE UNCHANGED T!vars
  BY <1>6 DEF T!vars, T!TmpDirInd, T!TypeOK, T!OwnLock, T!LockNamed, T!DirMade, T!LiveDirKept, T!SweepKnows
<1> QED
  BY <1>1, <1>2, <1>3, <1>4, <1>5, <1>6 DEF T!Next

\* For any number of runs, sweeps, processes and attempts, and crashes at any step: a run
\* that is using its temporary directory has it, as long as a lock is of the file opened
\* and not of the process (remove_stale_tmp: "Safe to run concurrently").
THEOREM LiveDirStays ==
  ASSUME T!ParametersOK, ~PosixLocks
  PROVE  T!Spec => []T!LiveDirKept
<1>1. T!Init => T!TmpDirInd
  BY TmpDirInit
<1>2. T!TmpDirInd /\ [T!Next]_(T!vars) => T!TmpDirInd'
  BY TmpDirInductive
<1>3. T!TmpDirInd => T!LiveDirKept
  BY DEF T!TmpDirInd
<1> QED
  BY <1>1, <1>2, <1>3, PTL DEF T!Spec

-----------------------------------------------------------------------------
(* Either of them *)

\* Nothing is taken away: no sweep removes the temporary directory of a live run where
\* flock protects (sandbox/policy.rs), and no answer is replaced (executor/prompt.rs).
THEOREM NothingIsTaken == ASSUME ~PosixLocks PROVE Spec => NothingTaken
<1> DEFINE Ind == (part = "tmpdir" => T!TmpDirInd) /\ (part = "prompt" => P!PromptInd)
<1>1. Init => Ind
  BY TmpDirParameters, PromptParameters, TmpDirInit, PromptInit DEF Init
<1>2. [Next]_everything => part' = part
  BY DEF Next, everything
<1>3. ASSUME part = "tmpdir", [Next]_everything PROVE [T!Next]_(T!vars)
  BY <1>3 DEF Next, everything, ownTmpdir, T!vars
<1>4. ASSUME part = "prompt", [Next]_everything PROVE [P!Next]_(P!vars)
  BY <1>4 DEF Next, everything, ownPrompt, P!vars
<1>5. Ind /\ [Next]_everything => Ind'
  BY <1>2, <1>3, <1>4, TmpDirParameters, PromptParameters, TmpDirInductive, PromptInductive
<1>6. Ind => (part = "tmpdir" => T!LiveDirKept)
  BY DEF T!TmpDirInd
<1>7. Ind /\ Ind' /\ [Next]_everything => [part = "prompt" => P!AnswerKept]_<<part, prompted, call>>
  BY <1>2, <1>4, PromptParameters, StepKeepsAnswers
<1> QED
  BY <1>1, <1>5, <1>6, <1>7, PTL DEF Spec, NothingTaken
=============================================================================
