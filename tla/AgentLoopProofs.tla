--------------------------- MODULE AgentLoopProofs ---------------------------
(***************************************************************************)
(* TLAPS proofs about AgentLoop, for every set of calls, every number of   *)
(* tools and every configuration of the runtime.                           *)
(***************************************************************************)
EXTENDS AgentLoop, TLAPS

Active == {"announced", "executing", "reporting"}
Over == {"ending", "emitted", "returned"}

Control ==
  /\ \A c \in Call : InProgress(c) => controller = c
  /\ controller # None => InProgress(controller)
  /\ status = "running" => controller # None
  /\ \A c \in Call : pc[c] \in {"ending", "emitted"} => status # "running"

Results ==
  \A c \in Call :
    /\ pc[c] \notin Over <=> result[c] = "none"
    /\ pc[c] \in {"ending", "emitted"} => result[c] \in {"completed", "aborted", "failed"}
    /\ c \notin threw =>
         ended[c] = IF result[c] \in {"completed", "aborted", "failed"}
                       /\ pc[c] \in {"emitted", "returned"} THEN 1 ELSE 0

ToolsHeldBy(c) ==
  /\ pc[c] \in {"preparing", "executing"} => reply[c].calls # 0
  /\ \A i \in Tool : tool[c][i].at \in Active =>
       \/ pc[c] = "executing" /\ i \in Called(c)
       \/ parallel /\ pc[c] \in Over
  /\ ~parallel => \A i, j \in Tool :
       tool[c][i].at \in Active /\ tool[c][j].at \in Active => i = j

ToolsHeld == \A c \in Call : ToolsHeldBy(c)

PairsOf(c) ==
  \A i \in Tool : <<c, i>> \in unanswered =>
    \/ pc[c] \in {"pushed", "preparing", "executing"} /\ i \in Called(c)
    \/ pc[c] = "recording" /\ i \in Called(c) /\ tool[c][i].at = "done"
    \/ pc[c] \in Over /\ result[c] # "completed"

Pairs == \A c \in Call : PairsOf(c)

LoopInv == TypeOK /\ Control /\ Results /\ ToolsHeld /\ Pairs

-----------------------------------------------------------------------------
\* The catch block, whatever the abort says: the run ends aborted or failed.
LEMMA CaughtSteps ==
  ASSUME NEW c, NEW stopped, Caught(c, stopped)
  PROVE  \E outcome \in {"aborted", "failed"} :
           /\ status' = outcome
           /\ result' = [result EXCEPT ![c] = outcome]
           /\ pc' = [pc EXCEPT ![c] = "ending"]
           /\ caught' = [caught EXCEPT ![c] = TRUE]
           /\ controller' = controller
  BY DEF Caught, StatusAfter, Goto

\* The head of the loop ends the run or asks the model once more.
LEMMA LoopTopSteps ==
  ASSUME iteration \in Nat, NEW c \in Call, LoopTop(c)
  PROVE  /\ iteration' \in Nat
         /\ \/ \E stopped : Caught(c, stopped)
            \/ /\ pc' = [pc EXCEPT ![c] = "asking"]
               /\ UNCHANGED status /\ UNCHANGED controller
               /\ UNCHANGED caught /\ UNCHANGED result
<1>1. CASE LoopStops
  BY <1>1 DEF LoopTop
<1>2. CASE ~LoopStops
  <2>1. /\ pc' = [pc EXCEPT ![c] = "asking"]
        /\ UNCHANGED status /\ UNCHANGED controller /\ UNCHANGED caught /\ UNCHANGED result
    BY <1>2 DEF LoopTop, Goto, GoesOn
  <2>2. iteration' = IF maxIterations = 0 THEN 0 ELSE iteration + 1
    BY <1>2 DEF LoopTop
  <2>3. iteration' \in Nat
    BY <2>2
  <2> QED
    BY <2>1, <2>3
<1> QED
  BY <1>1, <1>2

\* The statements that write the record of one tool.
LEMMA MoveTyped ==
  ASSUME tool \in [Call -> Tools], NEW c \in Call, NEW i \in Tool
  PROVE  /\ \A stage \in ToolStages : MoveTool(c, i, stage) => tool' \in [Call -> Tools]
         /\ \A again \in BOOLEAN : StartTool(c, i, again) => tool' \in [Call -> Tools]
<1>1. \A stage \in ToolStages : MoveTool(c, i, stage) => tool' \in [Call -> Tools]
  BY DEF MoveTool, Tools
<1>2. \A again \in BOOLEAN : StartTool(c, i, again) => tool' \in [Call -> Tools]
  BY DEF StartTool, Tools, ToolStages
<1> QED
  BY <1>1, <1>2

\* The statements that write the records of all tools of a call.
LEMMA ToolsTyped ==
  ASSUME tool \in [Call -> Tools], NEW c \in Call
  PROVE  /\ \A S : Announce(c, S) => tool' \in [Call -> Tools]
         /\ \A i : Record(c, i) => tool' \in [Call -> Tools]
<1>1. \A S : Announce(c, S) => tool' \in [Call -> Tools]
  BY DEF Announce, Tools, ToolStages
<1>2. \A i : Record(c, i) => tool' \in [Call -> Tools]
  BY DEF Record, Tools, ToolStages
<1> QED
  BY <1>1, <1>2

\* A tool that is not under way is forgotten with its call.
LEMMA ForgetTyped ==
  ASSUME tool \in [Call -> Tools], reply \in [Call -> Replies], NEW c \in Call, Forget(c)
  PROVE  tool' \in [Call -> Tools] /\ reply' \in [Call -> Replies]
  BY AgentLoopAssumption DEF Forget, Tools, Replies, NoTools, NoReply, ToolStages, FinishReasons

\* A run that is caught where it stands keeps the types.
LEMMA CaughtTyped ==
  ASSUME TypeOK, NEW c \in Call, NEW stopped, Caught(c, stopped)
  PROVE  /\ status' \in Statuses /\ controller' \in Call \cup {None}
         /\ pc' \in [Call -> Stages] /\ caught' \in [Call -> BOOLEAN]
         /\ result' \in [Call -> {"none", "completed", "aborted", "failed", "rejected"}]
  BY CaughtSteps DEF TypeOK, Statuses, Stages

LEMMA LoopTopTyped ==
  ASSUME TypeOK, NEW c \in Call, LoopTop(c)
  PROVE  /\ status' \in Statuses /\ controller' \in Call \cup {None}
         /\ pc' \in [Call -> Stages] /\ caught' \in [Call -> BOOLEAN]
         /\ result' \in [Call -> {"none", "completed", "aborted", "failed", "rejected"}]
         /\ iteration' \in Nat
<1>1. iteration \in Nat
  BY DEF TypeOK
<1>2. CASE \E stopped : Caught(c, stopped)
  BY <1>1, <1>2, CaughtTyped, LoopTopSteps
<1>3. CASE ~\E stopped : Caught(c, stopped)
  <2>1. /\ pc' = [pc EXCEPT ![c] = "asking"]
        /\ UNCHANGED status /\ UNCHANGED controller /\ UNCHANGED caught /\ UNCHANGED result
        /\ iteration' \in Nat
    BY <1>1, <1>3, LoopTopSteps
  <2> QED
    BY <2>1 DEF TypeOK, Stages
<1> QED
  BY <1>2, <1>3

\* A reply calls tools that exist.
LEMMA CalledTools ==
  ASSUME reply \in [Call -> Replies], NEW c \in Call
  PROVE  Called(c) \subseteq Tool
<1>1. reply[c].calls \in 0..MaxTools
  BY DEF Replies
<1> QED
  BY <1>1, AgentLoopAssumption DEF Called, Tool

LEMMA TypeStep ==
  TypeOK /\ [Next]_vars => TypeOK'
<1> USE DEF TypeOK, Statuses, Stages, config, history, Goto, GoesOn, Return, FinishRun
<1>1. ASSUME TypeOK, NEW c \in Call, Execute(c)
      PROVE  TypeOK'
  BY <1>1 DEF Execute
<1>2. ASSUME TypeOK, NEW c \in Call, Begin(c)
      PROVE  TypeOK'
  BY <1>2 DEF Begin
<1>3. ASSUME TypeOK, NEW c \in Call, Started(c)
      PROVE  TypeOK'
  BY <1>3, LoopTopTyped DEF Started
<1>4. ASSUME TypeOK, NEW c \in Call, Ask(c)
      PROVE  TypeOK'
  BY <1>4 DEF Ask
<1>5. ASSUME TypeOK, NEW c \in Call, StreamEnds(c)
      PROVE  TypeOK'
  BY <1>5 DEF StreamEnds, Replies
<1>6. ASSUME TypeOK, NEW c \in Call, Push(c)
      PROVE  TypeOK'
  <2>1. Called(c) \subseteq Tool
    BY <1>6, CalledTools
  <2>2. unanswered' \in SUBSET (Call \X Tool)
    BY <1>6, <2>1 DEF Push
  <2> QED
    BY <1>6, <2>2 DEF Push
<1>7. ASSUME TypeOK, NEW c \in Call, Decide(c)
      PROVE  TypeOK'
  <2>1. CASE Caught(c, FALSE) /\ UNCHANGED <<reply, unanswered>>
    BY <1>7, <2>1, CaughtTyped DEF Decide
  <2>2. CASE \E n \in 0..MaxTools :
               /\ reply' = [reply EXCEPT ![c] = [NoReply EXCEPT !.calls = n]]
               /\ unanswered' = IF Called(c) = {} THEN unanswered \cup ({c} \X (1..n))
                                ELSE unanswered
               /\ Goto(c, IF n = 0 THEN "wrapping" ELSE "preparing")
               /\ GoesOn
    <3>1. PICK n \in 0..MaxTools :
               /\ reply' = [reply EXCEPT ![c] = [NoReply EXCEPT !.calls = n]]
               /\ unanswered' = IF Called(c) = {} THEN unanswered \cup ({c} \X (1..n))
                                ELSE unanswered
               /\ Goto(c, IF n = 0 THEN "wrapping" ELSE "preparing")
               /\ GoesOn
      BY <2>2
    <3>2. 1..n \subseteq Tool /\ [NoReply EXCEPT !.calls = n] \in Replies
      BY <3>1, AgentLoopAssumption DEF Tool, Replies, NoReply, FinishReasons
    <3>3. unanswered' \in SUBSET (Call \X Tool) /\ reply' \in [Call -> Replies]
      BY <1>7, <3>1, <3>2
    <3> QED
      BY <1>7, <3>1, <3>3 DEF Decide
  <2>3. reply[c].calls \in 0..MaxTools
    BY <1>7 DEF Replies
  <2> QED
    BY <1>7, <2>1, <2>2, <2>3 DEF Decide
<1>8. ASSUME TypeOK, NEW c \in Call, Prepared(c)
      PROVE  TypeOK'
  <2>1. tool' \in [Call -> Tools]
    BY <1>8, ToolsTyped DEF Prepared
  <2> QED
    BY <1>8, <2>1, CaughtTyped DEF Prepared
<1>9. ASSUME TypeOK, NEW c \in Call, RecordNext(c)
      PROVE  TypeOK'
  <2>1. tool' \in [Call -> Tools] /\ reply' \in [Call -> Replies]
    <3>1. CASE Forget(c)
      BY <1>9, <3>1, ForgetTyped
    <3>2. CASE \E i \in Called(c) : MoveTool(c, i, "recorded") /\ UNCHANGED <<pc, reply>>
      BY <1>9, <3>2, CalledTools, MoveTyped DEF ToolStages
    <3> QED
      BY <1>9, <3>1, <3>2 DEF RecordNext
  <2> QED
    BY <1>9, <2>1 DEF RecordNext
<1>10. ASSUME TypeOK, NEW c \in Call, Wrap(c)
      PROVE  TypeOK'
  <2>1. CASE FinishRun(c) /\ UNCHANGED iteration
    BY <1>10, <2>1 DEF Wrap
  <2>2. CASE LoopTop(c)
    BY <1>10, <2>2, LoopTopTyped DEF Wrap
  <2> QED
    BY <1>10, <2>1, <2>2 DEF Wrap
<1>11. ASSUME TypeOK, NEW c \in Call, Interrupted(c)
      PROVE  TypeOK'
  BY <1>11, CaughtTyped DEF Interrupted
<1>12. ASSUME TypeOK, NEW c \in Call, EmitEnd(c)
      PROVE  TypeOK'
  BY <1>12 DEF EmitEnd
<1>13. ASSUME TypeOK, NEW c \in Call, ReturnResult(c)
      PROVE  TypeOK'
  BY <1>13, ForgetTyped DEF ReturnResult
<1>14. ASSUME TypeOK, NEW c \in Call, EndingThrows(c)
      PROVE  TypeOK'
  <2>1. ended' \in [Call -> Nat]
    BY <1>14 DEF EndingThrows
  <2>2. CASE Caught(c, FALSE) /\ UNCHANGED <<signal, reply, tool>>
    BY <1>14, <2>1, <2>2, CaughtTyped DEF EndingThrows
  <2>3. CASE /\ Return(c) /\ Forget(c)
             /\ result' = [result EXCEPT ![c] = "rejected"]
             /\ UNCHANGED <<status, caught>>
    BY <1>14, <2>1, <2>3, ForgetTyped DEF EndingThrows
  <2> QED
    BY <1>14, <2>2, <2>3 DEF EndingThrows
<1>15. ASSUME TypeOK, NEW c \in Call, NEW i \in Tool, NEW stopped, ToolRejects(c, i, stopped),
              UNCHANGED <<config, signal, iteration, unanswered, reply, history>>
      PROVE  TypeOK'
  <2>1. tool' \in [Call -> Tools]
    BY <1>15, MoveTyped DEF ToolRejects, ToolStages
  <2> QED
    BY <1>15, <2>1, CaughtTyped DEF ToolRejects
<1>16. ASSUME TypeOK, NEW c \in Call, NEW i \in Tool, Try(c, i)
      PROVE  TypeOK'
  <2>1. CASE ToolRejects(c, i, FALSE)
    BY <1>15, <1>16, <2>1 DEF Try
  <2>2. CASE ~TryRefused(c, i)
    <3>1. tool' \in [Call -> Tools]
      BY <1>16, <2>2, MoveTyped DEF Try, ToolStages
    <3> QED
      BY <1>16, <2>2, <3>1 DEF Try
  <2> QED
    BY <1>16, <2>1, <2>2 DEF Try
<1>17. ASSUME TypeOK, NEW c \in Call, NEW i \in Tool, ToolEnds(c, i)
      PROVE  TypeOK'
  <2>1. CASE ToolRejects(c, i, FALSE)
    BY <1>15, <1>17, <2>1 DEF ToolEnds
  <2>2. CASE GoesOn /\ UNCHANGED pc /\ (MoveTool(c, i, "reporting") \/ StartTool(c, i, TRUE))
    <3>1. tool' \in [Call -> Tools]
      BY <1>17, <2>2, MoveTyped DEF ToolStages
    <3> QED
      BY <1>17, <2>2, <3>1 DEF ToolEnds
  <2> QED
    BY <1>17, <2>1, <2>2 DEF ToolEnds
<1>18. ASSUME TypeOK, NEW c \in Call, NEW i \in Tool, Report(c, i)
      PROVE  TypeOK'
  <2>1. CASE Record(c, 1) /\ Goto(c, "recording") /\ GoesOn
    <3>1. tool' \in [Call -> Tools] /\ unanswered' \in SUBSET (Call \X Tool)
      BY <1>18, <2>1, ToolsTyped DEF Record
    <3> QED
      BY <1>18, <2>1, <3>1 DEF Report
  <2>2. CASE Caught(c, FALSE) /\ MoveTool(c, i, "done") /\ UNCHANGED unanswered
    <3>1. tool' \in [Call -> Tools]
      BY <1>18, <2>2, MoveTyped DEF ToolStages
    <3> QED
      BY <1>18, <2>2, <3>1, CaughtTyped DEF Report
  <2>3. CASE /\ i + 1 \in Called(c)
             /\ tool' = [tool EXCEPT ![c][i] = [at |-> "done", retried |-> FALSE],
                                     ![c][i + 1] = [at |-> "announced", retried |-> FALSE]]
             /\ GoesOn /\ UNCHANGED <<pc, unanswered>>
    <3>1. tool' \in [Call -> Tools]
      BY <1>18, <2>3, CalledTools DEF Tools, ToolStages
    <3> QED
      BY <1>18, <2>3, <3>1 DEF Report
  <2>4. CASE MoveTool(c, i, "done") /\ GoesOn /\ UNCHANGED <<pc, unanswered>>
    <3>1. tool' \in [Call -> Tools]
      BY <1>18, <2>4, MoveTyped DEF ToolStages
    <3> QED
      BY <1>18, <2>4, <3>1 DEF Report
  <2> QED
    BY <1>18, <2>1, <2>2, <2>3, <2>4 DEF Report
<1>19. ASSUME TypeOK, NEW c \in Call, NEW i \in Tool, ToolHookThrows(c, i)
      PROVE  TypeOK'
  BY <1>15, <1>19 DEF ToolHookThrows
<1>20. ASSUME TypeOK, Abort PROVE TypeOK'
  BY <1>20 DEF Abort
<1>21. ASSUME TypeOK, Restore PROVE TypeOK'
  BY <1>21 DEF Restore
<1>22. ASSUME TypeOK, UNCHANGED vars PROVE TypeOK'
  BY <1>22 DEF vars
<1> QED
  BY <1>1, <1>2, <1>3, <1>4, <1>5, <1>6, <1>7, <1>8, <1>9, <1>10, <1>11, <1>12, <1>13,
     <1>14, <1>16, <1>17, <1>18, <1>19, <1>20, <1>21, <1>22 DEF Next, Step, ToolStep

-----------------------------------------------------------------------------
\* A call that goes on from one stage to another keeps the controller.
LEMMA ControlMoves ==
  ASSUME TypeOK, Control, NEW c \in Call, InProgress(c), NEW stage \in Stages,
         stage \notin {"none", "init", "returned", "ending", "emitted"},
         Goto(c, stage), UNCHANGED status, UNCHANGED controller
  PROVE  Control'
  BY DEF TypeOK, Control, InProgress, Goto

\* A run that is caught keeps it, and is no longer running.
LEMMA ControlCaught ==
  ASSUME TypeOK, Control, NEW c \in Call, InProgress(c), NEW stopped, Caught(c, stopped)
  PROVE  Control'
<1>1. PICK outcome \in {"aborted", "failed"} :
        /\ status' = outcome /\ pc' = [pc EXCEPT ![c] = "ending"]
        /\ controller' = controller
  BY CaughtSteps
<1> QED
  BY <1>1 DEF TypeOK, Control, InProgress

\* The only call in progress gives it back.
LEMMA ControlReturns ==
  ASSUME TypeOK, Control, NEW c \in Call, pc[c] \in {"ending", "emitted"}, Return(c),
         UNCHANGED status
  PROVE  Control'
  BY DEF TypeOK, Control, InProgress, Goto, Return

LEMMA ControlLoopTop ==
  ASSUME TypeOK, Control, NEW c \in Call, InProgress(c), LoopTop(c)
  PROVE  Control'
<1>1. iteration \in Nat
  BY DEF TypeOK
<1>2. CASE \E stopped : Caught(c, stopped)
  BY <1>2, ControlCaught
<1>3. CASE pc' = [pc EXCEPT ![c] = "asking"] /\ UNCHANGED status /\ UNCHANGED controller
  BY <1>3, ControlMoves DEF Goto, Stages
<1> QED
  BY <1>1, <1>2, <1>3, LoopTopSteps

\* What leaves stages, status and controller alone, or only moves the status off
\* "running".
LEMMA ControlKept ==
  ASSUME TypeOK, Control, UNCHANGED pc, UNCHANGED controller,
         status' = status \/ status' \in Statuses \ {"running"}
  PROVE  Control'
  BY DEF TypeOK, Control, InProgress

LEMMA ControlRejects ==
  ASSUME TypeOK, Control, NEW c \in Call, NEW i \in Tool, NEW stopped,
         ToolRejects(c, i, stopped)
  PROVE  Control'
<1>1. CASE pc[c] = "executing"
  <2>1. InProgress(c)
    BY <1>1 DEF InProgress
  <2>2. Caught(c, stopped)
    BY <1>1 DEF ToolRejects
  <2> QED
    BY <2>1, <2>2, ControlCaught
<1>2. CASE pc[c] # "executing"
  BY <1>2, ControlKept DEF ToolRejects, GoesOn
<1> QED
  BY <1>1, <1>2

LEMMA ControlStep ==
  TypeOK /\ Control /\ [Next]_vars => Control'
<1>1. ASSUME TypeOK, Control, NEW c \in Call, Execute(c)
      PROVE  Control'
  BY <1>1 DEF Execute, Control, TypeOK, Goto, InProgress
<1>2. ASSUME TypeOK, Control, NEW c \in Call, Begin(c)
      PROVE  Control'
  BY <1>2, AgentLoopAssumption DEF Begin, Control, TypeOK, Goto, InProgress
<1>3. ASSUME TypeOK, Control, NEW c \in Call, Started(c)
      PROVE  Control'
  BY <1>3, ControlLoopTop DEF Started, InProgress
<1>4. ASSUME TypeOK, Control, NEW c \in Call, Ask(c)
      PROVE  Control'
  BY <1>4, ControlMoves DEF Ask, InProgress, Stages, GoesOn
<1>5. ASSUME TypeOK, Control, NEW c \in Call, StreamEnds(c)
      PROVE  Control'
  BY <1>5, ControlMoves DEF StreamEnds, InProgress, Stages, GoesOn
<1>6. ASSUME TypeOK, Control, NEW c \in Call, Push(c)
      PROVE  Control'
  BY <1>6, ControlMoves DEF Push, InProgress, Stages, GoesOn
<1>7. ASSUME TypeOK, Control, NEW c \in Call, Decide(c)
      PROVE  Control'
  <2>1. CASE Caught(c, FALSE)
    BY <1>7, <2>1, ControlCaught DEF Decide, InProgress
  <2>2. CASE GoesOn /\ \E n : Goto(c, IF n = 0 THEN "wrapping" ELSE "preparing")
    <3>1. GoesOn /\ (Goto(c, "wrapping") \/ Goto(c, "preparing"))
      BY <2>2 DEF Goto
    <3> QED
      BY <1>7, <3>1, ControlMoves DEF Decide, InProgress, Stages, GoesOn
  <2> QED
    BY <1>7, <2>1, <2>2 DEF Decide
<1>8. ASSUME TypeOK, Control, NEW c \in Call, Prepared(c)
      PROVE  Control'
  <2>1. CASE Caught(c, FALSE)
    BY <1>8, <2>1, ControlCaught DEF Prepared, InProgress
  <2>2. CASE Goto(c, "executing") /\ GoesOn
    BY <1>8, <2>2, ControlMoves DEF Prepared, InProgress, Stages, GoesOn
  <2> QED
    BY <1>8, <2>1, <2>2 DEF Prepared
<1>9. ASSUME TypeOK, Control, NEW c \in Call, RecordNext(c)
      PROVE  Control'
  <2>1. CASE Goto(c, "wrapping")
    BY <1>9, <2>1, ControlMoves DEF RecordNext, InProgress, Stages, GoesOn
  <2>2. CASE UNCHANGED pc
    BY <1>9, <2>2, ControlKept DEF RecordNext, GoesOn
  <2> QED
    BY <1>9, <2>1, <2>2 DEF RecordNext
<1>10. ASSUME TypeOK, Control, NEW c \in Call, Wrap(c)
      PROVE  Control'
  <2>1. CASE FinishRun(c)
    BY <1>10, <2>1 DEF Wrap, FinishRun, Control, TypeOK, Goto, InProgress
  <2>2. CASE LoopTop(c)
    BY <1>10, <2>2, ControlLoopTop DEF Wrap, InProgress
  <2> QED
    BY <1>10, <2>1, <2>2 DEF Wrap
<1>11. ASSUME TypeOK, Control, NEW c \in Call, Interrupted(c)
      PROVE  Control'
  BY <1>11, ControlCaught DEF Interrupted, InProgress
<1>12. ASSUME TypeOK, Control, NEW c \in Call, EmitEnd(c)
      PROVE  Control'
  BY <1>12 DEF EmitEnd, Control, TypeOK, Goto, InProgress
<1>13. ASSUME TypeOK, Control, NEW c \in Call, ReturnResult(c)
      PROVE  Control'
  BY <1>13, ControlReturns DEF ReturnResult
<1>14. ASSUME TypeOK, Control, NEW c \in Call, EndingThrows(c)
      PROVE  Control'
  <2>1. CASE Caught(c, FALSE)
    BY <1>14, <2>1, ControlCaught DEF EndingThrows, InProgress
  <2>2. CASE Return(c) /\ UNCHANGED <<status, caught>>
    BY <1>14, <2>2, ControlReturns DEF EndingThrows
  <2> QED
    BY <1>14, <2>1, <2>2 DEF EndingThrows
<1>15. ASSUME TypeOK, Control, NEW c \in Call, NEW i \in Tool, Try(c, i)
      PROVE  Control'
  <2>1. CASE ToolRejects(c, i, FALSE)
    BY <1>15, <2>1, ControlRejects
  <2>2. CASE GoesOn /\ UNCHANGED pc
    BY <1>15, <2>2, ControlKept DEF GoesOn
  <2> QED
    BY <1>15, <2>1, <2>2 DEF Try
<1>16. ASSUME TypeOK, Control, NEW c \in Call, NEW i \in Tool, ToolEnds(c, i)
      PROVE  Control'
  <2>1. CASE ToolRejects(c, i, FALSE)
    BY <1>16, <2>1, ControlRejects
  <2>2. CASE GoesOn /\ UNCHANGED pc
    BY <1>16, <2>2, ControlKept DEF GoesOn
  <2> QED
    BY <1>16, <2>1, <2>2 DEF ToolEnds
<1>17. ASSUME TypeOK, Control, NEW c \in Call, NEW i \in Tool, Report(c, i)
      PROVE  Control'
  <2>1. CASE pc[c] = "executing" /\ Goto(c, "recording") /\ GoesOn
    BY <1>17, <2>1, ControlMoves DEF InProgress, Stages, GoesOn
  <2>2. CASE pc[c] = "executing" /\ Caught(c, FALSE)
    BY <1>17, <2>2, ControlCaught DEF InProgress
  <2>3. CASE GoesOn /\ UNCHANGED pc
    BY <1>17, <2>3, ControlKept DEF GoesOn
  <2> QED
    BY <1>17, <2>1, <2>2, <2>3 DEF Report
<1>18. ASSUME TypeOK, Control, NEW c \in Call, NEW i \in Tool, ToolHookThrows(c, i)
      PROVE  Control'
  BY <1>18, ControlRejects DEF ToolHookThrows
<1>19. ASSUME TypeOK, Control, Abort PROVE Control'
  BY <1>19, ControlKept DEF Abort
<1>20. ASSUME TypeOK, Control, Restore PROVE Control'
  BY <1>20, ControlKept DEF Restore, Statuses
<1>21. ASSUME TypeOK, Control, UNCHANGED vars PROVE Control'
  BY <1>21, ControlKept DEF vars
<1> QED
  BY <1>1, <1>2, <1>3, <1>4, <1>5, <1>6, <1>7, <1>8, <1>9, <1>10, <1>11, <1>12, <1>13,
     <1>14, <1>15, <1>16, <1>17, <1>18, <1>19, <1>20, <1>21 DEF Next, Step, ToolStep

-----------------------------------------------------------------------------
LEMMA ResultsMoves ==
  ASSUME TypeOK, Results, NEW c \in Call, pc[c] \notin Over, NEW stage \in Stages \ Over,
         Goto(c, stage), UNCHANGED result, UNCHANGED history
  PROVE  Results'
  BY DEF TypeOK, Results, Goto, Over, history

\* The first end of a run tells how it ended; nothing was emitted before.
LEMMA ResultsEnd ==
  ASSUME TypeOK, Results, NEW c \in Call, pc[c] \notin Over,
         NEW outcome \in {"completed", "aborted", "failed"},
         Goto(c, "ending"), result' = [result EXCEPT ![c] = outcome], UNCHANGED history
  PROVE  Results'
  BY DEF TypeOK, Results, Goto, Over, history

LEMMA ResultsCaught ==
  ASSUME TypeOK, Results, NEW c \in Call, pc[c] \notin Over, NEW stopped,
         Caught(c, stopped), UNCHANGED history
  PROVE  Results'
<1>1. PICK outcome \in {"aborted", "failed"} :
        Goto(c, "ending") /\ result' = [result EXCEPT ![c] = outcome]
  BY CaughtSteps DEF Goto
<1> QED
  BY <1>1, ResultsEnd

LEMMA ResultsLoopTop ==
  ASSUME TypeOK, Results, NEW c \in Call, pc[c] \notin Over, LoopTop(c), UNCHANGED history
  PROVE  Results'
<1>1. iteration \in Nat
  BY DEF TypeOK
<1>2. CASE \E stopped : Caught(c, stopped)
  BY <1>2, ResultsCaught
<1>3. CASE pc' = [pc EXCEPT ![c] = "asking"] /\ UNCHANGED result
  BY <1>3, ResultsMoves DEF Goto, Stages, Over
<1> QED
  BY <1>1, <1>2, <1>3, LoopTopSteps

LEMMA ResultsKept ==
  ASSUME Results, UNCHANGED pc, UNCHANGED result, UNCHANGED history
  PROVE  Results'
  BY DEF Results, history

LEMMA ResultsRejects ==
  ASSUME TypeOK, Results, NEW c \in Call, NEW i \in Tool, NEW stopped,
         ToolRejects(c, i, stopped), UNCHANGED history
  PROVE  Results'
<1>1. CASE pc[c] = "executing"
  BY <1>1, ResultsCaught DEF ToolRejects, Over
<1>2. CASE pc[c] # "executing"
  BY <1>2, ResultsKept DEF ToolRejects, GoesOn
<1> QED
  BY <1>1, <1>2

LEMMA ResultsStep ==
  TypeOK /\ Results /\ [Next]_vars => Results'
<1>1. ASSUME TypeOK, Results, NEW c \in Call, Execute(c)
      PROVE  Results'
  BY <1>1, ResultsMoves DEF Execute, Over, Stages
<1>2. ASSUME TypeOK, Results, NEW c \in Call, Begin(c)
      PROVE  Results'
  <2>1. CASE Goto(c, "returned") /\ result' = [result EXCEPT ![c] = "rejected"]
    BY <1>2, <2>1 DEF Begin, TypeOK, Results, Goto, Over
  <2>2. CASE Goto(c, "starting") /\ UNCHANGED result
    BY <1>2, <2>2, ResultsMoves DEF Begin, Over, Stages, history
  <2> QED
    BY <1>2, <2>1, <2>2 DEF Begin
<1>3. ASSUME TypeOK, Results, NEW c \in Call, Started(c)
      PROVE  Results'
  BY <1>3, ResultsLoopTop DEF Started, Over
<1>4. ASSUME TypeOK, Results, NEW c \in Call, Ask(c)
      PROVE  Results'
  BY <1>4, ResultsMoves DEF Ask, Over, Stages, GoesOn
<1>5. ASSUME TypeOK, Results, NEW c \in Call, StreamEnds(c)
      PROVE  Results'
  BY <1>5, ResultsMoves DEF StreamEnds, Over, Stages, GoesOn
<1>6. ASSUME TypeOK, Results, NEW c \in Call, Push(c)
      PROVE  Results'
  BY <1>6, ResultsMoves DEF Push, Over, Stages, GoesOn
<1>7. ASSUME TypeOK, Results, NEW c \in Call, Decide(c)
      PROVE  Results'
  <2>1. CASE Caught(c, FALSE)
    BY <1>7, <2>1, ResultsCaught DEF Decide, Over
  <2>2. CASE GoesOn /\ \E n : Goto(c, IF n = 0 THEN "wrapping" ELSE "preparing")
    <3>1. GoesOn /\ (Goto(c, "wrapping") \/ Goto(c, "preparing"))
      BY <2>2 DEF Goto
    <3> QED
      BY <1>7, <3>1, ResultsMoves DEF Decide, Over, Stages, GoesOn
  <2> QED
    BY <1>7, <2>1, <2>2 DEF Decide
<1>8. ASSUME TypeOK, Results, NEW c \in Call, Prepared(c)
      PROVE  Results'
  <2>1. CASE Caught(c, FALSE)
    BY <1>8, <2>1, ResultsCaught DEF Prepared, Over
  <2>2. CASE Goto(c, "executing") /\ GoesOn
    BY <1>8, <2>2, ResultsMoves DEF Prepared, Over, Stages, GoesOn
  <2> QED
    BY <1>8, <2>1, <2>2 DEF Prepared
<1>9. ASSUME TypeOK, Results, NEW c \in Call, RecordNext(c)
      PROVE  Results'
  <2>1. CASE Goto(c, "wrapping")
    BY <1>9, <2>1, ResultsMoves DEF RecordNext, Over, Stages, GoesOn
  <2>2. CASE UNCHANGED pc
    BY <1>9, <2>2, ResultsKept DEF RecordNext, GoesOn
  <2> QED
    BY <1>9, <2>1, <2>2 DEF RecordNext
<1>10. ASSUME TypeOK, Results, NEW c \in Call, Wrap(c)
      PROVE  Results'
  <2>1. CASE FinishRun(c)
    BY <1>10, <2>1, ResultsEnd DEF Wrap, FinishRun, Over
  <2>2. CASE LoopTop(c)
    BY <1>10, <2>2, ResultsLoopTop DEF Wrap, Over
  <2> QED
    BY <1>10, <2>1, <2>2 DEF Wrap
<1>11. ASSUME TypeOK, Results, NEW c \in Call, Interrupted(c)
      PROVE  Results'
  BY <1>11, ResultsCaught DEF Interrupted, Over
<1>12. ASSUME TypeOK, Results, NEW c \in Call, EmitEnd(c)
      PROVE  Results'
  BY <1>12 DEF EmitEnd, TypeOK, Results, Goto, Over
<1>13. ASSUME TypeOK, Results, NEW c \in Call, ReturnResult(c)
      PROVE  Results'
  BY <1>13 DEF ReturnResult, Return, TypeOK, Results, Goto, Over, history
<1>14. ASSUME TypeOK, Results, NEW c \in Call, EndingThrows(c)
      PROVE  Results'
  <2>1. /\ pc[c] \in {"ending", "emitted"} /\ threw' = threw \cup {c}
        /\ \A d \in Call \ {c} : ended'[d] = ended[d]
    BY <1>14 DEF EndingThrows, TypeOK
  <2>2. CASE Caught(c, FALSE)
    <3>1. PICK outcome \in {"aborted", "failed"} :
            pc' = [pc EXCEPT ![c] = "ending"] /\ result' = [result EXCEPT ![c] = outcome]
      BY <2>2, CaughtSteps
    <3> QED
      BY <1>14, <2>1, <3>1 DEF TypeOK, Results, Over
  <2>3. CASE Return(c) /\ result' = [result EXCEPT ![c] = "rejected"]
    BY <1>14, <2>1, <2>3 DEF Return, Goto, TypeOK, Results, Over
  <2> QED
    BY <1>14, <2>2, <2>3 DEF EndingThrows
<1>15. ASSUME TypeOK, Results, NEW c \in Call, NEW i \in Tool, Try(c, i)
      PROVE  Results'
  <2>1. CASE ToolRejects(c, i, FALSE)
    BY <1>15, <2>1, ResultsRejects DEF Try
  <2>2. CASE GoesOn /\ UNCHANGED pc
    BY <1>15, <2>2, ResultsKept DEF Try, GoesOn
  <2> QED
    BY <1>15, <2>1, <2>2 DEF Try
<1>16. ASSUME TypeOK, Results, NEW c \in Call, NEW i \in Tool, ToolEnds(c, i)
      PROVE  Results'
  <2>1. CASE ToolRejects(c, i, FALSE)
    BY <1>16, <2>1, ResultsRejects DEF ToolEnds
  <2>2. CASE GoesOn /\ UNCHANGED pc
    BY <1>16, <2>2, ResultsKept DEF ToolEnds, GoesOn
  <2> QED
    BY <1>16, <2>1, <2>2 DEF ToolEnds
<1>17. ASSUME TypeOK, Results, NEW c \in Call, NEW i \in Tool, Report(c, i)
      PROVE  Results'
  <2>1. CASE pc[c] = "executing" /\ Goto(c, "recording") /\ GoesOn
    BY <1>17, <2>1, ResultsMoves DEF Report, Over, Stages, GoesOn
  <2>2. CASE pc[c] = "executing" /\ Caught(c, FALSE)
    BY <1>17, <2>2, ResultsCaught DEF Report, Over
  <2>3. CASE GoesOn /\ UNCHANGED pc
    BY <1>17, <2>3, ResultsKept DEF Report, GoesOn
  <2> QED
    BY <1>17, <2>1, <2>2, <2>3 DEF Report
<1>18. ASSUME TypeOK, Results, NEW c \in Call, NEW i \in Tool, ToolHookThrows(c, i)
      PROVE  Results'
  BY <1>18, ResultsRejects DEF ToolHookThrows
<1>19. ASSUME TypeOK, Results, Abort PROVE Results'
  BY <1>19, ResultsKept DEF Abort
<1>20. ASSUME TypeOK, Results, Restore PROVE Results'
  BY <1>20, ResultsKept DEF Restore
<1>21. ASSUME TypeOK, Results, UNCHANGED vars PROVE Results'
  BY <1>21, ResultsKept DEF vars
<1> QED
  BY <1>1, <1>2, <1>3, <1>4, <1>5, <1>6, <1>7, <1>8, <1>9, <1>10, <1>11, <1>12, <1>13,
     <1>14, <1>15, <1>16, <1>17, <1>18, <1>19, <1>20, <1>21 DEF Next, Step, ToolStep

-----------------------------------------------------------------------------
\* A step of call c leaves the locals of the others alone.
OthersKept(c) ==
  \A d \in Call \ {c} :
    /\ pc'[d] = pc[d] /\ reply'[d] = reply[d] /\ tool'[d] = tool[d]
    /\ result'[d] = result[d]
    /\ \A i \in Tool : <<d, i>> \in unanswered' => <<d, i>> \in unanswered

LEMMA OthersStep ==
  ASSUME TypeOK, NEW c \in Call, Execute(c) \/ Step(c) \/ \E i \in Tool : ToolStep(c, i)
  PROVE  OthersKept(c) /\ UNCHANGED parallel
<1>1. \A stopped : Caught(c, stopped) =>
        \A d \in Call \ {c} : pc'[d] = pc[d] /\ result'[d] = result[d]
  BY CaughtSteps DEF TypeOK
<1>2. Forget(c) => \A d \in Call \ {c} : reply'[d] = reply[d] /\ tool'[d] = tool[d]
  BY DEF Forget, TypeOK
<1>3. \A stage : Goto(c, stage) => \A d \in Call \ {c} : pc'[d] = pc[d]
  BY DEF Goto, TypeOK
<1>4. LoopTop(c) => \A d \in Call \ {c} : pc'[d] = pc[d] /\ result'[d] = result[d]
  BY <1>1, <1>3 DEF LoopTop, GoesOn
<1>5. \A i \in Tool : \A stage : MoveTool(c, i, stage) =>
        \A d \in Call \ {c} : tool'[d] = tool[d]
  BY DEF MoveTool, TypeOK
<1>6. \A i \in Tool : \A again : StartTool(c, i, again) =>
        \A d \in Call \ {c} : tool'[d] = tool[d]
  BY DEF StartTool, TypeOK
<1>7. \A i \in Tool : \A stopped : ToolRejects(c, i, stopped) =>
        \A d \in Call \ {c} : pc'[d] = pc[d] /\ result'[d] = result[d] /\ tool'[d] = tool[d]
  BY <1>1, <1>5 DEF ToolRejects, GoesOn
<1>8. CASE Execute(c) \/ Begin(c)
  BY <1>8, <1>3 DEF Execute, Begin, OthersKept, config, TypeOK
<1>9. CASE Started(c)
  BY <1>9, <1>4 DEF Started, OthersKept, config
<1>10. CASE Ask(c)
  BY <1>10, <1>3 DEF Ask, OthersKept, config, GoesOn
<1>11. CASE StreamEnds(c)
  BY <1>11, <1>3 DEF StreamEnds, OthersKept, config, GoesOn, TypeOK
<1>12. CASE Push(c)
  BY <1>12, <1>3 DEF Push, OthersKept, config, GoesOn
<1>13. CASE Decide(c)
  <2>1. UNCHANGED parallel /\ UNCHANGED tool
    BY <1>13 DEF Decide, config
  <2>2. CASE Caught(c, FALSE) /\ UNCHANGED <<reply, unanswered>>
    BY <2>1, <2>2, <1>1 DEF OthersKept
  <2>3. CASE GoesOn /\ \E n :
               /\ reply' = [reply EXCEPT ![c] = [NoReply EXCEPT !.calls = n]]
               /\ unanswered' = IF Called(c) = {} THEN unanswered \cup ({c} \X (1..n))
                                ELSE unanswered
               /\ Goto(c, IF n = 0 THEN "wrapping" ELSE "preparing")
    BY <2>1, <2>3, <1>3 DEF OthersKept, GoesOn, TypeOK
  <2> QED
    BY <1>13, <2>2, <2>3 DEF Decide
<1>14. CASE Prepared(c)
  BY <1>14, <1>1, <1>3 DEF Prepared, Announce, OthersKept, config, GoesOn, TypeOK
<1>15. CASE RecordNext(c)
  BY <1>15, <1>2, <1>3, <1>5, CalledTools DEF RecordNext, OthersKept, config, GoesOn, TypeOK
<1>16. CASE Wrap(c)
  BY <1>16, <1>3, <1>4 DEF Wrap, FinishRun, OthersKept, config, TypeOK
<1>17. CASE Interrupted(c)
  BY <1>17, <1>1 DEF Interrupted, OthersKept, config
<1>18. CASE EmitEnd(c) \/ ReturnResult(c)
  BY <1>18, <1>2, <1>3 DEF EmitEnd, ReturnResult, Return, OthersKept, config
<1>19. CASE EndingThrows(c)
  BY <1>19, <1>1, <1>2, <1>3 DEF EndingThrows, Return, OthersKept, config, TypeOK
<1>20. ASSUME NEW i \in Tool, Try(c, i)
       PROVE  OthersKept(c) /\ UNCHANGED parallel
  BY <1>20, <1>5, <1>6, <1>7 DEF Try, GoesOn, OthersKept, config
<1>21. ASSUME NEW i \in Tool, ToolEnds(c, i)
       PROVE  OthersKept(c) /\ UNCHANGED parallel
  BY <1>21, <1>5, <1>6, <1>7 DEF ToolEnds, GoesOn, OthersKept, config
<1>22. ASSUME NEW i \in Tool, Report(c, i)
       PROVE  OthersKept(c) /\ UNCHANGED parallel
  BY <1>22, <1>1, <1>3, <1>5 DEF Report, Record, GoesOn, OthersKept, config, TypeOK
<1>23. ASSUME NEW i \in Tool, ToolHookThrows(c, i)
       PROVE  OthersKept(c) /\ UNCHANGED parallel
  BY <1>23, <1>7 DEF ToolHookThrows, OthersKept, config
<1> QED
  BY <1>8, <1>9, <1>10, <1>11, <1>12, <1>13, <1>14, <1>15, <1>16, <1>17, <1>18, <1>19,
     <1>20, <1>21, <1>22, <1>23 DEF Step, ToolStep

\* Where the statements that write tools leave each of them.
LEMMA WhereTools ==
  ASSUME TypeOK, NEW c \in Call
  PROVE  /\ \A i \in Tool : \A stage : MoveTool(c, i, stage) =>
              \A j \in Tool : tool'[c][j].at = IF j = i THEN stage ELSE tool[c][j].at
         /\ \A i \in Tool : \A again : StartTool(c, i, again) =>
              \A j \in Tool : tool'[c][j].at = IF j = i THEN "executing" ELSE tool[c][j].at
         /\ \A S : Announce(c, S) =>
              \A j \in Tool : tool'[c][j].at =
                IF j \in S THEN "announced"
                ELSE IF j \in Called(c) /\ tool[c][j].at = "none" THEN "prepared"
                ELSE tool[c][j].at
         /\ \A i : Record(c, i) =>
              \A j \in Tool : tool'[c][j].at =
                IF j = i THEN "recorded" ELSE IF j \in Called(c) THEN "done"
                ELSE tool[c][j].at
         /\ Forget(c) =>
              \A j \in Tool : tool'[c][j].at =
                IF tool[c][j].at \in Active THEN tool[c][j].at ELSE "none"
<1>1. tool \in [Call -> [Tool -> [at : ToolStages, retried : BOOLEAN]]]
  BY DEF TypeOK, Tools
<1>2. \A i \in Tool : \A stage : MoveTool(c, i, stage) =>
        \A j \in Tool : tool'[c][j].at = IF j = i THEN stage ELSE tool[c][j].at
  BY <1>1 DEF MoveTool
<1>3. \A i \in Tool : \A again : StartTool(c, i, again) =>
        \A j \in Tool : tool'[c][j].at = IF j = i THEN "executing" ELSE tool[c][j].at
  BY <1>1 DEF StartTool
<1>4. \A S : Announce(c, S) =>
        \A j \in Tool : tool'[c][j].at =
          IF j \in S THEN "announced"
          ELSE IF j \in Called(c) /\ tool[c][j].at = "none" THEN "prepared"
          ELSE tool[c][j].at
  BY <1>1 DEF Announce
<1>5. \A i : Record(c, i) =>
        \A j \in Tool : tool'[c][j].at =
          IF j = i THEN "recorded" ELSE IF j \in Called(c) THEN "done" ELSE tool[c][j].at
  BY <1>1 DEF Record
<1>6. Forget(c) =>
        \A j \in Tool : tool'[c][j].at =
          IF tool[c][j].at \in Active THEN tool[c][j].at ELSE "none"
  BY <1>1 DEF Forget, NoTools, Active
<1> QED
  BY <1>2, <1>3, <1>4, <1>5, <1>6

\* Outside the executing and the ending of a run no tool of it is under way.
LEMMA NoneActive ==
  ASSUME ToolsHeld, NEW c \in Call, pc[c] \notin {"executing"} \cup Over
  PROVE  \A i \in Tool : tool[c][i].at \notin Active
  BY DEF ToolsHeld, ToolsHeldBy

\* A call that neither holds tools nor waits for any.
LEMMA HeldIdle ==
  ASSUME NEW c \in Call, pc'[c] \notin {"preparing", "executing"},
         \A i \in Tool : tool'[c][i].at \notin Active
  PROVE  ToolsHeldBy(c)'
  BY DEF ToolsHeldBy

\* A run that ends lets its tools go on only if they run side by side.
LEMMA HeldOver ==
  ASSUME ToolsHeld, NEW c \in Call, pc'[c] \in Over, UNCHANGED parallel,
         parallel \/ pc[c] \notin {"executing"} \/ \A i \in Tool : tool'[c][i].at \notin Active,
         \A i \in Tool : tool'[c][i].at \in Active => tool[c][i].at \in Active
  PROVE  ToolsHeldBy(c)'
  BY DEF ToolsHeld, ToolsHeldBy, Over

\* The run of a call is caught, or goes on to ask the model: its tools stay.
LEMMA HeldCaught ==
  ASSUME TypeOK, ToolsHeld, NEW c \in Call, pc[c] # "executing", UNCHANGED parallel,
         UNCHANGED tool, (\E stopped : Caught(c, stopped))
  PROVE  ToolsHeldBy(c)'
<1>1. pc'[c] = "ending"
  BY CaughtSteps DEF TypeOK
<1> QED
  BY <1>1, HeldOver DEF Over

LEMMA HeldLoopTop ==
  ASSUME TypeOK, ToolsHeld, NEW c \in Call, pc[c] \notin {"executing"} \cup Over,
         UNCHANGED parallel, UNCHANGED tool, LoopTop(c)
  PROVE  ToolsHeldBy(c)'
<1>1. iteration \in Nat
  BY DEF TypeOK
<1>2. CASE \E stopped : Caught(c, stopped)
  BY <1>2, HeldCaught
<1>3. CASE pc' = [pc EXCEPT ![c] = "asking"]
  <2>1. pc'[c] = "asking"
    BY <1>3 DEF TypeOK
  <2> QED
    BY <2>1, NoneActive, HeldIdle
<1> QED
  BY <1>1, <1>2, <1>3, LoopTopSteps

\* A tool that throws is dropped; the run it belongs to, if it waits for it, ends.
LEMMA HeldRejects ==
  ASSUME TypeOK, ToolsHeld, NEW c \in Call, NEW i \in Tool, tool[c][i].at \in Active,
         NEW stopped, ToolRejects(c, i, stopped), UNCHANGED parallel, UNCHANGED reply
  PROVE  ToolsHeldBy(c)'
<1>1. \A j \in Tool : tool'[c][j].at = IF j = i THEN "dropped" ELSE tool[c][j].at
  BY WhereTools DEF ToolRejects
<1>2. \A j \in Tool : tool'[c][j].at \in Active => j # i /\ tool[c][j].at \in Active
  BY <1>1 DEF Active
<1>3. CASE pc[c] = "executing"
  <2>1. pc'[c] = "ending"
    BY <1>3, CaughtSteps DEF ToolRejects, TypeOK
  <2>2. parallel \/ \A j \in Tool : tool'[c][j].at \notin Active
    BY <1>2 DEF ToolsHeld, ToolsHeldBy
  <2> QED
    BY <1>2, <2>1, <2>2, HeldOver DEF Over
<1>4. CASE pc[c] # "executing"
  <2>1. pc'[c] = pc[c] /\ pc[c] \in Over
    BY <1>4 DEF ToolRejects, ToolsHeld, ToolsHeldBy
  <2> QED
    BY <1>2, <1>4, <2>1, HeldOver
<1> QED
  BY <1>3, <1>4

\* A tool that goes from one of its stages to the next.
LEMMA HeldMoves ==
  ASSUME TypeOK, ToolsHeld, NEW c \in Call, NEW i \in Tool, tool[c][i].at \in Active,
         NEW stage, \A j \in Tool : tool'[c][j].at = IF j = i THEN stage ELSE tool[c][j].at,
         UNCHANGED pc, UNCHANGED parallel, UNCHANGED reply
  PROVE  ToolsHeldBy(c)'
<1>1. Called(c)' = Called(c)
  BY DEF Called
<1>2. \A j \in Tool : tool'[c][j].at \in Active => tool[c][j].at \in Active
  OBVIOUS
<1> QED
  BY <1>1, <1>2 DEF ToolsHeld, ToolsHeldBy

LEMMA HeldMovesOn ==
  ASSUME TypeOK, ToolsHeld, NEW c \in Call, NEW i \in Tool, tool[c][i].at \in Active,
         MoveTool(c, i, "reporting") \/ \E again : StartTool(c, i, again),
         UNCHANGED pc, UNCHANGED parallel, UNCHANGED reply
  PROVE  ToolsHeldBy(c)'
<1>1. CASE MoveTool(c, i, "reporting")
  BY <1>1, WhereTools, HeldMoves
<1>2. CASE \E again : StartTool(c, i, again)
  <2>1. \A j \in Tool : tool'[c][j].at = IF j = i THEN "executing" ELSE tool[c][j].at
    BY <1>2, WhereTools
  <2> QED
    BY <2>1, HeldMoves
<1> QED
  BY <1>1, <1>2

LEMMA HeldStep ==
  ASSUME TypeOK, ToolsHeld, NEW c \in Call, UNCHANGED parallel,
         Execute(c) \/ Step(c) \/ \E i \in Tool : ToolStep(c, i)
  PROVE  ToolsHeldBy(c)'
<1> USE DEF GoesOn
<1>0. /\ \A stage : Goto(c, stage) => pc'[c] = stage
      /\ \A i \in Tool : tool[c][i].at \in ToolStages
  BY DEF Goto, TypeOK, Tools
<1>1. CASE Execute(c)
  BY <1>0, <1>1, NoneActive, HeldIdle DEF Execute, Over
<1>2. CASE Begin(c)
  <2>1. pc'[c] \in {"returned", "starting"} /\ UNCHANGED tool /\ pc[c] = "init"
    BY <1>0, <1>2 DEF Begin
  <2> QED
    BY <2>1, NoneActive, HeldIdle DEF Over
<1>3. CASE Started(c)
  BY <1>3, HeldLoopTop DEF Started, Over
<1>4. CASE Ask(c)
  BY <1>0, <1>4, NoneActive, HeldIdle DEF Ask, Over
<1>5. CASE StreamEnds(c)
  BY <1>0, <1>5, NoneActive, HeldIdle DEF StreamEnds, Over
<1>6. CASE Push(c)
  BY <1>0, <1>6, NoneActive, HeldIdle DEF Push, Over
<1>7. CASE Decide(c)
  <2>1. CASE Caught(c, FALSE)
    BY <1>7, <2>1, HeldCaught DEF Decide
  <2>2. CASE \E n \in 0..MaxTools :
               /\ reply' = [reply EXCEPT ![c] = [NoReply EXCEPT !.calls = n]]
               /\ Goto(c, IF n = 0 THEN "wrapping" ELSE "preparing")
    <3>1. PICK n \in 0..MaxTools :
               /\ reply' = [reply EXCEPT ![c] = [NoReply EXCEPT !.calls = n]]
               /\ Goto(c, IF n = 0 THEN "wrapping" ELSE "preparing")
      BY <2>2
    <3>2. reply'[c].calls = n
      BY <3>1 DEF TypeOK, NoReply
    <3>3. pc'[c] = IF n = 0 THEN "wrapping" ELSE "preparing"
      BY <1>0, <3>1
    <3>4. \A i \in Tool : tool'[c][i].at \notin Active
      BY <1>7, NoneActive DEF Decide, Over
    <3> QED
      BY <3>2, <3>3, <3>4 DEF ToolsHeldBy
  <2>3. reply[c].calls \in 0..MaxTools
    BY DEF TypeOK, Replies
  <2> QED
    BY <1>7, <2>1, <2>2, <2>3 DEF Decide
<1>8. CASE Prepared(c)
  <2>1. pc[c] = "preparing" /\ UNCHANGED reply
    BY <1>8 DEF Prepared
  <2>2. (\A i \in Tool : tool[c][i].at \notin Active) /\ reply[c].calls # 0
    BY <2>1, NoneActive DEF ToolsHeld, ToolsHeldBy, Over
  <2>3. CASE Caught(c, FALSE) /\ UNCHANGED tool
    BY <2>1, <2>3, HeldCaught
  <2>4. ASSUME Goto(c, "executing"), NEW S, Announce(c, S), S \subseteq Called(c),
               parallel \/ S = {1}
        PROVE  ToolsHeldBy(c)'
    <3>1. \A j \in Tool : tool'[c][j].at \in Active => j \in S
      BY <2>2, <2>4, WhereTools DEF Active
    <3>2. pc'[c] = "executing" /\ Called(c)' = Called(c)
      BY <1>0, <2>1, <2>4 DEF Called
    <3> QED
      BY <2>1, <2>2, <2>4, <3>1, <3>2 DEF ToolsHeldBy
  <2>5. reply[c].calls \in Nat
    BY AgentLoopAssumption DEF TypeOK, Replies
  <2>6. {1} \subseteq Called(c)
    BY <2>2, <2>5 DEF Called
  <2> QED
    BY <1>8, <2>3, <2>4, <2>6 DEF Prepared
<1>9. CASE RecordNext(c)
  <2>1. pc[c] = "recording" /\ (\A i \in Tool : tool[c][i].at \notin Active)
    BY <1>9, NoneActive DEF RecordNext, Over
  <2>2. CASE Goto(c, "wrapping") /\ Forget(c)
    <3>1. \A i \in Tool : tool'[c][i].at \notin Active
      BY <2>1, <2>2, WhereTools DEF Active
    <3> QED
      BY <1>0, <2>2, <3>1, HeldIdle
  <2>3. CASE \E i \in Called(c) : MoveTool(c, i, "recorded") /\ UNCHANGED <<pc, reply>>
    <3>1. Called(c) \subseteq Tool
      BY CalledTools DEF TypeOK
    <3>2. \A i \in Tool : tool'[c][i].at \notin Active
      BY <2>1, <2>3, <3>1, WhereTools DEF Active
    <3> QED
      BY <2>1, <2>3, <3>2, HeldIdle
  <2> QED
    BY <1>9, <2>2, <2>3 DEF RecordNext
<1>10. CASE Wrap(c)
  <2>1. CASE FinishRun(c)
    BY <1>0, <1>10, <2>1, NoneActive, HeldIdle DEF Wrap, FinishRun, Over
  <2>2. CASE LoopTop(c)
    BY <1>10, <2>2, HeldLoopTop DEF Wrap, Over
  <2> QED
    BY <1>10, <2>1, <2>2 DEF Wrap
<1>11. CASE Interrupted(c)
  BY <1>11, HeldCaught DEF Interrupted
<1>12. CASE EmitEnd(c)
  BY <1>0, <1>12, HeldOver DEF EmitEnd, Over
<1>13. CASE ReturnResult(c)
  <2>1. \A i \in Tool : tool'[c][i].at \in Active => tool[c][i].at \in Active
    BY <1>13, WhereTools DEF ReturnResult, Active
  <2> QED
    BY <1>0, <1>13, <2>1, HeldOver DEF ReturnResult, Return, Over
<1>14. CASE EndingThrows(c)
  <2>1. CASE Caught(c, FALSE) /\ UNCHANGED tool
    BY <1>14, <2>1, HeldCaught DEF EndingThrows
  <2>2. CASE Return(c) /\ Forget(c)
    <3>1. \A i \in Tool : tool'[c][i].at \in Active => tool[c][i].at \in Active
      BY <2>2, WhereTools DEF Active
    <3> QED
      BY <1>0, <1>14, <2>2, <3>1, HeldOver DEF EndingThrows, Return, Over
  <2> QED
    BY <1>14, <2>1, <2>2 DEF EndingThrows
<1>15. ASSUME NEW i \in Tool, Try(c, i)
       PROVE  ToolsHeldBy(c)'
  <2>1. tool[c][i].at \in Active /\ UNCHANGED reply
    BY <1>15 DEF Try, At, Active
  <2>2. CASE ToolRejects(c, i, FALSE)
    BY <2>1, <2>2, HeldRejects
  <2>3. CASE UNCHANGED pc /\ (MoveTool(c, i, "reporting") \/ \E again : StartTool(c, i, again))
    BY <2>1, <2>3, HeldMovesOn
  <2> QED
    BY <1>15, <2>2, <2>3 DEF Try
<1>16. ASSUME NEW i \in Tool, ToolEnds(c, i)
       PROVE  ToolsHeldBy(c)'
  <2>1. tool[c][i].at \in Active /\ UNCHANGED reply
    BY <1>16 DEF ToolEnds, At, Active
  <2>2. CASE ToolRejects(c, i, FALSE)
    BY <2>1, <2>2, HeldRejects
  <2>3. CASE UNCHANGED pc /\ (MoveTool(c, i, "reporting") \/ \E again : StartTool(c, i, again))
    BY <2>1, <2>3, HeldMovesOn
  <2> QED
    BY <1>16, <2>2, <2>3 DEF ToolEnds
<1>17. ASSUME NEW i \in Tool, Report(c, i)
       PROVE  ToolsHeldBy(c)'
  <2>1. tool[c][i].at \in Active /\ UNCHANGED reply
    BY <1>17 DEF Report, At, Active
  <2>2. CASE /\ pc[c] = "executing" /\ \A j \in Called(c) \ {i} : At(c, j, "done")
             /\ Record(c, 1) /\ Goto(c, "recording")
    <3>1. \A j \in Tool : tool[c][j].at \in Active => j \in Called(c)
      BY <2>2 DEF ToolsHeld, ToolsHeldBy, Over
    <3>2. \A j \in Tool : tool'[c][j].at \notin Active
      BY <2>2, <3>1, WhereTools DEF Active
    <3> QED
      BY <1>0, <2>2, <3>2, HeldIdle
  <2>3. CASE ~parallel /\ Caught(c, FALSE) /\ MoveTool(c, i, "done")
    <3>1. \A j \in Tool : tool'[c][j].at \notin Active
      BY <2>1, <2>3, WhereTools DEF Active, ToolsHeld, ToolsHeldBy
    <3>2. pc'[c] = "ending"
      BY <2>3, CaughtSteps DEF TypeOK
    <3> QED
      BY <3>1, <3>2, HeldIdle
  <2>4. CASE /\ pc[c] = "executing" /\ ~parallel /\ i + 1 \in Called(c) /\ UNCHANGED pc
             /\ tool' = [tool EXCEPT ![c][i] = [at |-> "done", retried |-> FALSE],
                                     ![c][i + 1] = [at |-> "announced", retried |-> FALSE]]
    <3>1. i + 1 \in Tool /\ Called(c)' = Called(c)
      BY <2>1, <2>4, CalledTools DEF TypeOK, Called
    <3>2. \A j \in Tool : tool'[c][j].at = IF j = i + 1 THEN "announced"
                                           ELSE IF j = i THEN "done" ELSE tool[c][j].at
      BY <2>4, <3>1 DEF TypeOK, Tools
    <3>3. \A j \in Tool : tool[c][j].at \in Active => j = i
      BY <2>1, <2>4 DEF ToolsHeld, ToolsHeldBy
    <3>4. \A j \in Tool : tool'[c][j].at \in Active => j = i + 1
      BY <3>2, <3>3 DEF Active
    <3>5. reply'[c].calls # 0
      BY <2>1, <2>4 DEF ToolsHeld, ToolsHeldBy
    <3> QED
      BY <2>4, <3>1, <3>4, <3>5 DEF ToolsHeldBy
  <2>5. CASE UNCHANGED pc /\ MoveTool(c, i, "done")
    BY <2>1, <2>5, WhereTools, HeldMoves
  <2> QED
    BY <1>17, <2>2, <2>3, <2>4, <2>5 DEF Report
<1>18. ASSUME NEW i \in Tool, ToolHookThrows(c, i)
       PROVE  ToolsHeldBy(c)'
  BY <1>18, HeldRejects DEF ToolHookThrows, At, Active
<1> QED
  BY <1>1, <1>2, <1>3, <1>4, <1>5, <1>6, <1>7, <1>8, <1>9, <1>10, <1>11, <1>12, <1>13,
     <1>14, <1>15, <1>16, <1>17, <1>18 DEF Step, ToolStep

-----------------------------------------------------------------------------
\* A run that is caught may leave calls behind; it did not complete.
LEMMA PairsCaught ==
  ASSUME TypeOK, NEW c \in Call, \E stopped : Caught(c, stopped)
  PROVE  PairsOf(c)'
<1>1. pc'[c] = "ending" /\ result'[c] # "completed"
  BY CaughtSteps DEF TypeOK
<1> QED
  BY <1>1 DEF PairsOf, Over

\* Where a call has no unanswered tool call, none appears by itself.
LEMMA PairsNone ==
  ASSUME Pairs, NEW c \in Call, pc[c] \in {"none", "init", "starting", "asking",
           "streaming", "received", "wrapping"}, UNCHANGED unanswered
  PROVE  PairsOf(c)' /\ \A i \in Tool : <<c, i>> \notin unanswered
  BY DEF Pairs, PairsOf, Over

\* A step in which the call and its results stand still.
LEMMA PairsKept ==
  ASSUME Pairs, NEW c \in Call, UNCHANGED unanswered, UNCHANGED pc, UNCHANGED reply,
         UNCHANGED result,
         \A j \in Tool : pc[c] = "recording" /\ tool[c][j].at = "done" => tool'[c][j].at = "done"
  PROVE  PairsOf(c)'
<1>1. Called(c)' = Called(c)
  BY DEF Called
<1> QED
  BY <1>1 DEF Pairs, PairsOf, Over

LEMMA PairsRejects ==
  ASSUME TypeOK, ToolsHeld, Pairs, NEW c \in Call, NEW i \in Tool, tool[c][i].at \in Active,
         NEW stopped, ToolRejects(c, i, stopped), UNCHANGED unanswered, UNCHANGED reply
  PROVE  PairsOf(c)'
<1>1. CASE pc[c] = "executing"
  BY <1>1, PairsCaught DEF ToolRejects
<1>2. CASE pc[c] # "executing"
  <2>1. pc[c] # "recording"
    BY <1>2 DEF ToolsHeld, ToolsHeldBy, Over
  <2> QED
    BY <1>2, <2>1, PairsKept DEF ToolRejects, GoesOn
<1> QED
  BY <1>1, <1>2

LEMMA PairsStep ==
  ASSUME TypeOK, ToolsHeld, Results, Pairs, NEW c \in Call,
         Execute(c) \/ Step(c) \/ \E i \in Tool : ToolStep(c, i)
  PROVE  PairsOf(c)'
<1> USE DEF GoesOn
<1>0. \A stage : Goto(c, stage) => pc'[c] = stage
  BY DEF Goto, TypeOK
<1>1. CASE Execute(c)
  BY <1>1, PairsNone DEF Execute
<1>2. CASE Begin(c)
  BY <1>2, PairsNone DEF Begin
<1>3. CASE Started(c)
  BY <1>3, PairsNone DEF Started
<1>4. CASE Ask(c)
  BY <1>4, PairsNone DEF Ask
<1>5. CASE StreamEnds(c)
  BY <1>5, PairsNone DEF StreamEnds
<1>6. CASE Push(c)
  <2>1. /\ pc[c] = "received" /\ pc'[c] = "pushed" /\ Called(c)' = Called(c)
        /\ unanswered' = unanswered \cup ({c} \X Called(c))
    BY <1>0, <1>6 DEF Push, Called
  <2>2. \A i \in Tool : <<c, i>> \notin unanswered
    BY <2>1 DEF Pairs, PairsOf, Over
  <2> QED
    BY <2>1, <2>2 DEF PairsOf
<1>7. CASE Decide(c)
  <2>1. CASE Caught(c, FALSE)
    BY <2>1, PairsCaught
  <2>2. CASE \E n \in IF Called(c) = {} THEN 0..MaxTools ELSE {reply[c].calls} :
             /\ reply' = [reply EXCEPT ![c] = [NoReply EXCEPT !.calls = n]]
             /\ unanswered' = IF Called(c) = {} THEN unanswered \cup ({c} \X (1..n))
                              ELSE unanswered
             /\ Goto(c, IF n = 0 THEN "wrapping" ELSE "preparing")
    <3>1. PICK n \in IF Called(c) = {} THEN 0..MaxTools ELSE {reply[c].calls} :
             /\ reply' = [reply EXCEPT ![c] = [NoReply EXCEPT !.calls = n]]
             /\ unanswered' = IF Called(c) = {} THEN unanswered \cup ({c} \X (1..n))
                              ELSE unanswered
             /\ Goto(c, IF n = 0 THEN "wrapping" ELSE "preparing")
      BY <2>2
    <3>2. Called(c)' = 1..n
      BY <3>1 DEF TypeOK, NoReply, Called
    <3>3. \A i \in Tool : <<c, i>> \in unanswered => i \in Called(c)
      BY <1>7 DEF Decide, Pairs, PairsOf, Over
    <3>4. \A i \in Tool : <<c, i>> \in unanswered' => i \in 1..n
      <4>1. CASE Called(c) = {}
        BY <3>1, <3>3, <4>1
      <4>2. CASE Called(c) # {}
        BY <3>1, <3>3, <4>2 DEF Called
      <4> QED
        BY <4>1, <4>2
    <3>5. pc'[c] = IF n = 0 THEN "wrapping" ELSE "preparing"
      BY <1>0, <3>1
    <3> QED
      BY <3>2, <3>4, <3>5 DEF PairsOf
  <2> QED
    BY <1>7, <2>1, <2>2 DEF Decide
<1>8. CASE Prepared(c)
  <2>1. CASE Caught(c, FALSE)
    BY <2>1, PairsCaught
  <2>2. CASE Goto(c, "executing")
    <3>1. pc[c] = "preparing" /\ pc'[c] = "executing" /\ Called(c)' = Called(c)
      BY <1>0, <1>8, <2>2 DEF Prepared, Called
    <3> QED
      BY <1>8, <3>1 DEF Prepared, Pairs, PairsOf, Over
  <2> QED
    BY <1>8, <2>1, <2>2 DEF Prepared
<1>9. CASE RecordNext(c)
  <2>1. pc[c] = "recording"
    BY <1>9 DEF RecordNext
  <2>2. \A i \in Tool : <<c, i>> \in unanswered => i \in Called(c) /\ tool[c][i].at = "done"
    BY <2>1 DEF Pairs, PairsOf, Over
  <2>3. CASE (\A i \in Called(c) : At(c, i, "recorded")) /\ UNCHANGED unanswered
    BY <2>2, <2>3 DEF PairsOf, At
  <2>4. CASE \E i \in Called(c) :
               /\ MoveTool(c, i, "recorded") /\ unanswered' = unanswered \ {<<c, i>>}
               /\ UNCHANGED <<pc, reply>>
    <3>1. PICK i \in Called(c) :
               /\ MoveTool(c, i, "recorded") /\ unanswered' = unanswered \ {<<c, i>>}
               /\ UNCHANGED <<pc, reply>>
      BY <2>4
    <3>2. i \in Tool
      BY CalledTools DEF TypeOK
    <3>3. \A j \in Tool : tool'[c][j].at = IF j = i THEN "recorded" ELSE tool[c][j].at
      BY <3>1, <3>2, WhereTools
    <3>4. Called(c)' = Called(c)
      BY <3>1 DEF Called
    <3> QED
      BY <2>1, <2>2, <3>1, <3>3, <3>4 DEF PairsOf
  <2> QED
    BY <1>9, <2>3, <2>4 DEF RecordNext
<1>10. CASE Wrap(c)
  BY <1>10, PairsNone DEF Wrap
<1>11. CASE Interrupted(c)
  BY <1>11, PairsCaught DEF Interrupted
<1>12. CASE EmitEnd(c)
  <2>1. pc[c] = "ending" /\ pc'[c] = "emitted" /\ UNCHANGED unanswered /\ UNCHANGED result
    BY <1>0, <1>12 DEF EmitEnd
  <2> QED
    BY <2>1 DEF Pairs, PairsOf, Over
<1>13. CASE ReturnResult(c)
  <2>1. pc[c] = "emitted" /\ pc'[c] = "returned" /\ UNCHANGED unanswered /\ UNCHANGED result
    BY <1>0, <1>13 DEF ReturnResult, Return
  <2> QED
    BY <2>1 DEF Pairs, PairsOf, Over
<1>14. CASE EndingThrows(c)
  <2>1. CASE Caught(c, FALSE)
    BY <2>1, PairsCaught
  <2>2. CASE Return(c) /\ result' = [result EXCEPT ![c] = "rejected"]
    <3>1. pc'[c] = "returned" /\ result'[c] # "completed"
      BY <1>0, <2>2 DEF Return, TypeOK
    <3> QED
      BY <3>1 DEF PairsOf, Over
  <2> QED
    BY <1>14, <2>1, <2>2 DEF EndingThrows
<1>15. ASSUME NEW i \in Tool, Try(c, i)
       PROVE  PairsOf(c)'
  <2>1. tool[c][i].at \in Active /\ UNCHANGED reply /\ UNCHANGED unanswered
    BY <1>15 DEF Try, At, Active
  <2>2. CASE ToolRejects(c, i, FALSE)
    BY <2>1, <2>2, PairsRejects
  <2>3. CASE UNCHANGED <<status, controller, caught, result>> /\ UNCHANGED pc
    <3>1. pc[c] # "recording"
      BY <2>1 DEF ToolsHeld, ToolsHeldBy, Over
    <3> QED
      BY <2>1, <2>3, <3>1, PairsKept
  <2> QED
    BY <1>15, <2>2, <2>3 DEF Try
<1>16. ASSUME NEW i \in Tool, ToolEnds(c, i)
       PROVE  PairsOf(c)'
  <2>1. tool[c][i].at \in Active /\ UNCHANGED reply /\ UNCHANGED unanswered
    BY <1>16 DEF ToolEnds, At, Active
  <2>2. CASE ToolRejects(c, i, FALSE)
    BY <2>1, <2>2, PairsRejects
  <2>3. CASE UNCHANGED <<status, controller, caught, result>> /\ UNCHANGED pc
    <3>1. pc[c] # "recording"
      BY <2>1 DEF ToolsHeld, ToolsHeldBy, Over
    <3> QED
      BY <2>1, <2>3, <3>1, PairsKept
  <2> QED
    BY <1>16, <2>2, <2>3 DEF ToolEnds
<1>17. ASSUME NEW i \in Tool, Report(c, i)
       PROVE  PairsOf(c)'
  <2>1. tool[c][i].at \in Active /\ UNCHANGED reply
    BY <1>17 DEF Report, At, Active
  <2>2. CASE /\ pc[c] = "executing" /\ \A j \in Called(c) \ {i} : At(c, j, "done")
             /\ Record(c, 1) /\ Goto(c, "recording")
    <3>1. \A j \in Tool : <<c, j>> \in unanswered => j \in Called(c)
      BY <2>2 DEF Pairs, PairsOf, Over
    <3>2. \A j \in Tool : j \in Called(c) /\ j # 1 => tool'[c][j].at = "done"
      BY <2>2, WhereTools
    <3>3. unanswered' = unanswered \ {<<c, 1>>}
      BY <2>2 DEF Record
    <3>4. pc'[c] = "recording" /\ Called(c)' = Called(c)
      BY <1>0, <2>1, <2>2 DEF Called
    <3> QED
      BY <3>1, <3>2, <3>3, <3>4 DEF PairsOf
  <2>3. CASE Caught(c, FALSE)
    BY <2>3, PairsCaught
  <2>4. CASE /\ UNCHANGED unanswered
             /\ UNCHANGED <<status, controller, caught, result>> /\ UNCHANGED pc
    <3>1. pc[c] # "recording"
      BY <2>1 DEF ToolsHeld, ToolsHeldBy, Over
    <3> QED
      BY <2>1, <2>4, <3>1, PairsKept
  <2> QED
    BY <1>17, <2>2, <2>3, <2>4 DEF Report
<1>18. ASSUME NEW i \in Tool, ToolHookThrows(c, i)
       PROVE  PairsOf(c)'
  BY <1>18, PairsRejects DEF ToolHookThrows, At, Active
<1> QED
  BY <1>1, <1>2, <1>3, <1>4, <1>5, <1>6, <1>7, <1>8, <1>9, <1>10, <1>11, <1>12, <1>13,
     <1>14, <1>15, <1>16, <1>17, <1>18 DEF Step, ToolStep

-----------------------------------------------------------------------------
\* The parts about tools and transcript hold for the call that takes the step, and for
\* the others because it leaves them alone.
LEMMA HeldAndPairsStep ==
  TypeOK /\ Results /\ ToolsHeld /\ Pairs /\ [Next]_vars => ToolsHeld' /\ Pairs'
<1>1. ASSUME TypeOK, Results, ToolsHeld, Pairs, NEW c \in Call,
             Execute(c) \/ Step(c) \/ \E i \in Tool : ToolStep(c, i)
      PROVE  ToolsHeld' /\ Pairs'
  <2>1. OthersKept(c) /\ UNCHANGED parallel
    BY <1>1, OthersStep
  <2>2. ToolsHeldBy(c)' /\ PairsOf(c)'
    BY <1>1, <2>1, HeldStep, PairsStep
  <2>3. ASSUME NEW d \in Call, d # c
        PROVE  ToolsHeldBy(d)' /\ PairsOf(d)'
    <3>1. /\ pc'[d] = pc[d] /\ reply'[d] = reply[d] /\ tool'[d] = tool[d]
          /\ result'[d] = result[d]
          /\ \A i \in Tool : <<d, i>> \in unanswered' => <<d, i>> \in unanswered
      BY <2>1, <2>3 DEF OthersKept
    <3>2. Called(d)' = Called(d)
      BY <3>1 DEF Called
    <3>3. ToolsHeldBy(d)'
      BY <1>1, <2>1, <3>1, <3>2 DEF ToolsHeld, ToolsHeldBy
    <3>4. PairsOf(d)'
      BY <1>1, <3>1, <3>2 DEF Pairs, PairsOf
    <3> QED
      BY <3>3, <3>4
  <2> QED
    BY <2>2, <2>3 DEF ToolsHeld, Pairs
<1>2. ASSUME ToolsHeld, Pairs, Abort \/ Restore \/ UNCHANGED vars
      PROVE  ToolsHeld' /\ Pairs'
  <2>1. /\ UNCHANGED parallel /\ UNCHANGED pc /\ UNCHANGED reply /\ UNCHANGED tool
        /\ UNCHANGED result /\ (unanswered' = unanswered \/ unanswered' = {})
    BY <1>2 DEF Abort, Restore, vars, config
  <2>2. \A d \in Call : Called(d)' = Called(d)
    BY <2>1 DEF Called
  <2>3. ToolsHeld'
    BY <1>2, <2>1, <2>2 DEF ToolsHeld, ToolsHeldBy
  <2>4. Pairs'
    BY <1>2, <2>1, <2>2 DEF Pairs, PairsOf
  <2> QED
    BY <2>3, <2>4
<1> QED
  BY <1>1, <1>2 DEF Next

\* A tool only starts out of one of its own stages, and never against the abort signal.
LEMMA ToolStarts ==
  ASSUME TypeOK, [Next]_vars, NEW c \in Call, NEW i \in Tool,
         tool'[c][i].at = "executing", tool'[c][i] # tool[c][i]
  PROVE  tool[c][i].at \in Active /\ ~Aborted
<1>0. \A d \in Call : Called(d) \subseteq Tool
  BY CalledTools DEF TypeOK
<1>1. \A d \in Call : Execute(d) \/ (\E j \in Tool : ToolStep(d, j)) \/ Step(d) =>
        d = c \/ tool'[c] = tool[c]
  BY OthersStep DEF OthersKept
<1>2. ASSUME Execute(c) \/ Step(c)
      PROVE  tool[c][i].at \in Active /\ ~Aborted
  <2>1. CASE UNCHANGED tool
    BY <2>1
  <2>2. CASE Forget(c)
    BY <2>2 DEF Forget, NoTools, TypeOK, Tools
  <2>3. CASE \E S : Announce(c, S)
    BY <2>3 DEF Announce, TypeOK, Tools
  <2>4. CASE \E j \in Called(c) : MoveTool(c, j, "recorded")
    BY <1>0, <2>4 DEF MoveTool, TypeOK, Tools
  <2>5. \/ UNCHANGED tool \/ Forget(c) \/ \E S : Announce(c, S)
        \/ \E j \in Called(c) : MoveTool(c, j, "recorded")
    BY <1>2 DEF Execute, Step, Begin, Started, Ask, StreamEnds, Push, Decide, Prepared,
         RecordNext, Wrap, Interrupted, EmitEnd, ReturnResult, EndingThrows
  <2> QED
    BY <2>1, <2>2, <2>3, <2>4, <2>5
<1>3. ASSUME NEW j \in Tool, ToolStep(c, j)
      PROVE  tool[c][i].at \in Active /\ ~Aborted
  <2>1. \A stage : MoveTool(c, j, stage) /\ stage # "executing" => tool'[c][i] = tool[c][i]
                     \/ tool'[c][i].at # "executing"
    BY DEF MoveTool, TypeOK, Tools
  <2>2. \A again : StartTool(c, j, again) => i = j
    BY DEF StartTool, TypeOK, Tools
  <2>3. CASE Try(c, j)
    BY <2>1, <2>2, <2>3 DEF Try, ToolRejects, TryRefused, At, Active
  <2>4. CASE ToolEnds(c, j)
    BY <2>1, <2>2, <2>4 DEF ToolEnds, ToolRejects, TryRefused, At, Active
  <2>5. CASE Report(c, j)
    <3>1. \A k : Record(c, k) => tool'[c][i] = tool[c][i] \/ tool'[c][i].at # "executing"
      BY DEF Record, TypeOK, Tools
    <3>2. ASSUME j + 1 \in Called(c),
                 tool' = [tool EXCEPT ![c][j] = [at |-> "done", retried |-> FALSE],
                                      ![c][j + 1] = [at |-> "announced", retried |-> FALSE]]
          PROVE  FALSE
      BY <1>0, <3>2 DEF TypeOK, Tools
    <3> QED
      BY <2>1, <2>5, <3>1, <3>2 DEF Report
  <2>6. CASE ToolHookThrows(c, j)
    BY <2>1, <2>6 DEF ToolHookThrows, ToolRejects
  <2> QED
    BY <1>3, <2>3, <2>4, <2>5, <2>6 DEF ToolStep
<1>4. ASSUME Abort \/ Restore \/ UNCHANGED vars
      PROVE  FALSE
  BY <1>4 DEF Abort, Restore, vars
<1> QED
  BY <1>1, <1>2, <1>3, <1>4 DEF Next

LEMMA LoopInit ==
  Init => LoopInv
<1> SUFFICES ASSUME Init
             PROVE  LoopInv
  OBVIOUS
<1>1. TypeOK
  <2>1. maxIterations \in Nat /\ parallel \in BOOLEAN
    BY AgentLoopAssumption DEF Init
  <2>2. NoReply \in Replies /\ NoTools \in Tools
    BY AgentLoopAssumption DEF NoReply, Replies, FinishReasons, NoTools, Tools, ToolStages
  <2> QED
    BY <2>1, <2>2 DEF Init, TypeOK, Statuses, Stages
<1>2. Control
  BY DEF Init, Control, InProgress
<1>3. Results
  BY DEF Init, Results, Over
<1>4. ToolsHeld
  BY DEF Init, ToolsHeld, ToolsHeldBy, NoTools, Active, Over
<1>5. Pairs
  BY DEF Init, Pairs, PairsOf
<1> QED
  BY <1>1, <1>2, <1>3, <1>4, <1>5 DEF LoopInv

\* The inductive invariant of the loop.
THEOREM LoopInvariant == Spec => []LoopInv
<1>1. LoopInv /\ [Next]_vars => LoopInv'
  BY TypeStep, ControlStep, ResultsStep, HeldAndPairsStep DEF LoopInv
<1> QED
  BY <1>1, LoopInit, PTL DEF Spec

\* Every field keeps its type (AgentLoop!TypeOK).
THEOREM TypeCorrect == Spec => []TypeOK
<1>1. LoopInv => TypeOK
  BY DEF LoopInv
<1> QED
  BY <1>1, LoopInvariant, PTL

\* However the tools of a reply were prepared, skipped, retried, rejected or run side by
\* side, each of its tool calls has its result in the transcript before the next request
\* is sent, and when the run completed.
THEOREM EveryRequestAnswered == Spec => []RequestsAnswered
<1>1. LoopInv => RequestsAnswered
  <2> SUFFICES ASSUME LoopInv, NEW c \in Call,
                      pc[c] = "streaming" \/ result[c] = "completed"
               PROVE  unanswered \cap ({c} \X Tool) = {}
    BY DEF RequestsAnswered
  <2>1. pc[c] = "streaming" \/ (pc[c] \in Over /\ result[c] = "completed")
    BY DEF LoopInv, Results
  <2>2. \A i \in Tool : <<c, i>> \notin unanswered
    BY <2>1 DEF LoopInv, Pairs, PairsOf, Over
  <2> QED
    BY <2>2
<1> QED
  BY <1>1, LoopInvariant, PTL

\* A run whose hooks and listeners let it end has told so exactly once, and an idle
\* runtime has neither the status nor the controller of a run left over.
THEOREM EveryRunEndsOnce == Spec => []EndsOnce
<1>1. LoopInv => EndsOnce
  <2> SUFFICES ASSUME LoopInv
               PROVE  EndsOnce
    OBVIOUS
  <2>1. \A c \in Call \ threw :
          ended[c] = IF result[c] \in {"completed", "aborted", "failed"}
                        /\ pc[c] \in {"emitted", "returned"} THEN 1 ELSE 0
    BY DEF LoopInv, Results
  <2>2. (\A c \in Call : ~InProgress(c)) => status # "running" /\ controller = None
    BY DEF LoopInv, Control, TypeOK
  <2> QED
    BY <2>1, <2>2 DEF EndsOnce
<1> QED
  BY <1>1, LoopInvariant, PTL

\* Whoever aborted it, a run starts no tool afterwards, neither the next in line nor a
\* second try.
THEOREM NoToolAfterAbort == Spec => NothingStartsAfterAbort
<1>1. LoopInv /\ [Next]_vars =>
        \A c \in Call, i \in Tool :
          /\ tool'[c][i].at = "executing" /\ tool'[c][i] # tool[c][i]
          /\ pc[c] = "executing" \/ ~parallel
          => pc[c] = "executing" /\ c \notin signal
  <2> SUFFICES ASSUME LoopInv, [Next]_vars, NEW c \in Call, NEW i \in Tool,
                      tool'[c][i].at = "executing", tool'[c][i] # tool[c][i],
                      pc[c] = "executing" \/ ~parallel
               PROVE  pc[c] = "executing" /\ c \notin signal
    OBVIOUS
  <2>1. tool[c][i].at \in Active /\ ~Aborted
    BY ToolStarts DEF LoopInv
  <2>2. pc[c] = "executing"
    BY <2>1 DEF LoopInv, ToolsHeld, ToolsHeldBy
  <2>3. controller = c
    BY <2>2 DEF LoopInv, Control, InProgress
  <2> QED
    BY <2>1, <2>2, <2>3 DEF Aborted
<1> QED
  BY <1>1, LoopInvariant, PTL DEF Spec, NothingStartsAfterAbort

=============================================================================
