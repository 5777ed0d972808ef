------------------------------ MODULE AgentLoop ------------------------------
(***************************************************************************)
(* The agent loop (packages/agents/src/agent-runtime.ts): the calls of     *)
(* execute() on one AgentRuntime, the model turns of a run, the tools it   *)
(* executes one after the other or all at once, abort() and restore(), and *)
(* the hooks and listeners that may stop a run or throw wherever it waits  *)
(* for them.  Status, abort controller, iteration counter and transcript   *)
(* belong to the runtime, not to the run, and a step is what runs between  *)
(* two awaits.                                                             *)
(***************************************************************************)
EXTENDS Integers, FiniteSets

CONSTANTS
  Call,      \* calls of execute()
  None,      \* this.abortController is undefined
  Configs,   \* config.maxIterations, 0 for unset, and toolExecution = "parallel"
  MaxTools,  \* bound: tool calls in one reply
  Faults     \* TRUE: hooks and listeners may throw

ASSUME AgentLoopAssumption ==
  /\ None \notin Call /\ IsFiniteSet(Call)
  /\ Configs \subseteq Nat \X BOOLEAN /\ MaxTools \in Nat
  /\ Faults \in BOOLEAN

VARIABLES
  maxIterations, parallel,   \* the config of the runtime
  status,      \* state.status
  controller,  \* this.abortController, by the call that made it
  signal,      \* the calls whose controller was aborted
  iteration,   \* state.iteration, counted only where a limit reads it
  unanswered,  \* tool calls in state.messages that have no result there
  pc,          \* what a call awaits
  reply,       \* finish reason of its latest reply, and how many tools it calls
  tool,        \* where the tools of that reply stand
  caught,      \* the call is past the start of its catch block
  result,      \* what execute() reports, "rejected" if it throws
  ended,       \* history: terminal events (run-finished, run-failed) of a call
  threw        \* history: calls in whose ending a hook or listener threw

config == <<maxIterations, parallel>>
history == <<ended, threw>>
vars == <<config, status, controller, signal, iteration, unanswered, pc, reply, tool,
          caught, result, history>>

Tool == 1..MaxTools
FinishReasons == {"stop", "error", "aborted"}
Statuses == {"idle", "running", "completed", "aborted", "failed"}
Stages == {"none", "init", "starting", "asking", "streaming", "received", "pushed",
           "preparing", "executing", "recording", "wrapping", "ending", "emitted",
           "returned"}
\* "prepared" waits for its turn, "announced" for the hooks of tool-started, "reporting"
\* for those of afterTool and tool-finished; "dropped" threw.
ToolStages == {"none", "prepared", "announced", "executing", "reporting", "done",
               "dropped", "recorded"}

Replies == [reason : FinishReasons, calls : 0..MaxTools]
Tools == [Tool -> [at : ToolStages, retried : BOOLEAN]]

NoTools == [i \in Tool |-> [at |-> "none", retried |-> FALSE]]
NoReply == [reason |-> "stop", calls |-> 0]

\* Every field keeps its type: no run leaves the statuses of AgentRunStatus.
TypeOK ==
  /\ maxIterations \in Nat /\ parallel \in BOOLEAN
  /\ status \in Statuses
  /\ controller \in Call \cup {None}
  /\ signal \in SUBSET Call
  /\ iteration \in Nat
  /\ unanswered \in SUBSET (Call \X Tool)
  /\ pc \in [Call -> Stages]
  /\ reply \in [Call -> Replies]
  /\ tool \in [Call -> Tools]
  /\ caught \in [Call -> BOOLEAN]
  /\ result \in [Call -> {"none", "completed", "aborted", "failed", "rejected"}]
  /\ ended \in [Call -> Nat]
  /\ threw \in SUBSET Call

Init ==
  /\ \E k \in Configs : maxIterations = k[1] /\ parallel = k[2]
  /\ status = "idle" /\ controller = None /\ signal = {}
  /\ iteration = 0 /\ unanswered = {}
  /\ pc = [c \in Call |-> "none"]
  /\ reply = [c \in Call |-> NoReply]
  /\ tool = [c \in Call |-> NoTools]
  /\ caught = [c \in Call |-> FALSE]
  /\ result = [c \in Call |-> "none"]
  /\ ended = [c \in Call |-> 0]
  /\ threw = {}

Goto(c, stage) == pc' = [pc EXCEPT ![c] = stage]

\* The tool calls of c's latest reply.
Called(c) == 1..reply[c].calls

InProgress(c) == pc[c] \notin {"none", "init", "returned"}

\* throwIfAborted asks the runtime's controller, whoever made it.
Aborted == controller \in signal

-----------------------------------------------------------------------------
(* How a run ends.                                                          *)

\* The finally block; the controller is gone.
Return(c) ==
  /\ Goto(c, "returned")
  /\ controller' = None /\ signal' = signal \ {c}

\* Locals die with the call, except those of tools that go on without it.
Forget(c) ==
  /\ reply' = [reply EXCEPT ![c] = NoReply]
  /\ tool' = [tool EXCEPT ![c] = [i \in Tool |->
                IF @[i].at \in {"announced", "executing", "reporting"} THEN @[i]
                ELSE NoTools[i]]]

\* Variants: the catch block leaves the status alone; it sets a status no one knows.
StatusKept(outcome) == status

StatusCancelled(outcome) == IF outcome = "aborted" THEN "cancelled" ELSE outcome

StatusAfter(outcome) == outcome

\* The catch block up to its first await.
Caught(c, stopped) ==
  LET outcome == IF Aborted \/ stopped THEN "aborted" ELSE "failed" IN
  /\ status' = StatusAfter(outcome)
  /\ result' = [result EXCEPT ![c] = outcome]
  /\ Goto(c, "ending")
  /\ caught' = [caught EXCEPT ![c] = TRUE]
  /\ UNCHANGED controller

\* finishRun("completed"), then the afterRun hooks.
FinishRun(c) ==
  /\ status' = "completed"
  /\ result' = [result EXCEPT ![c] = "completed"]
  /\ Goto(c, "ending")
  /\ UNCHANGED <<controller, caught>>

\* The step ends neither the run nor its catch block.
GoesOn == UNCHANGED <<status, controller, caught, result>>

\* The afterRun hooks are done: run-finished or run-failed.
EmitEnd(c) ==
  /\ pc[c] = "ending"
  /\ Goto(c, "emitted")
  /\ ended' = [ended EXCEPT ![c] = @ + 1]
  /\ UNCHANGED <<config, status, controller, signal, iteration, unanswered, reply, tool,
                 caught, result, threw>>

ReturnResult(c) ==
  /\ pc[c] = "emitted"
  /\ Return(c) /\ Forget(c)
  /\ UNCHANGED <<config, status, iteration, unanswered, caught, result, history>>

\* A hook or listener throws while the run ends: a completed run goes through the catch
\* block and its hooks once more, any other rejects.
EndingThrows(c) ==
  /\ Faults /\ pc[c] \in {"ending", "emitted"}
  /\ threw' = threw \cup {c}
  /\ \/ ~caught[c] /\ Caught(c, FALSE) /\ UNCHANGED <<signal, reply, tool>>
     \/ /\ caught[c]
        /\ Return(c) /\ Forget(c)
        /\ result' = [result EXCEPT ![c] = "rejected"]
        /\ UNCHANGED <<status, caught>>
  /\ \/ UNCHANGED ended
     \/ pc[c] = "ending" /\ ended' = [ended EXCEPT ![c] = @ + 1]
  /\ UNCHANGED <<config, iteration, unanswered>>

-----------------------------------------------------------------------------
(* The loop.                                                                *)

\* The calls are alike: they come in a fixed order.
Execute(c) ==
  /\ pc[c] = "none" /\ c = CHOOSE d \in Call : pc[d] = "none"
  /\ Goto(c, "init")
  /\ UNCHANGED <<config, status, controller, signal, iteration, unanswered, reply, tool,
                 caught, result, history>>

\* The runtime is initialised; a running one refuses.  A caller that starts a run out of
\* the end of another one, or after restore() while it unwinds, is left out.
Begin(c) ==
  /\ pc[c] = "init"
  /\ \/ /\ status = "running"
        /\ Goto(c, "returned")
        /\ result' = [result EXCEPT ![c] = "rejected"]
        /\ UNCHANGED <<status, controller, iteration>>
     \/ /\ status # "running" /\ \A d \in Call : ~InProgress(d)
        /\ status' = "running" /\ controller' = c /\ iteration' = 0
        /\ Goto(c, "starting")
        /\ UNCHANGED result
  /\ UNCHANGED <<config, signal, unanswered, reply, tool, caught, ended, threw>>

LimitReached == maxIterations > 0 /\ iteration >= maxIterations

\* Variant: the loop looks at its limit only.
LoopStopsAtLimit == LimitReached

LoopStops == LimitReached \/ Aborted

\* The head of the while loop, and the throw behind it.
LoopTop(c) ==
  \/ LoopStops /\ Caught(c, FALSE) /\ UNCHANGED iteration
  \/ /\ ~LoopStops
     /\ iteration' = IF maxIterations = 0 THEN 0 ELSE iteration + 1
     /\ Goto(c, "asking")
     /\ GoesOn

\* beforeRun hooks, run-started and the input are done.
Started(c) ==
  /\ pc[c] = "starting"
  /\ LoopTop(c)
  /\ UNCHANGED <<config, signal, unanswered, reply, tool, history>>

\* A pending message, prepareTurn and the beforeModel hooks are done: the request.
Ask(c) ==
  /\ pc[c] = "asking"
  /\ Goto(c, "streaming")
  /\ GoesOn
  /\ UNCHANGED <<config, signal, iteration, unanswered, reply, tool, history>>

\* A throw inside the stream, that of an abort included, only sets the finish reason and
\* leaves what had come so far; an abort after the last event goes unnoticed.
StreamEnds(c) ==
  /\ pc[c] = "streaming"
  /\ \E reason \in FinishReasons, n \in 0..MaxTools :
       reply' = [reply EXCEPT ![c] = [reason |-> reason, calls |-> n]]
  /\ Goto(c, "received")
  /\ GoesOn
  /\ UNCHANGED <<config, signal, iteration, unanswered, tool, history>>

\* The afterModel hooks are done: the reply enters the transcript.
Push(c) ==
  /\ pc[c] = "received"
  /\ unanswered' = unanswered \cup ({c} \X Called(c))
  /\ Goto(c, "pushed")
  /\ GoesOn
  /\ UNCHANGED <<config, signal, iteration, reply, tool, history>>

\* Its listeners are done.  Tool calls spelled out in the text of a reply without any
\* are put into the message that is in the transcript already.
Decide(c) ==
  LET Failed == \/ reply[c].reason = "aborted"
                \/ reply[c].reason = "error" /\ Called(c) = {}
  IN
  /\ pc[c] = "pushed"
  /\ \/ Failed /\ Caught(c, FALSE) /\ UNCHANGED <<reply, unanswered>>
     \/ /\ ~Failed
        /\ \E n \in IF Called(c) = {} THEN 0..MaxTools ELSE {reply[c].calls} :
             /\ reply' = [reply EXCEPT ![c] = [NoReply EXCEPT !.calls = n]]
             /\ unanswered' = IF Called(c) = {} THEN unanswered \cup ({c} \X (1..n))
                              ELSE unanswered
             /\ Goto(c, IF n = 0 THEN "wrapping" ELSE "preparing")
        /\ GoesOn
  /\ UNCHANGED <<config, signal, iteration, tool, history>>

\* turn-finished is out: the run is complete, or a reminder (builder violation, completion
\* guard or tool) or the results of the tools start another turn.
Wrap(c) ==
  /\ pc[c] = "wrapping"
  /\ \/ FinishRun(c) /\ UNCHANGED iteration
     \/ LoopTop(c)
  /\ UNCHANGED <<config, signal, unanswered, reply, tool, history>>

-----------------------------------------------------------------------------
(* Tools.                                                                   *)

At(c, i, stage) == tool[c][i].at = stage

\* executePreparedTool starts for the calls in S.
Announce(c, S) ==
  tool' = [tool EXCEPT ![c] = [i \in Tool |->
             IF i \in S THEN [at |-> "announced", retried |-> FALSE]
             ELSE IF i \in Called(c) /\ tool[c][i].at = "none"
                  THEN [at |-> "prepared", retried |-> FALSE]
             ELSE tool[c][i]]]

\* beforeTool hooks and approvals of all calls are done, whatever they said.
Prepared(c) ==
  /\ pc[c] = "preparing"
  /\ \/ parallel /\ Announce(c, Called(c)) /\ Goto(c, "executing") /\ GoesOn
     \/ ~parallel /\ Aborted /\ Caught(c, FALSE) /\ UNCHANGED tool
     \/ ~parallel /\ ~Aborted /\ Announce(c, {1}) /\ Goto(c, "executing") /\ GoesOn
  /\ UNCHANGED <<config, signal, iteration, unanswered, reply, history>>

MoveTool(c, i, stage) ==
  tool' = [tool EXCEPT ![c][i] = [at |-> stage, retried |-> FALSE]]

\* A rejected executePreparedTool ends the run it belongs to, if that still waits.
ToolRejects(c, i, stopped) ==
  /\ MoveTool(c, i, "dropped")
  /\ IF pc[c] = "executing" THEN Caught(c, stopped) ELSE GoesOn /\ UNCHANGED pc

\* Variant: only the first of the two attempts looks for an abort.
FirstTryRefused(c, i) == Aborted /\ At(c, i, "announced")

TryRefused(c, i) == Aborted

StartTool(c, i, again) ==
  tool' = [tool EXCEPT ![c][i] = [at |-> "executing", retried |-> again]]

\* The listeners of tool-started are done.  The tool executes; or the call was skipped or
\* names no tool, an error at once, which recoverToolExecution may turn into a second try.
Try(c, i) ==
  /\ At(c, i, "announced")
  /\ \/ TryRefused(c, i) /\ ToolRejects(c, i, FALSE)
     \/ /\ ~TryRefused(c, i)
        /\ \/ MoveTool(c, i, "reporting")
           \/ \E again \in BOOLEAN : StartTool(c, i, again)
        /\ GoesOn /\ UNCHANGED pc
  /\ UNCHANGED <<config, signal, iteration, unanswered, reply, history>>

\* It returned or threw; what the first try threw may be recovered by a second.
ToolEnds(c, i) ==
  /\ At(c, i, "executing")
  /\ \/ MoveTool(c, i, "reporting") /\ GoesOn /\ UNCHANGED pc
     \/ /\ ~tool[c][i].retried
        /\ \/ TryRefused(c, i) /\ ToolRejects(c, i, FALSE)
           \/ ~TryRefused(c, i) /\ StartTool(c, i, TRUE) /\ GoesOn /\ UNCHANGED pc
  /\ UNCHANGED <<config, signal, iteration, unanswered, reply, history>>

\* Variant: the results of a reply enter the transcript with the first of them.
RecordOnce(c, i) == /\ tool' = [tool EXCEPT ![c] = [j \in Tool |->
                                  [tool[c][j] EXCEPT !.at = "recorded"]]]
                    /\ unanswered' = unanswered \ {<<c, i>>}

\* The result of call i is pushed onto the transcript.
Record(c, i) ==
  /\ tool' = [tool EXCEPT ![c] = [j \in Tool |->
                [at |-> IF j = i THEN "recorded"
                        ELSE IF j \in Called(c) THEN "done" ELSE tool[c][j].at,
                 retried |-> tool[c][j].retried]]]
  /\ unanswered' = unanswered \ {<<c, i>>}

\* The afterTool hooks and tool-finished are done: the next call in order, or, with the
\* last one, the first result.
Report(c, i) ==
  /\ At(c, i, "reporting")
  /\ \/ /\ pc[c] = "executing" /\ \A j \in Called(c) \ {i} : At(c, j, "done")
        /\ Record(c, 1)
        /\ Goto(c, "recording")
        /\ GoesOn
     \/ /\ pc[c] = "executing" /\ ~parallel /\ i + 1 \in Called(c)
        /\ \/ Aborted /\ Caught(c, FALSE) /\ MoveTool(c, i, "done")
           \/ /\ ~Aborted
              /\ tool' = [tool EXCEPT ![c][i] = [at |-> "done", retried |-> FALSE],
                                      ![c][i + 1] = [at |-> "announced", retried |-> FALSE]]
              /\ GoesOn /\ UNCHANGED pc
        /\ UNCHANGED unanswered
     \/ /\ parallel
        /\ pc[c] = "executing" => \E j \in Called(c) \ {i} : ~At(c, j, "done")
        /\ MoveTool(c, i, "done")
        /\ GoesOn /\ UNCHANGED <<pc, unanswered>>
  /\ UNCHANGED <<config, signal, iteration, reply, history>>

\* The hooks of tool-started, afterTool or tool-finished throw; afterTool may also stop.
ToolHookThrows(c, i) ==
  /\ \E stopped \in BOOLEAN :
       /\ IF stopped THEN At(c, i, "reporting")
          ELSE Faults /\ (At(c, i, "announced") \/ At(c, i, "reporting"))
       /\ ToolRejects(c, i, stopped)
  /\ UNCHANGED <<config, signal, iteration, unanswered, reply, history>>

\* The listeners of a pushed result are done.
RecordNext(c) ==
  /\ pc[c] = "recording"
  /\ \/ /\ \A i \in Called(c) : At(c, i, "recorded")
        /\ Goto(c, "wrapping") /\ Forget(c)
        /\ UNCHANGED unanswered
     \/ \E i \in Called(c) :
          /\ At(c, i, "done") /\ \A j \in 1..(i - 1) : At(c, j, "recorded")
          /\ MoveTool(c, i, "recorded")
          /\ unanswered' = unanswered \ {<<c, i>>}
          /\ UNCHANGED <<pc, reply>>
  /\ GoesOn
  /\ UNCHANGED <<config, signal, iteration, history>>

-----------------------------------------------------------------------------
(* What others do to the run.                                               *)

\* A hook stops the run; a hook, a listener, prepareTurn or opening the stream throws.
Interrupted(c) ==
  /\ \E stopped \in BOOLEAN :
       /\ IF stopped THEN pc[c] \in {"starting", "asking", "received", "preparing"}
          ELSE \/ pc[c] = "asking"
               \/ Faults /\ pc[c] \in {"starting", "received", "pushed", "preparing",
                                       "recording", "wrapping"}
       /\ Caught(c, stopped)
  /\ UNCHANGED <<config, signal, iteration, unanswered, reply, tool, history>>

Abort ==
  /\ controller # None
  /\ signal' = signal \cup {controller}
  /\ UNCHANGED <<config, status, controller, iteration, unanswered, pc, reply, tool, caught,
                 result, history>>

\* The run that is in progress, if any, goes on until it notices.
Restore ==
  /\ signal' = signal \cup ({controller} \ {None})
  /\ status' = "idle" /\ iteration' = 0
  /\ unanswered' = {}
  /\ UNCHANGED <<config, controller, pc, reply, tool, caught, result, history>>

-----------------------------------------------------------------------------
ToolStep(c, i) == Try(c, i) \/ ToolEnds(c, i) \/ Report(c, i) \/ ToolHookThrows(c, i)

Step(c) ==
  \/ Begin(c) \/ Started(c) \/ Ask(c) \/ StreamEnds(c) \/ Push(c) \/ Decide(c)
  \/ Prepared(c) \/ RecordNext(c) \/ Wrap(c) \/ Interrupted(c)
  \/ EmitEnd(c) \/ ReturnResult(c) \/ EndingThrows(c)

Next ==
  \/ \E c \in Call : Execute(c) \/ Step(c) \/ \E i \in Tool : ToolStep(c, i)
  \/ Abort \/ Restore

\* The model's stream and a tool end, at the latest when their signal is aborted; hooks
\* return, approvals are answered.
Fairness ==
  \A c \in Call : WF_vars(Step(c)) /\ \A i \in Tool : WF_vars(ToolStep(c, i))

Spec == Init /\ [][Next]_vars /\ Fairness

-----------------------------------------------------------------------------
(* Properties.                                                              *)

\* Once a run was aborted none of its tools starts, neither the next in line nor the
\* second try of a failed one; run side by side, a tool may start after the run is over,
\* when nobody remembers the abort.
NothingStartsAfterAbort ==
  [][\A c \in Call, i \in Tool :
       /\ tool'[c][i].at = "executing" /\ tool'[c][i] # tool[c][i]
       /\ pc[c] = "executing" \/ ~parallel
       => pc[c] = "executing" /\ c \notin signal]_vars

\* The provider is never sent a tool call of this run without its result, whichever tools
\* were skipped, failed, retried or ran side by side; a completed run left none behind.
RequestsAnswered ==
  \A c \in Call : pc[c] = "streaming" \/ result[c] = "completed" =>
    unanswered \cap ({c} \X Tool) = {}

\* A run whose hooks and listeners let it end tells so exactly once, and when no call is
\* in progress the runtime takes the next one, whether the ones before it completed, failed,
\* were aborted or broke off in a hook.  (Plugins are set up: one that fails for good is
\* not modelled.)
EndsOnce ==
  /\ \A c \in Call \ threw :
       ended[c] = IF result[c] \in {"completed", "aborted", "failed"}
                     /\ pc[c] \in {"emitted", "returned"} THEN 1 ELSE 0
  /\ (\A c \in Call : ~InProgress(c)) => status # "running" /\ controller = None

\* A run that is aborted returns, though its iterations are unlimited and the model, the
\* reminders and the tools would keep it going for ever.
AbortedRunsReturn ==
  \A c \in Call : c \in signal ~> pc[c] = "returned"

=============================================================================
