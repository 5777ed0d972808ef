----------------------------- MODULE SessionTurns -----------------------------
(***************************************************************************)
(* One live interactive session of LocalRuntimeHost: the calls of runTurn  *)
(* in progress on it, the prompts that wait, the flags of its agent        *)
(* (SessionRuntime), abort, stop and the shutdown of a failed session      *)
(* (runtime/host/local-runtime-host.ts, runtime/turn-queue,                *)
(* session/team/team-session-coordinator.ts,                               *)
(* runtime/orchestration/session-runtime-orchestrator.ts).                 *)
(*                                                                         *)
(* JavaScript runs to completion between two awaits, so every action is    *)
(* the code from one await to the next; the callers of runTurn, abort and  *)
(* stopSession and the teammates interleave there.  The module ends with   *)
(* the ActiveSession object: a send that finds none starts another one.    *)
(***************************************************************************)
EXTENDS PendingPrompts, FiniteSets

CONSTANTS
  Turn,         \* slots for concurrent runTurn calls (as many as overlap)
  Stopper,      \* the stopSession call
  TeamRun,      \* teammate runs the lead may start
  Text,         \* texts of prompts
  Resumed,      \* statuses a resumed session brings from its manifest
  MaxPrompts,   \* bound: prompts accepted from callers
  Faults        \* TRUE: persistence, credentials and run preparation may throw

ASSUME SessionTurnsAssumption ==
  /\ Stopper \notin Turn
  /\ IsFiniteSet(Turn)
  /\ MaxPrompts \in Nat
  /\ Resumed \subseteq {"idle", "running", "completed", "failed", "cancelled"}
  /\ Faults \in BOOLEAN

VARIABLES
  \* ActiveSession
  live,         \* this.sessions holds the session
  artifacts,    \* session.artifacts is set
  status,       \* session.status and the row in the store
  aborting, draining,
  queue,        \* session.pendingPrompts
  active,       \* session.activeTeamRunIds
  updates,      \* session.pendingTeamRunUpdates, as the set of their runs
  lastReason,   \* lastInteractiveTurnFinishReason
  \* SessionRuntime
  running, abortRequested, shutdownCalled,
  promise,      \* activeRunPromise is the promise of the run in progress
  \* calls in progress
  pc,           \* where each runTurn call or stopSession stands
  origin,       \* who called runTurn: a caller or drain()
  entry,        \* the entry a turn of drain() carries
  reason,       \* finishReason of the turn's latest run
  target,       \* the status a shutdown is writing
  drains,       \* drain() microtasks that are scheduled, two standing for more
  \* for the bound and the properties only
  started,      \* teammate runs started so far
  prompts,      \* prompts accepted so far
  unserved,     \* a turn ended without scheduling a drain
  putBack       \* drain() has put a prompt back since the latest abort

agent == <<running, abortRequested, shutdownCalled, promise>>
team == <<active, updates, started>>
\* what the end of a call settles
locals == <<origin, entry, reason>>
wake == <<draining, drains, unserved, putBack>>
call == <<pc, locals, target, aborting, lastReason, wake>>
vars == <<live, artifacts, status, queue, prompts, team, agent, call>>

Call == Turn \cup {Stopper}
NoEntry == [text |-> "", delivery |-> "queue"]
Entry == [text : Text \cup {""}, delivery : Deliveries]
Statuses == {"idle", "running", "completed", "failed", "cancelled"}
Reasons == {"none", "completed", "error", "aborted"}
\* "thrown" is in executeAgentTurn's catch, "caught" in runTurn's.
TurnPCs == {"none", "preparing", "marking", "setup", "run", "ran", "asleep", "woken", "idling",
            "thrown", "caught"}
ShutdownPCs == {"closing", "draining", "releasing"}

TypeOK ==
  /\ live \in BOOLEAN /\ artifacts \in BOOLEAN
  /\ status \in Statuses
  /\ aborting \in BOOLEAN /\ draining \in BOOLEAN
  /\ queue \in Seq(Entry)
  /\ active \subseteq TeamRun /\ updates \subseteq TeamRun /\ started \subseteq TeamRun
  /\ lastReason \in Reasons
  /\ running \in BOOLEAN /\ abortRequested \in BOOLEAN
  /\ shutdownCalled \in BOOLEAN /\ promise \in BOOLEAN
  /\ pc \in [Call -> TurnPCs \cup ShutdownPCs]
  /\ origin \in [Turn -> {"caller", "drain"}]
  /\ entry \in [Turn -> Entry]
  /\ reason \in [Turn -> Reasons]
  /\ target \in [Call -> Statuses \cup {"none"}]
  /\ drains \in 0..2
  /\ prompts \in 0..MaxPrompts
  /\ unserved \in BOOLEAN /\ putBack \in BOOLEAN

\* A new session has no row yet; a resumed one brings the status of its manifest.
Init ==
  /\ live = TRUE
  /\ \/ artifacts = FALSE /\ status = "running"
     \/ artifacts = TRUE /\ status \in Resumed
  /\ aborting = FALSE /\ draining = FALSE /\ queue = <<>>
  /\ active = {} /\ updates = {} /\ started = {} /\ lastReason = "none"
  /\ running = FALSE /\ abortRequested = FALSE
  /\ shutdownCalled = FALSE /\ promise = FALSE
  /\ pc = [c \in Call |-> "none"]
  /\ origin = [t \in Turn |-> "caller"]
  /\ entry = [t \in Turn |-> NoEntry]
  /\ reason = [t \in Turn |-> "none"]
  /\ target = [c \in Call |-> "none"]
  /\ drains = 0
  /\ prompts = 0 /\ unserved = FALSE /\ putBack = FALSE

CanStartRun == ~running /\ ~shutdownCalled
InFlight == {t \in Turn : pc[t] \in {"setup", "run"}}
Turns == {t \in Turn : pc[t] # "none"}
Goto(c, l) == pc' = [pc EXCEPT ![c] = l]

\* updateStatus; a session without a row keeps the status it has.
StatusWritten(st) == status' = IF artifacts THEN st ELSE status

\* It throws before or after it sets the status: the row may refuse the update, or the
\* manifest the write.
StatusFails(st) == Faults /\ artifacts /\ status' \in {status, st}

-----------------------------------------------------------------------------
(* Waiting prompts: PendingPromptsController.                               *)

\* One more microtask; of more than two the third would find what the second left.
Scheduled(wanted) == IF wanted /\ drains < 2 THEN drains + 1 ELSE drains

\* Variant: what is enqueued waits for the end of a turn, also where none is under way.
LeaveToTurns(q) == UNCHANGED drains

\* scheduleDrain, over the list as the caller leaves it.
ScheduleDrain(q) ==
  drains' = Scheduled(q # <<>> /\ ~aborting /\ ~draining /\ CanStartRun)

\* An aborting session ignores every edit.
SessionEditable == live /\ ~aborting

EditQueue(q) ==
  /\ SessionEditable
  /\ queue' = q
  /\ ScheduleDrain(q)
  /\ UNCHANGED <<live, artifacts, status, team, agent, pc, locals, target, aborting,
                 lastReason, draining, unserved, putBack>>

\* runTurn with a delivery, and a plugin's steer message.
EnqueuePrompt(text, d) ==
  /\ prompts < MaxPrompts /\ prompts' = prompts + 1
  /\ EditQueue(Enqueue(queue, text, d))

UpdatePrompt(i, text, d) == EditQueue(Update(queue, i, text, d)) /\ UNCHANGED prompts

DeletePrompt(i) == EditQueue(RemoveAt(queue, i)) /\ UNCHANGED prompts

\* The agent loop asks for a steer prompt before a model request.
ConsumeSteer(t) ==
  /\ pc[t] = "run" /\ live
  /\ FirstSteer(queue) # 0
  /\ queue' = RemoveAt(queue, FirstSteer(queue))
  /\ UNCHANGED <<live, artifacts, status, prompts, team, agent, call>>

-----------------------------------------------------------------------------
(* How runTurn ends.                                                        *)

\* Variant: the turn leaves what came meanwhile to the next send.
LeaveQueue(t, why) ==
  /\ draining' = (draining /\ origin[t] # "drain")
  /\ UNCHANGED drains

\* runTurn schedules a drain unless the turn failed or was aborted; drain() itself goes on
\* whatever the finishReason was.
WakeQueue(t, why) ==
  /\ draining' = (draining /\ origin[t] # "drain")
  /\ drains' = Scheduled(
       IF origin[t] = "drain" THEN queue # <<>> /\ status' \notin {"failed", "cancelled"}
       ELSE why = "completed")

\* The locals of a call end with it.
ForgetTurn(t) ==
  /\ origin' = [origin EXCEPT ![t] = "caller"]
  /\ entry' = [entry EXCEPT ![t] = NoEntry]
  /\ reason' = [reason EXCEPT ![t] = "none"]

ReturnFrom(t, why) ==
  /\ Goto(t, "none")
  /\ WakeQueue(t, why)
  /\ unserved' = (origin[t] = "caller" /\ why # "completed")
  /\ ForgetTurn(t)
  /\ UNCHANGED <<target, putBack>>

\* runTurn rejects: drain() puts the prompt it sent back in front and goes no further.
Rejects(t) ==
  /\ Goto(t, "none")
  /\ IF origin[t] = "drain"
     THEN queue' = RequeueFront(queue, entry[t]) /\ draining' = FALSE /\ putBack' = TRUE
     ELSE UNCHANGED <<queue, draining, putBack>>
  /\ unserved' = TRUE
  /\ ForgetTurn(t)
  /\ UNCHANGED drains

HasPendingTeamRunWork == active # {} \/ updates # {}

\* completeInteractiveTurn up to markTurnIdle, which it awaits at l, or all of it; what it
\* reads of the status is what the step has made of it.
CompleteTurn(t, why, l) ==
  \/ /\ HasPendingTeamRunWork
     /\ ReturnFrom(t, why)
     /\ UNCHANGED <<aborting, lastReason>>
  \/ /\ ~HasPendingTeamRunWork /\ status' = "idle"
     /\ ReturnFrom(t, why)
     /\ lastReason' = why /\ aborting' = FALSE
  \/ /\ ~HasPendingTeamRunWork /\ status' # "idle"
     /\ Goto(t, l)
     /\ lastReason' = why /\ reason' = [reason EXCEPT ![t] = why]
     /\ UNCHANGED <<aborting, origin, entry, target, wake>>

\* notifyTeamRunWaiters, as c goes on at l.
WakeSleepers(c, l) ==
  pc' = [x \in Call |-> IF x = c THEN l ELSE IF pc[x] = "asleep" THEN "woken" ELSE pc[x]]

\* shutdownSession up to its first await; a session without a row has no status to write.
ShutdownBegins(c, st, persisted) ==
  \/ persisted /\ target' = [target EXCEPT ![c] = st] /\ WakeSleepers(c, "closing")
  \/ ~persisted /\ UNCHANGED target /\ WakeSleepers(c, "releasing")

\* What a run returned is lost with the call that throws.
LoseResult(t) ==
  reason' = [reason EXCEPT ![t] = "none"] /\ UNCHANGED <<origin, entry>>

\* runTurn's catch: an aborting session completes the turn, any other is shut down.
Throws(t) ==
  \/ aborting /\ CompleteTurn(t, "aborted", "caught")
  \/ ~aborting /\ ShutdownBegins(t, "failed", artifacts')
               /\ LoseResult(t)
               /\ UNCHANGED <<aborting, lastReason, wake>>

\* executeAgentTurn's catch, which writes the messages before it throws on.
AgentTurnThrows(t) ==
  /\ Goto(t, "thrown")
  /\ LoseResult(t)
  /\ UNCHANGED <<target, aborting, lastReason, wake>>

-----------------------------------------------------------------------------
(* A turn: runTurn, executeTurn and executeAgentTurn.                       *)

\* The calls that are free are alike: a new one takes the first.
FirstFree(t) == t = CHOOSE u \in Turn : pc[u] = "none"

StartTurn(t, e, from) ==
  /\ pc[t] = "none" /\ FirstFree(t)
  /\ Goto(t, "preparing")
  /\ origin' = [origin EXCEPT ![t] = from]
  /\ entry' = [entry EXCEPT ![t] = e]
  /\ unserved' = FALSE

\* A caller's prompt without a delivery: a turn at once, if canStartRun() says so ...
SendStarts(t) ==
  /\ live /\ CanStartRun
  /\ prompts < MaxPrompts /\ prompts' = prompts + 1
  /\ StartTurn(t, NoEntry, "caller")
  /\ UNCHANGED <<live, artifacts, status, queue, team, agent, reason, target, aborting,
                 lastReason, draining, drains, putBack>>

\* ... else the list.
SendQueued(text) == ~CanStartRun /\ EnqueuePrompt(text, "queue")

\* Variant: drain() relies on canStartRun alone.
DrainAllowedByAgent == ~aborting /\ CanStartRun

DrainAllowed == ~aborting /\ ~draining /\ CanStartRun

\* The microtask: one prompt, sent through runTurn, which makes the same check before its
\* first await.
Drain(t) ==
  /\ drains > 0 /\ drains' = drains - 1
  /\ \/ /\ live /\ DrainAllowed /\ queue # <<>>
        /\ queue' = Tail(queue)
        /\ draining' = TRUE
        /\ StartTurn(t, Head(queue), "drain")
     \/ /\ ~(live /\ DrainAllowed /\ queue # <<>>)
        /\ UNCHANGED <<queue, draining, pc, origin, entry, unserved>>
  /\ UNCHANGED <<live, artifacts, status, prompts, team, agent, reason, target, aborting,
                 lastReason, putBack>>

RunAdmitted == ~running /\ ~shutdownCalled

\* executeRunInternal up to its first await.  A rejected call replaces activeRunPromise
\* and its finally clears it, the earlier run notwithstanding; an accepted one forgets an
\* abort that came before it.
RunStarts(t) ==
  \/ /\ RunAdmitted
     /\ running' = TRUE /\ abortRequested' = FALSE /\ promise' = TRUE
     /\ Goto(t, "setup")
     /\ UNCHANGED <<locals, target, aborting, lastReason, wake, shutdownCalled>>
  \/ /\ ~RunAdmitted
     /\ promise' = FALSE
     /\ AgentTurnThrows(t)
     /\ UNCHANGED <<running, abortRequested, shutdownCalled>>

\* prepareTurnInput, ensureSessionPersisted and syncOAuthCredentials are done.
Prepared(t) ==
  /\ pc[t] = "preparing"
  /\ artifacts' = TRUE /\ UNCHANGED status
  /\ \/ status = "running" /\ RunStarts(t)
     \/ status # "running" /\ Goto(t, "marking")
                           /\ UNCHANGED <<agent, locals, target, aborting, lastReason, wake>>
  /\ UNCHANGED <<live, queue, prompts, team>>

MarkedRunning(t) ==
  /\ pc[t] = "marking"
  /\ StatusWritten("running")
  /\ RunStarts(t)
  /\ UNCHANGED <<live, artifacts, queue, prompts, team>>

SetupDone(t) ==
  /\ pc[t] = "setup"
  /\ Goto(t, "run")
  /\ UNCHANGED <<live, artifacts, status, queue, prompts, team, agent, locals, target, aborting,
                 lastReason, wake>>

\* Extensions, user content, the model or the hooks throw before the try block whose
\* finally resets running.
SetupThrows(t) ==
  /\ Faults
  /\ pc[t] = "setup"
  /\ promise' = FALSE
  /\ AgentTurnThrows(t)
  /\ UNCHANGED <<live, artifacts, status, queue, prompts, team, running, abortRequested,
                 shutdownCalled>>

\* An agent run that was asked to abort may still complete or fail first; a hook that
\* stops the run makes it an aborted one although nobody asked.
RunEnds(t, why) ==
  /\ pc[t] = "run"
  /\ running' = FALSE /\ abortRequested' = FALSE /\ promise' = FALSE
  /\ reason' = [reason EXCEPT ![t] = why]
  /\ Goto(t, "ran")
  /\ UNCHANGED <<live, artifacts, status, queue, prompts, team, shutdownCalled, origin, entry,
                 target, aborting, lastReason, wake>>

\* The session's row, the credentials or the status fail before the agent's turn, or the
\* status after it.
StoreThrows(t) ==
  /\ Faults
  /\ \/ /\ pc[t] = "preparing"
        /\ artifacts' \in {artifacts, TRUE} /\ UNCHANGED status
     \/ /\ pc[t] \in {"marking", "idling"}
        /\ StatusFails(IF pc[t] = "marking" THEN "running" ELSE "idle")
        /\ UNCHANGED artifacts
  /\ Throws(t)
  /\ UNCHANGED <<live, queue, prompts, team, agent>>

\* The result of the run could not be stored.
ResultLost(t) ==
  /\ Faults
  /\ pc[t] = "ran"
  /\ AgentTurnThrows(t)
  /\ UNCHANGED <<live, artifacts, status, queue, prompts, team, agent>>

\* The messages are written, or not: executeAgentTurn rejects.
Thrown(t) ==
  /\ pc[t] = "thrown"
  /\ UNCHANGED status /\ UNCHANGED artifacts
  /\ Throws(t)
  /\ UNCHANGED <<live, queue, prompts, team, agent>>

AutoContinues(t) == ~aborting /\ reason[t] = "completed" /\ HasPendingTeamRunWork

\* waitForTeamRunUpdates: the turn goes on with the updates, sleeps, or is complete.
AwaitTeam(t) ==
  \/ /\ ~aborting /\ updates # {}
     /\ updates' = {}
     /\ RunStarts(t)
  \/ /\ ~aborting /\ updates = {} /\ active # {}
     /\ Goto(t, "asleep")
     /\ UNCHANGED <<updates, agent, locals, target, aborting, lastReason, wake>>
  \/ /\ aborting \/ ~HasPendingTeamRunWork
     /\ CompleteTurn(t, reason[t], "idling")
     /\ UNCHANGED <<updates, agent>>

\* The run is persisted: wait for teammates, or complete.
Settle(t) ==
  /\ UNCHANGED status
  /\ \/ pc[t] = "ran" /\ AutoContinues(t) /\ AwaitTeam(t)
     \/ pc[t] = "ran" /\ ~AutoContinues(t) /\ CompleteTurn(t, reason[t], "idling")
                      /\ UNCHANGED <<updates, agent>>
     \/ pc[t] = "woken" /\ AwaitTeam(t)
  /\ UNCHANGED <<live, artifacts, queue, prompts, active, started>>

MarkedIdle(t) ==
  /\ pc[t] \in {"idling", "caught"}
  /\ StatusWritten("idle")
  /\ aborting' = FALSE
  /\ ReturnFrom(t, reason[t])
  /\ UNCHANGED <<live, artifacts, queue, prompts, team, agent, lastReason>>

\* An aborted turn cannot be marked idle either: runTurn rejects and shuts nothing down, so
\* the session lives on and is still aborting.
IdleThrows(t) ==
  /\ pc[t] = "caught"
  /\ StatusFails("idle")
  /\ Rejects(t)
  /\ UNCHANGED <<live, artifacts, prompts, team, agent, target, aborting, lastReason>>

-----------------------------------------------------------------------------
(* Abort, stop, and the shutdown of a session.                              *)

\* SessionRuntime.shutdown: refuses beside a run nobody aborted, awaits an aborted one.
AgentShutdown(c) ==
  /\ shutdownCalled' = (shutdownCalled \/ ~running)
  /\ Goto(c, IF running /\ abortRequested /\ promise THEN "draining" ELSE "releasing")

\* Variant: abort() without clearAborted.
KeepPrompts == queue

RemainingAfterAbort == <<>>

\* abort() of the host; nothing wakes a turn that waits for teammates.
Abort ==
  /\ live
  /\ aborting' = TRUE
  /\ queue' = RemainingAfterAbort
  /\ abortRequested' = TRUE
  /\ putBack' = FALSE
  /\ UNCHANGED <<live, artifacts, status, prompts, team, running, shutdownCalled, promise, pc,
                 locals, target, lastReason, draining, drains, unserved>>

\* Variant: the finish reason is taken for a status.
StopStatusByReason == lastReason

StopStatus ==
  CASE lastReason = "completed" -> "completed"
    [] lastReason = "error" -> "failed"
    [] OTHER -> "cancelled"

Ended == status \in {"completed", "failed", "cancelled"}

\* stopSession, and dispose, which aborts no agent.
Stop(aborts) ==
  /\ live /\ pc[Stopper] = "none"
  /\ \/ /\ Ended
        /\ AgentShutdown(Stopper)
        /\ UNCHANGED <<aborting, abortRequested, target>>
     \/ /\ ~Ended /\ CanStartRun
        /\ ShutdownBegins(Stopper, StopStatus, artifacts)
        /\ UNCHANGED <<aborting, abortRequested, shutdownCalled>>
     \/ /\ ~Ended /\ ~CanStartRun
        /\ aborting' = (aborting \/ aborts)
        /\ abortRequested' = (abortRequested \/ aborts)
        /\ ShutdownBegins(Stopper, "cancelled", artifacts)
        /\ UNCHANGED shutdownCalled
  /\ UNCHANGED <<live, artifacts, status, queue, prompts, team, running, promise, locals,
                 lastReason, wake>>

\* updateStatus has returned, or thrown: the shutdown goes on either way.
ShutdownMarked(c) ==
  /\ pc[c] = "closing"
  /\ StatusWritten(target[c]) \/ StatusFails(target[c])
  /\ target' = [target EXCEPT ![c] = "none"]
  /\ AgentShutdown(c)
  /\ UNCHANGED <<live, artifacts, queue, prompts, team, running, abortRequested, promise,
                 locals, aborting, lastReason, wake>>

\* The aborted run is over; a preparation that threw rejects the shutdown.
ShutdownDrained(c) ==
  /\ pc[c] = "draining" /\ InFlight = {}
  /\ shutdownCalled' = (shutdownCalled \/ ~running)
  /\ Goto(c, "releasing")
  /\ UNCHANGED <<live, artifacts, status, queue, prompts, team, running, abortRequested, promise,
                 locals, target, aborting, lastReason, wake>>

\* sessions.delete; the turn that threw rejects.
ShutdownReleases(c) ==
  /\ pc[c] = "releasing"
  /\ live' = FALSE
  /\ \/ c \in Turn /\ Rejects(c)
     \/ c = Stopper /\ Goto(c, "none") /\ UNCHANGED <<queue, locals, wake>>
  /\ UNCHANGED <<artifacts, status, prompts, team, agent, target, aborting, lastReason>>

-----------------------------------------------------------------------------
(* The lead's teammates, as trackTeamRunState sees them.                    *)

TeamRunStarts(t, r) ==
  /\ pc[t] = "run"
  /\ r \notin started
  /\ started' = started \cup {r}
  /\ active' = active \cup {r}
  /\ UNCHANGED <<live, artifacts, status, queue, prompts, updates, agent, call>>

\* Variant: the update is stored without a word to the turn that waits.
SilentUpdate == UNCHANGED pc

NotifyWaiters == WakeSleepers(Stopper, pc[Stopper])

TeamRunEnds(r) ==
  /\ r \in active
  /\ active' = active \ {r}
  /\ updates' = updates \cup {r}
  /\ NotifyWaiters
  /\ UNCHANGED <<live, artifacts, status, queue, prompts, started, agent, locals, target,
                 aborting, lastReason, wake>>

-----------------------------------------------------------------------------

Progress(t) ==
  \/ Prepared(t) \/ MarkedRunning(t) \/ SetupDone(t)
  \/ \E why \in {"completed", "error", "aborted"} : RunEnds(t, why)
  \/ Settle(t) \/ MarkedIdle(t) \/ Thrown(t)

Fails(t) == SetupThrows(t) \/ StoreThrows(t) \/ ResultLost(t) \/ IdleThrows(t)

Shutdown(c) == ShutdownMarked(c) \/ ShutdownDrained(c) \/ ShutdownReleases(c)

Caller ==
  \/ \E t \in Turn : SendStarts(t)
  \/ \E text \in Text : SendQueued(text)
  \/ \E text \in Text, d \in Deliveries : EnqueuePrompt(text, d)
  \/ \E i \in DOMAIN queue, text \in Text, d \in Deliveries : UpdatePrompt(i, text, d)
  \/ \E i \in DOMAIN queue : DeletePrompt(i)
  \/ Abort
  \/ \E aborts \in BOOLEAN : Stop(aborts)

Next ==
  \/ Caller
  \/ \E t \in Turn : Drain(t) \/ Progress(t) \/ ConsumeSteer(t) \/ Fails(t)
  \/ \E c \in Call : Shutdown(c)
  \/ \E t \in Turn, r \in TeamRun : TeamRunStarts(t, r)
  \/ \E r \in TeamRun : TeamRunEnds(r)

\* Microtasks and storage calls return, a model ends its run, a teammate its own.
Runs ==
  \/ \E t \in Turn : Drain(t) \/ Progress(t)
  \/ \E c \in Call : Shutdown(c)
  \/ \E r \in TeamRun : TeamRunEnds(r)

\* What is under way is finite, so that fairness to all of it together starves none.
Fairness == WF_vars(Runs)

Spec == Init /\ [][Next]_vars /\ Fairness

-----------------------------------------------------------------------------
(* Properties.                                                              *)

\* Drains scheduled from every side (enqueue, edits, ends of turns) never overlap: one
\* waiting prompt at a time is on its way to the agent, for as long as the flag says so.
OneDrainAtATime ==
  Cardinality({t \in Turns : origin[t] = "drain"}) = IF draining THEN 1 ELSE 0

\* Repeated prompts, edits and promotions in any order leave steer prompts in front of
\* queued ones, so that a drain never lets a queued prompt overtake a steer, until drain()
\* puts one back on the list of a session that lives on.
SteersFirst == live /\ ~putBack => Prioritised(queue)

\* From an abort until the turn it cut short has returned no prompt is in the list, whoever
\* enqueues, edits or drains meanwhile, but the one of a drain that failed since.  (A prompt
\* that drain() had taken before the abort may still run: the list says nothing of it.)
AbortingHoldsPutBackOnly ==
  live /\ aborting /\ pc[Stopper] = "none" =>
    queue = <<>> \/ (Len(queue) = 1 /\ putBack /\ ~draining)

\* A turn that sleeps until teammates report has a teammate that still will: no update
\* arrives between its look at the list and its sleep unnoticed.
SleepersHaveWork == (\E t \in Turn : pc[t] = "asleep") => active # {}

\* Nothing is left to start what waits: the turn a caller sent failed or was aborted, an
\* aborted one could not be marked idle and left the session aborting, or the agent's
\* preparation threw.
Stalled == unserved \/ aborting \/ (running /\ InFlight = {})

\* A prompt never waits in a live session where no turn and no drain is under way, except
\* behind such a turn.  (Of an aborting session AbortingHoldsPutBackOnly says what waits.)
NoSilentStall ==
  live /\ queue # <<>> /\ Turns = {} /\ drains = 0 /\ pc[Stopper] = "none" => Stalled

\* Once callers send nothing more, every turn returns and every stop finishes (turns that
\* wait for teammates, shutdowns that wait for runs), and all that waited was taken, unless
\* the session ended or stalled.
ComesToRest ==
  <>[](/\ \A c \in Call : pc[c] = "none"
       /\ live /\ queue # <<>> => Stalled)

\* A prompt sent without a delivery while another turn keeps the session running waits for
\* that turn (packages/core/src/runtime/host/local-runtime-host.test.ts:3727).
SendsQueueBehindTurn ==
  [][\A t \in Turn : pc[t] = "none" /\ pc'[t] = "preparing" /\ origin'[t] = "caller"
       => ~(status = "running" /\ Turns # {})]_vars

=============================================================================
