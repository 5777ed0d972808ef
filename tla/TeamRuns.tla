------------------------------ MODULE TeamRuns ------------------------------
(***************************************************************************)
(* The delegated runs of an agent team                                     *)
(* (packages/core/src/extensions/tools/team/multi-agent.ts): the queue of  *)
(* async runs with its priorities, retries and backoff timer, the          *)
(* teammates that execute them, the lead's sync calls, cancellation,       *)
(* shutdown and respawn of teammates, the restart that recovers persisted  *)
(* runs, and the ids the lead's session keeps of the runs it must wait for *)
(* (session/team/team-session-coordinator.ts).  All of it is one JavaScript*)
(* thread: a step is what runs between two awaits.                         *)
(***************************************************************************)
EXTENDS Integers, FiniteSets, SequencesExt

CONSTANTS
  Agent,         \* teammate ids
  Run,           \* run ids; their numbers are the order of creation
  AgentOf,       \* the teammate a run is for
  Priority,      \* priority of a run
  MaxRetries,    \* maxRetries of a run
  MaxConcurrent, \* maxConcurrentRuns
  MaxRestarts    \* bound: crashes of the lead's process

ASSUME TeamRunsAssumption ==
  /\ Run \subseteq Nat /\ IsFiniteSet(Run)
  /\ AgentOf \in [Run -> Agent]
  /\ Priority \in [Run -> Nat]
  /\ MaxRetries \in [Run -> Nat]
  /\ MaxConcurrent \in Nat \ {0}
  /\ MaxRestarts \in Nat

VARIABLES
  run,        \* TeamRunRecord, where its executeQueuedRun stands, its result
  queue,      \* runQueue
  timer,      \* queuedRunDispatchTimer is set
  member,     \* TeamMemberState of a teammate and the SessionRuntime behind it
  sync,       \* the lead awaits a sync routeToTeammate to this teammate
  specs,      \* persisted teammate specs, respawned after a restart
  active,     \* activeTeamRunIds of the lead's session
  untracked,  \* history: runs that became live without an event the session saw
  restarts

vars == <<run, queue, timer, member, sync, specs, active, untracked, restarts>>

Settled == {"completed", "failed", "cancelled", "interrupted"}
\* "new" before startTeammateRun, "gone" once cleanup dropped the record.
Statuses == {"new", "queued", "running", "gone"} \cup Settled

\* exec: "rejected" until the rejection of routeToTeammate is handled.  reason: whether
\* the agent's abort or anything else ended the run that fulfilled.
Records == [status : Statuses, retries : Nat, due : BOOLEAN,
            exec : {"none", "working", "rejected"},
            reason : {"none", "finished", "aborted"}]

Members == [status : {"none", "idle", "running", "stopped"}, agent : BOOLEAN,
            count : Nat, busy : BOOLEAN, aborted : BOOLEAN]

NoMember == [status |-> "none", agent |-> FALSE, count |-> 0, busy |-> FALSE,
             aborted |-> FALSE]

Spawned == [NoMember EXCEPT !.status = "idle", !.agent = TRUE]

\* Every record keeps its type: no run leaves the statuses of TeamRunStatus.
TypeOK ==
  /\ run \in [Run -> Records]
  /\ queue \in Seq(Run)
  /\ timer \in BOOLEAN
  /\ member \in [Agent -> Members]
  /\ sync \in [Agent -> BOOLEAN]
  /\ specs \in SUBSET Agent
  /\ active \in SUBSET Run
  /\ untracked \in SUBSET Run
  /\ restarts \in Nat

Init ==
  /\ run = [r \in Run |-> [status |-> "new", retries |-> 0, due |-> TRUE,
                           exec |-> "none", reason |-> "none"]]
  /\ queue = <<>>
  /\ timer = FALSE
  /\ member = [a \in Agent |-> NoMember]
  /\ sync = [a \in Agent |-> FALSE]
  /\ specs = {} /\ active = {} /\ untracked = {}
  /\ restarts = 0

-----------------------------------------------------------------------------
(* Dispatching.                                                             *)

Live(record) == record.status \in {"queued", "running"}

WithStatus(runs, s) == {r \in DOMAIN runs : runs[r].status = s}

\* A set of numbers as a sequence in ascending order.  By ranks and not by SortSeq and
\* SelectSeq, whose recursion proofs cannot use.
InOrder(S) ==
  [j \in 1..Cardinality(S) |->
     CHOOSE n \in S : Cardinality({k \in S : k <= n}) = j]

\* The queue with runs taken out.
Without(q, runs) ==
  LET kept == InOrder({i \in DOMAIN q : q[i] \notin runs}) IN
  [j \in DOMAIN kept |-> q[kept[j]]]

Place(q, r) == CHOOSE i \in DOMAIN q : q[i] = r

Capacity(runs) == MaxConcurrent - Cardinality(WithStatus(runs, "running"))

Dispatchable(runs, q) ==
  {r \in ToSet(q) : runs[r].status = "queued" /\ runs[r].due}

\* selectNextDispatchableQueuedRun takes the highest priority, of equals the first.
Before(q, x, r) ==
  \/ Priority[x] > Priority[r]
  \/ Priority[x] = Priority[r] /\ Place(q, x) < Place(q, r)

\* The runs the loop of dispatchQueuedRuns starts.
Picks(runs, q) ==
  {r \in Dispatchable(runs, q) :
     Cardinality({x \in Dispatchable(runs, q) : Before(q, x, r)}) < Capacity(runs)}

\* routeToTeammate: the teammate has an agent and its canStartRun() holds.
Routable(m) == m.agent /\ ~m.busy

\* Variant: runningCount++ is forgotten.
EngagedUncounted(m) ==
  [status |-> "running", agent |-> m.agent, count |-> m.count, busy |-> TRUE, aborted |-> FALSE]

\* runningCount++, and the agent's run, which forgets an earlier abort.
Engaged(m) ==
  [status |-> "running", agent |-> m.agent, count |-> m.count + 1, busy |-> TRUE,
   aborted |-> FALSE]

\* The first pick of a teammate gets it; the others find it busy.
Accepted(runs, q, mem) ==
  {r \in Picks(runs, q) :
     /\ Routable(mem[AgentOf[r]])
     /\ \A x \in Picks(runs, q) : AgentOf[x] = AgentOf[r] => ~Before(q, x, r)}

Delayed(runs, q) == {r \in ToSet(q) : runs[r].status = "queued" /\ ~runs[r].due}

\* The loop was entered and its last selection saw a run that backs off.
Armed(runs, q) == Capacity(runs) > 0 /\ Delayed(runs, q) # {}

Started(record, exec) ==
  [status |-> "running", retries |-> record.retries, due |-> TRUE, exec |-> exec,
   reason |-> "none"]

\* dispatchQueuedRuns with executeQueuedRun up to its first await.
Dispatch(runs, q, mem) ==
  /\ run' = [r \in Run |->
       IF r \notin Picks(runs, q) THEN runs[r]
       ELSE Started(runs[r], IF r \in Accepted(runs, q, mem) THEN "working" ELSE "rejected")]
  /\ queue' = Without(q, Picks(runs, q))
  /\ timer' = Armed(runs, q)
  /\ member' = [a \in Agent |->
       IF \E r \in Accepted(runs, q, mem) : AgentOf[r] = a THEN Engaged(mem[a])
       ELSE mem[a]]

\* RunStarted and RunQueued put an id into activeTeamRunIds.
Heard(runs, q, ids) == active' = ids \cup Picks(runs, q)

\* The rejection of an async call is handled before anything else happens.
Quiet == \A r \in Run : run[r].exec # "rejected"

-----------------------------------------------------------------------------
(* Teammates.                                                               *)

\* Variant: a teammate that was shut down may be replaced at once.
NotRunningStatus(a) == member[a].status # "running"

Respawnable(a) == member[a].count = 0

SpawnTeammate(a) ==
  /\ Quiet /\ Respawnable(a)
  /\ member' = [member EXCEPT ![a] = Spawned]
  /\ specs' = specs \cup {a}
  /\ UNCHANGED <<run, queue, timer, sync, active, untracked, restarts>>

\* Its agent is told to abort but kept: a queued run may still start it.  A reason that
\* is not one of the runtime's lifecycle reasons also drops the spec.
ShutdownTeammate(a, forGood) ==
  /\ Quiet /\ member[a].status # "none"
  /\ member' = [member EXCEPT ![a].status = "stopped", ![a].aborted = member[a].agent]
  /\ specs' = IF forGood THEN specs \ {a} ELSE specs
  /\ UNCHANGED <<run, queue, timer, sync, active, untracked, restarts>>

\* The finally of routeToTeammate.  A run whose setup threw leaves the agent's running
\* flag behind.
Released(m, stuck) ==
  [status |-> IF m.count <= 1 /\ m.status # "stopped" THEN "idle" ELSE m.status,
   agent |-> m.agent, count |-> m.count - 1, busy |-> stuck, aborted |-> FALSE]

\* team_run_task in sync mode; a second call for the teammate joins the first.
RouteSync(a) ==
  /\ Quiet /\ ~sync[a] /\ Routable(member[a])
  /\ sync' = [sync EXCEPT ![a] = TRUE]
  /\ member' = [member EXCEPT ![a] = Engaged(@)]
  /\ UNCHANGED <<run, queue, timer, specs, active, untracked, restarts>>

SyncEnds(a) ==
  /\ Quiet /\ sync[a]
  /\ sync' = [sync EXCEPT ![a] = FALSE]
  /\ \E stuck \in BOOLEAN : member' = [member EXCEPT ![a] = Released(@, stuck)]
  /\ UNCHANGED <<run, queue, timer, specs, active, untracked, restarts>>

-----------------------------------------------------------------------------
(* Runs.                                                                    *)

StartTeammateRun(r) ==
  /\ Quiet /\ run[r].status = "new"
  /\ \A x \in Run : x < r => run[x].status # "new"
  /\ LET runs == [run EXCEPT ![r].status = "queued"] IN
     /\ Dispatch(runs, Append(queue, r), member)
     /\ Heard(runs, Append(queue, r), active \cup {r})
  /\ UNCHANGED <<sync, specs, untracked, restarts>>

\* Variant: the finally of executeQueuedRun forgets to dispatch.
SettleWithoutDispatch(runs, q, mem, ids) ==
  /\ run' = runs /\ queue' = q /\ member' = mem /\ active' = ids
  /\ UNCHANGED timer

\* The finally of executeQueuedRun.
SettleAndDispatch(runs, q, mem, ids) == Dispatch(runs, q, mem) /\ Heard(runs, q, ids)

\* The agent's promise is fulfilled, whatever became of its run: the agent runtime
\* reports an abort or a failed model by the finish reason of its result.
Finishes(r, why) ==
  LET a == AgentOf[r] IN
  /\ run[r].exec = "working"
  /\ why = "aborted" => member[a].aborted
  /\ SettleAndDispatch([run EXCEPT ![r].exec = "none", ![r].status = "completed",
                                   ![r].reason = why],
                       queue, [member EXCEPT ![a] = Released(@, FALSE)], active \ {r})
  /\ UNCHANGED <<sync, specs, untracked, restarts>>

\* isIntentionalShutdownAbort
ShutdownAbort(a, abortLike) == member[a].status = "stopped" /\ abortLike

\* queued again, due after the back-off
Retried(record) ==
  [status |-> "queued", retries |-> record.retries + 1, due |-> FALSE, exec |-> "none",
   reason |-> record.reason]

RetriesLeft(r) == run[r].retries < MaxRetries[r]

\* The catch block of executeQueuedRun.  A retry is announced as progress only.
Caught(r, abortLike, mem) ==
  LET a == AgentOf[r]
      To(status) == [run EXCEPT ![r].exec = "none", ![r].status = status] IN
  /\ \/ /\ ShutdownAbort(a, abortLike)
        /\ SettleAndDispatch(To("cancelled"), queue, mem, active \ {r})
        /\ UNCHANGED untracked
     \/ /\ ~ShutdownAbort(a, abortLike) /\ RetriesLeft(r)
        /\ SettleAndDispatch([run EXCEPT ![r] = Retried(@)], Append(queue, r), mem, active)
        /\ untracked' = IF r \in active THEN untracked ELSE untracked \cup {r}
     \/ /\ ~ShutdownAbort(a, abortLike) /\ ~RetriesLeft(r)
        /\ SettleAndDispatch(To("failed"), queue, mem, active \ {r})
        /\ UNCHANGED untracked
  /\ UNCHANGED <<sync, specs, restarts>>

\* The agent's promise is rejected: its setup or one of its hooks threw.
Rejects(r) ==
  LET a == AgentOf[r] IN
  /\ run[r].exec = "working"
  /\ \E stuck \in BOOLEAN, abortLike \in {FALSE, member[a].aborted} :
       Caught(r, abortLike, [member EXCEPT ![a] = Released(@, stuck)])

\* routeToTeammate threw: there is no such teammate, or it is busy.
Refused(r) == run[r].exec = "rejected" /\ Caught(r, FALSE, member)

\* Variant: a settled run is cancelled as well.
NotNew(r) == run[r].status # "new"

Cancellable(r) == run[r].status \in {"queued", "running", "interrupted"}

\* Variant: RunCancelled is not among the events the session listens to.
CancelUnheard(r) ==
  /\ Quiet /\ Cancellable(r)
  /\ run' = [run EXCEPT ![r].status = "cancelled"]
  /\ queue' = Without(queue, {r})
  /\ UNCHANGED <<active, timer, member, sync, specs, untracked, restarts>>

\* The teammate goes on working, and nothing is dispatched in the run's place.
CancelRun(r) ==
  /\ Quiet /\ Cancellable(r)
  /\ run' = [run EXCEPT ![r].status = "cancelled"]
  /\ queue' = Without(queue, {r})
  /\ active' = active \ {r}
  /\ UNCHANGED <<timer, member, sync, specs, untracked, restarts>>

BackoffPasses(r) ==
  /\ Quiet /\ run[r].status = "queued" /\ ~run[r].due
  /\ run' = [run EXCEPT ![r].due = TRUE]
  /\ UNCHANGED <<queue, timer, member, sync, specs, active, untracked, restarts>>

TimerFires ==
  /\ Quiet /\ timer
  /\ Dispatch(run, queue, member)
  /\ Heard(run, queue, active)
  /\ UNCHANGED <<sync, specs, untracked, restarts>>

\* Variant: cleanup looks at the async runs only.
NoLiveRun == \A r \in Run : ~Live(run[r])

CleanupAllowed ==
  /\ \A a \in Agent : member[a].count = 0
  /\ \A r \in Run : ~Live(run[r])

Cleanup ==
  /\ Quiet /\ CleanupAllowed
  /\ \E a \in Agent : member[a].status # "none"
  /\ run' = [r \in Run |-> IF run[r].status = "new" THEN run[r]
                           ELSE [run[r] EXCEPT !.status = "gone"]]
  /\ queue' = <<>> /\ timer' = FALSE
  /\ member' = [a \in Agent |-> NoMember]
  /\ UNCHANGED <<sync, specs, active, untracked, restarts>>

-----------------------------------------------------------------------------
(* Restart of the lead's process.                                           *)

\* hydrateState drops the agents, bootstrapAgentTeams respawns the specs.
Restored ==
  [a \in Agent |-> IF a \in specs THEN Spawned
                   ELSE IF member[a].status = "none" THEN NoMember
                   ELSE [NoMember EXCEPT !.status = "stopped"]]

\* recoverActiveRuns: queued or running, and its teammate was respawned.
Recovered(r) == Live(run[r]) /\ AgentOf[r] \in specs

\* The runs are persisted with every event.  recoverActiveRuns queues the live ones
\* again while the session is still being built: nobody hears of it.
Restart ==
  LET runs == [r \in Run |->
        IF Recovered(r) THEN [run[r] EXCEPT !.status = "queued", !.exec = "none"]
        ELSE IF Live(run[r]) THEN [run[r] EXCEPT !.status = "interrupted", !.exec = "none"]
        ELSE [run[r] EXCEPT !.exec = "none"]]
      q == InOrder(WithStatus(run, "queued"))
             \o InOrder({r \in WithStatus(run, "running") : Recovered(r)})
  IN
  /\ Quiet /\ restarts < MaxRestarts
  /\ restarts' = restarts + 1
  /\ Dispatch(runs, q, Restored)
  /\ sync' = [a \in Agent |-> FALSE]
  /\ active' = {}
  /\ untracked' = {r \in Run : Recovered(r)}
  /\ UNCHANGED specs

-----------------------------------------------------------------------------
Next ==
  \/ \E a \in Agent : \/ SpawnTeammate(a) \/ RouteSync(a) \/ SyncEnds(a)
                      \/ \E forGood \in BOOLEAN : ShutdownTeammate(a, forGood)
  \/ \E r \in Run : \/ StartTeammateRun(r) \/ Refused(r) \/ CancelRun(r) \/ BackoffPasses(r)
                    \/ Quiet /\ Rejects(r)
                    \/ \E why \in {"finished", "aborted"} : Quiet /\ Finishes(r, why)
  \/ TimerFires \/ Cleanup \/ Restart

\* An agent's run ends.  Only maxIterations, where it is set, bounds the iterations of a
\* teammate (delegated-agent.ts:113); without it that its model stops is an assumption.
\* Timers fire, microtasks run.
Ends(r) == Quiet /\ (Rejects(r) \/ \E why \in {"finished", "aborted"} : Finishes(r, why))

Fairness ==
  /\ \A r \in Run : WF_vars(Refused(r)) /\ WF_vars(BackoffPasses(r)) /\ WF_vars(Ends(r))
  /\ WF_vars(TimerFires)

SafeTeamSpec == Init /\ [][Next]_vars

TeamSpec == SafeTeamSpec /\ Fairness

-----------------------------------------------------------------------------
(* Properties.                                                              *)

Working(a) == {r \in Run : AgentOf[r] = a /\ run[r].exec = "working"}

\* No teammate is ever given a second prompt while it works on one, by the queue, by a
\* sync call, after a shutdown, a respawn or a cancellation; and runningCount, which
\* guards respawn and cleanup, counts what is under way.
NoDoubleBooking ==
  \A a \in Agent :
    /\ member[a].count = Cardinality(Working(a)) + (IF sync[a] THEN 1 ELSE 0)
    /\ member[a].count <= 1
    /\ member[a].count = 1 => member[a].busy

\* A run that waits is in the queue, once, and something will look at the queue again:
\* the timer, or the end of an execution, a cancelled one included.
NobodyForgotten ==
  \A r \in WithStatus(run, "queued") :
    /\ Cardinality({i \in DOMAIN queue : queue[i] = r}) = 1
    /\ timer \/ \E x \in Run : run[x].exec # "none"

\* The ids the session waits for are live runs, and it knows every live run but those
\* it never heard of: the recovered ones, and cancelled ones that were retried.
SessionTracksRuns ==
  /\ \A r \in active : Live(run[r])
  /\ \A r \in Run : Live(run[r]) => r \in active \/ r \in untracked

\* Nothing that was cleaned up is still being executed.
CleanupLeavesNothing == \A r \in Run : run[r].status = "gone" => run[r].exec = "none"

\* A completed or failed run stays so, and a cancelled one whose execution is over.
SettledStays ==
  [][\A r \in Run :
       \/ run[r].status \in {"completed", "failed"}
       \/ run[r].status = "cancelled" /\ run[r].exec = "none"
       => run'[r].status \in {run[r].status, "gone"}]_vars

\* Every run that is started is settled in the end, however often it is retried, its
\* teammate shut down or the process restarted: what team_await_runs polls for.
RunsSettle ==
  \A r \in Run : Live(run[r]) ~> ~Live(run[r])

\* multi-agent.lifecycle.test.ts:212: "marks an active queued run as cancelled when
\* teammate shutdown aborts it".  Only a shutdown aborts a teammate.
AbortedIsCancelled ==
  \A r \in Run : run[r].reason = "aborted" => run[r].status \in {"cancelled", "gone"}

=============================================================================
