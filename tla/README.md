# Formal models of Zenuxs AI Agent

TLA+ models of the scheduling, session, team and agent-loop core of this
repository, checked with TLC and proved about with TLAPS: every safety property
that a passing run checks is a theorem. Paths below are relative to the repository's
root; `cron/` stands for `packages/core/src/cron/`.

## 1. Inventory of the system

The repository is a monorepo: the engine of an agent (`packages/core`,
`packages/agents`, `packages/engine`, `packages/llms`, ...), and applications
over it (`apps/cli`, an editor extension, a hub, chat connectors). The parts that
keep state and can go wrong in an order nobody tested are these.

| Component | State | Operations | Interacts with | Hard behaviour | Correct means |
|---|---|---|---|---|---|
| Run queue and runner (`cron/store`, `cron/runner`) | `cron_runs` in SQLite; per runner `started`, `stopping`, `ticking`, the interval, `activeRuns`, the limiter | enqueue, claim, renew, complete, requeue, cancel; start, tick, executeClaim, stop, dispose | several processes on one `cron.db`; sessions through runtime handlers | leases that lapse under a live owner, stop during a run, crash, failed report write | a claim has one owner, an outcome is final, every run is settled, limits hold |
| Specs: reconciler, watcher, materializer (`cron/specs`, `cron/runner`, `cron/service`) | the directory, `cron_specs`, debounce timers | reconcileAll, reconcileFile, materializeAll, start, stop | file system, the run queue, hub schedules in the same table | scans racing edits, two services materializing, downtime over slots | the table mirrors the directory, one run per revision or slot, one catch-up |
| Hub schedules (`cron/service/schedule-service.ts`) | rows of `cron_specs` with source `hub-schedule` | create, update, pause, resume, delete, trigger | run queue, reconciler | two-statement updates | a schedule lives until it is deleted |
| Event ingress (`cron/events`) | `cron_event_log`, debounced runs | ingestEvent | run queue | redelivery, debounce racing a claim, windows | an event leads to a run or to a recorded suppression |
| Cron expressions (`cron/schedule`) | none | getNextCronTime | specs | calendar search, time zones | first matching minute after an instant |
| Pending prompts (`runtime/turn-queue`) | `pendingPrompts`, `aborting`, `drainingPendingPrompts` | enqueue, update, steer, drain, clear | session host, agent | drain racing abort and steer, failed send | order kept, nothing lost or stuck |
| Engine input queue (`packages/engine/src/session`) | inputs with `processed` | enqueue, next, steer, purge | engine session | bound counts processed entries | bounded, no lost input |
| Team runs (`extensions/tools/team/multi-agent.ts`) | `runs`, `runQueue`, members, timers | start, dispatch, execute, cancel, recover, interrupt | teammates' agents | cancel or recover while a teammate works, retry with back-off | a terminal run stays so, one execution at a time |
| Team tasks, outcomes, mailbox (same file) | tasks, fragments, outcomes, messages | create, claim, block, complete; review, finalize | teammates | claims of claimed tasks, review after finalize | dependencies first, a finalized outcome is reviewed |
| Hub server and client (`hub/server`, `hub/client`) | clients, sessions, approvals, capability requests | commands, approvals, events | UI clients, sessions | disconnect with a request pending, late answers, reconnection | every request is answered exactly once |
| Agent loop (`packages/agents/src/agent-runtime.ts`) | messages, iteration, tool calls, abort | run, abort, continue | models, tools | abort between tool calls, hooks | every tool call has a result |
| Safety (`runtime/safety`), sandbox and OAuth (`runtime/tools`) | counters; pending calls of a child; one refresh in flight | check; call, time out; refresh | tools, child process | late answers after a time-out | no answer delivered twice |
| Session store and versions (`core/src/session`) | files on disk | save, checkpoint, restore | file system | crash between two files | a restart sees a whole version |
| Providers, schemas, user interfaces | requests, rendering | | third parties | I/O and formatting | not modelled |

`PROJECT.json` lists every component with its status, and the hazards with the
properties that cover them.

### How the modelled parts work together

A hub daemon opens one `cron.db` twice, in a `CronService` (files) and a
`HubScheduleService` (programmatic schedules), each with a `CronRunner` of its
own (`hub/server/hub-server-transport.ts:217-247`); a CLI may open a third. Specs
become rows of `cron_specs` (a directory scan, a watcher event, a hub request).
A tick inserts the runs that are due into `cron_runs`, claims every due row with
a token and a lease, and executes each claim: a limiter slot, a session, a turn
under an optional timeout with a heartbeat that renews the lease, a report file,
and an `UPDATE ... WHERE run_id = ? AND claim_token = ?`. stop() aborts the
sessions and hands the rows back. Nothing but SQLite coordinates the processes.
Events reach the same table through an ingress in each process, which queues,
postpones or suppresses runs.

A session, whoever opened it, is an `ActiveSession` of `LocalRuntimeHost`:
`runTurn` queues a prompt or starts a turn, `SessionRuntime` admits one run at a
time, and the end of a turn drains what waits. A run is one `AgentRuntime`: it
asks the model, executes the tools of the reply and asks again, until the reply
calls none. A lead's tools may delegate to teammates (`AgentTeamsRuntime`), each
with a `SessionRuntime` of its own; the lead's session keeps the ids of the
delegated runs, and its turn goes on until they are over.

## 2. Modules

| Module | Models |
|---|---|
| `RunLifecycle` | Abstract: what `cron_runs` promises about one run (waits, is granted under a new generation, handed back or settled, then final). |
| `CronQueue` | `cron_runs`, the statements of `SqliteCronStore` on it, `CronRunner`, `ResourceLimiter`, crashes. Implements `RunLifecycle`. |
| `CronQueueProofs` | The theorems about `CronQueue`. |
| `CronSpecs` | `cron_specs`, the directory, `CronReconciler`, `CronWatcher`, `CronMaterializer`, `CronService` start and stop, hub schedules. |
| `CronSpecsProofs` | The theorems about `CronSpecs`. |
| `CronEvents` | `cron_event_log`, `CronEventIngress` in several processes, over the queue as `RunLifecycle` promises it. |
| `CronEventsProofs` | The theorems about `CronEvents`. |
| `PendingPrompts` | The edits of `PendingPromptService` as operators on a list. |
| `SessionTurns` | One live interactive session: `LocalRuntimeHost`, `PendingPromptsController`, the team-session coordinator, the flags of `SessionRuntime`. Uses `PendingPrompts`. |
| `SessionTurnsProofs` | The theorems about `SessionTurns`, and the lemmas about the edits of `PendingPrompts`. |
| `TeamRuns` | The delegated runs of `AgentTeamsRuntime`, its teammates, and what the lead's session hears of them. |
| `TeamRunsProofs` | The theorems about `TeamRuns`. |
| `AgentLoop` | `AgentRuntime.execute`, its tools, hooks, listeners, `abort` and `restore`. |
| `AgentLoopProofs` | The theorems about `AgentLoop`. |
| `MC...` | The instances the `.cfg` files give to TLC. |

Operators whose comment begins with "Variant" are not part of a model: each is a
definition changed as a plausible bug would change it, and shows that a property
notices.

### CronQueue and the code

One variable per column of `cron_runs` the code decides on (`status`, `token`,
`lease`, `attempts`, `session`, and `due` for `scheduled_for <= now`), `enabled`
for the spec's row, and one per field of a runner: `mode` (`started`, `stopping`),
`pending`, `held` and `leaked` (the interval, armed after the first tick), `pc`,
`tok` and `agent` (where an `executeClaim` stands, with which token, and what its
turn is doing) and `stopTok` (what stop() will requeue once `abortSession`
returns). A token is the attempt that minted it: tokens are UUIDs in the code,
minted in the transaction that increments `attempt_count`, so attempts name them.

Each SQL statement or transaction is a step. JavaScript between two awaits is one
step of its process: `Dispatch` is `executeClaim` up to its first await, and while
a runner still has claims to dispatch (`Dispatching`) nothing else of that runner
runs, but other processes do. `Start`, `Poll` and `Trigger` contain the whole
tick: what `materializeAll` inserts (any set of insertable runs; `CronSpecs` says
which), the claim batch in order, and the hand-over to `executeClaim`.
`TurnReturns`, `TurnThrows`, `TurnTimesOut` and `AbortReturns` contain the report
write, which may throw, and the update that follows; `SessionStopped` is the
`finally` block. `Crash` loses a runner's memory and keeps the table.

The claim order is the number of a row: `ORDER BY COALESCE(scheduled_for,
created_at)` is a fixed order of the rows here.

### CronSpecs and the code

`row` is a row of `cron_specs` (`hash`, `removed`, `enabled`, `revision`, `next`),
`runs` the rows of `cron_runs` of a spec in order of insertion, each with the key
that must be unique (the revision of a one-off, the slot of a schedule) and the
time of its insertion. `work[p]` is what the event loop of service `p` has yet to
do, a queue of items each of which is a read of a file, one statement or one
transaction; several services interleave between any two items, and a crash drops
the rest. What an item read earlier travels in the item: the record
`reconcileFile` read before the file, the row `upsertSpec` computes the revision
from, the slot computed from the clock before it is written, the revisions
`materializeAll` listed. A statement that throws drops the rest of the work and,
inside `start()`, leaves the service `failed`: started, without watcher or runner.

A file says one of a few contents: a body (the fields of `MEANINGFUL_FIELD_KEYS`),
and `on`, `off` (`enabled: false`) or `bad` (does not parse). Whether an edit of the
body includes the cron expression is a choice of the step that asks. When a
cron expression is due after an instant is the constant operator `NextSlot`, assumed
to be later than the instant; the instances make every instant a slot. 0 stands for
no `next_run_at`.

### CronEvents and the code

`log` and `received` are columns of `cron_event_log`, `state`, `generation`,
`trigger` and `scheduled` those of the event runs, named by their spec and the
order of insertion. `ingest[p]` is the `ingestEvent` call of process `p`: the
statement that comes next and what earlier ones returned (`found`), so that a
claim by a runner or another ingress comes between a lookup and the `UPDATE` that
relies on it. What runners do to a run is `QueueStep`, the step of
`RunLifecycle`, which `CronQueue` is proved to implement: the ingress is composed
with what the queue promises, and its own insertions with the queue's statement.
`Matching` stands for the filters of a spec; which matching specs are enabled
is chosen when the event comes, in the step that logs it (`Deliver`). Two variables
record history, `overlapped` (two calls were once under way together) and `lost`
(events whose process died on them); `faults` is a bound.

`Spaced` speaks of the insertion of a run, not of any two queued runs: a debounce
moves a queued run to a later event without asking for the dedupe window or the
cooldown, so two runs that were inserted apart may come closer.

### SessionTurns, PendingPrompts and the code

`queue`, `aborting`, `draining`, `status`, `active`, `updates`, `lastReason` are
fields of `ActiveSession`, `running`, `abortRequested`, `shutdownCalled` and
`promise` of `SessionRuntime`. `pc` says at which await a `runTurn` call or a
`stopSession` stands, and an action is the code from one await to the next:
`Prepared` ends `prepareTurnInput` and the store, `MarkedRunning` the status
update, `SetupDone` the preparation of the agent, `RunEnds` the run, `Settle`
looks for teammates to wait for. Two awaits with nothing but microtasks between
them and no other caller's code able to run there are one. `drain()` is a
microtask, so `drains` counts scheduled ones; two stand for more, since the third
finds what the second left. Free slots of `Turn` are taken in a fixed order.

What throws goes through the catch blocks of the code. A refused run, a preparation that
fails and a result that cannot be stored leave `executeAgentTurn` through its catch,
which writes the messages first (`thrown`). `runTurn`'s catch shuts the session down as
failed, or, while it is aborting, completes the turn (`Throws`), awaiting a second idle
update there (`caught`). If that fails too, `runTurn` rejects and nothing is shut down
(`IdleThrows`): `drain()` puts its prompt back on the list of a session that lives on,
and `aborting` stays set. A failing `updateStatus` may do so before or after it has set
the status (`StatusFails`), a shutdown goes on regardless, and a session without a row
has no status to update (`StatusWritten`). What a turn then reads of the status is what
the same step has made of it (`status'`). `putBack` records that a prompt came back
since the latest abort, `unserved` that a turn ended without scheduling a drain.

### TeamRuns and the code

`run[r]` is a `TeamRunRecord` with where its `executeQueuedRun` stands, `queue` is
`runQueue`, `timer` the back-off timer, `member[a]` a `TeamMemberState` with the
runtime behind it (`busy`, `aborted`), `sync` the lead's own calls. `Dispatch`
is the whole loop of `dispatchQueuedRuns` with each `executeQueuedRun` up to its
first await; a teammate that is not there makes that call reject, a microtask
later (`Refused`). `active` is the set of run ids the lead's session tracks and
`untracked` the runs that became live without an event it saw, the recovered ones
and cancelled ones that are retried. `Restart` is the death of the lead's process,
`hydrateState` from what was persisted, the respawn of teammates and
`recoverActiveRuns`. A run that was interrupted because its teammate is gone stays
in `runQueue`, where every selection passes over it. The order of recovered runs and
what remains of a queue are defined by ranks (`InOrder`, `Without`), not by the
recursive operators of the library, which proofs cannot use.

### AgentLoop and the code

`status`, `iteration` and `controller` belong to the runtime, as in the code;
`pc`, `reply` and `tool` to one call of `execute`. `signal` holds the calls whose
controller was aborted: `throwIfAborted` asks whichever controller the runtime
has. `unanswered` is what the properties need of `state.messages`: tool calls
without a result there. A step is the code between two awaits of hooks,
listeners, the stream or tools, merged where no decision lies between them.
A tool that is skipped, unknown or fails is an error result, or, by
`recoverToolExecution`, a second try; what decides between them is left open.
Tools that run side by side go on after the run that started them is over, so their
stages outlive it. `iteration` is counted only where a limit reads it.

## 3. What the runs check

| Run | Instance | Shows |
|---|---|---|
| `claims` | 1 run, 2 runners in symmetric roles, `Timely` false, 3 attempts, 2 faults | Types; tokens match statuses; no two runners hold one claim; a stopped runner owns nothing; outcomes are final; only the holder of the current token releases a row; `CronQueue` implements `RunLifecycle`. |
| `settles` | 2 runs of one spec with `max_parallel` 1, 1 runner, `Timely` true, 2 faults | The limits hold; under fairness every queued run reaches an outcome. |
| `stop` | as `claims`, one stop | Finding 1. |
| `reconcile` | 1 service, a one-off and a schedule, 4 contents, 3 edits, 1 crash, clock 0..2 | Once edits and crashes end, the table mirrors the directory and what follows is queued; a due slot is not dropped by a restart; an overdue schedule is caught up once. |
| `materialize` | 2 services, a one-off, a schedule file and a hub schedule, 2 edits, clock 0..2 | No revision and no slot is queued twice, whatever the interleaving of two ticks, scans and requests. |
| `hub` | 1 service, a hub schedule and a schedule file, 1 crash | Finding 2. |
| `events` | 2 ingresses in symmetric roles, 3 events of two groups, a spec with debounce and dedupe window and one with a cooldown, clock 0..2, 1 fault | A spec has at most one run per event; calls that do not overlap insert no run inside a window; the log tells what became of an event and is settled unless the process died; a claimed run keeps its event; a debounce only postpones. |
| `turns` | 2 overlapping turns, 2 prompts of 2 texts, 1 teammate run, abort, stop; status updates, results, preparations and messages fail anywhere | Drains never overlap; steer prompts stay in front until a failed drain puts its prompt back; an aborting session's list holds at most that one; a turn asleep has a teammate to wake it; no prompt waits in silence; all comes to rest. |
| `sends` | as `turns`, no faults | Finding 3. |
| `team` | 2 teammates, 2 runs of unequal priority and retries, 1 at a time, 1 restart | No teammate works on two prompts; a waiting run is found again; the session's ids are those of live runs; cleanup drops nothing in progress; settled runs stay; all runs settle. |
| `team_shutdown` | as `team`, no restart | Finding 4. |
| `loop` | 2 runs, replies of up to 2 tool calls; sequential without limit, parallel with a limit of 1; hooks and listeners stop or throw anywhere | No request has an unanswered call of its run; a run ends once; an aborted run starts no tool and returns. |

Deadlock is not checked: with its bounded faults and edits used up and nothing
left to do, each system may rest.

### Bounds

`MaxFaults`, `MaxAttempts` (lapses of leases under a live owner and polls of a
stopped runner whose interval is still armed), `MaxEdits`, `MaxCrashes` and
`MaxTime` are guards on otherwise unbounded actions and are named in the modules.
One run is enough for `claims`: its properties speak of one run at a time and of
the runners that contend for it, two of them, with enough attempts (3) for a lost
claim, a re-claim and a second loss, and enough faults for a stop and a crash of
the other runner. Limits need two runs; with `max_parallel` 1 the second claim of
a tick is refused. In `events` three events are the least that give a group
two and another group one, and two units of time separate inside a window, at its
edge and beyond. In `turns` two turns are as many as can pass the check of
`runTurn` together with a drain, and a second prompt is what a drain or an abort
finds waiting. (It takes a third to put a queued prompt back in front of a steer, which
is why `SteersFirst` ends with `putBack`; the proof covers any number.) In `team` one place for two runs makes one wait, back off behind the
other and be found by its end; the safety properties also hold of three runs with
two places (1.6 million states, not among the runs). In `loop` a second tool
is what an abort separates from the first, and a second run what a first one may
leave the runtime unable to take; a limit of one ends a run at its limit. In `reconcile` three edits give creation, change or deletion,
and restoration; two units of time make a schedule overdue by more than one slot.
The theorems hold for any value of the bounds.

### Assumptions of timing

`Timely` (CronQueue): a heartbeat runs before its lease ends. `claims` does
without it, so leases lapse at any time, also under a live owner; `settles` needs
it, because a lease that lapses before every completion settles nothing.
`Prompt` (CronSpecs): no slot comes due between the moment a `next_run_at` is
computed and its write a few instructions later. `reconcile` does without it;
`materialize` assumes it. It is a real assumption: with `Prompt` false TLC finds
a slot queued twice, because `applyScheduleNextRunAt` writes the slot it computed
after another process has already fired it.

### Fairness and why the code justifies it

CronQueue: polling (`setInterval`), dispatching and every await of
`executeClaim` make progress (weak fairness): `startSession`, `abortSession` and
`stopSession` settle, a turn of a spec with `timeoutSeconds` ends at the latest by
its timer, a turn without is assumed to end. Time passes, so debounced runs come
due and lost leases lapse. Processes that stop or die are brought up again: the
daemon is restarted on demand. Faults get no fairness. CronSpecs: a service runs
the work it has, starts again after it went down, and a debounce timer that is
armed whenever the event loop comes back to it fires in the end (strong fairness
of `Watch`: other callbacks may come first, timers run in the order of their
expiry). Ticks and time get no fairness; `Converges` does not need them.
CronEvents states safety only.

SessionTurns: microtasks and storage calls return and runs of agents and teammates
end; their number is bounded by the prompts, so weak fairness to all of it
together (`Runs`) is enough. Callers, aborts and faults get none. TeamRuns: microtasks
run, timers fire, back-off passes, an agent's run ends. The last is the code's only
where `maxIterations` is set (`delegated-agent.ts:113`); without it that a teammate's
model stops is assumed.
AgentLoop: hooks and listeners return, approvals are answered, and streams and tools
end, at the latest when their signal is aborted, which is what they get it for;
nothing says that the model ever stops calling tools, and `AbortedRunsReturn` holds
without.

## 4. What is proved

`CronQueueProofs` proves for every set of runs, runners and specs, every limit and
both values of `Timely`, from `CronQueueAssumption` (the runs are a finite set of
numbers, every limit is at least 1):

| Theorem | Statement |
|---|---|
| `Invariance` | `SafeSpec => []QueueInv` |
| `TypeCorrect`, `TokensMatch`, `Exclusive` | `TypeOK`, `TokenMatchesStatus`, `ClaimsDistinct` always hold |
| `OutcomesFinal`, `HolderSettles` | the action properties `OutcomeIsFinal`, `OnlyHolderSettles` |
| `Implements` | `CronQueue` implements `RunLifecycle` |
| `Limits` | `LimitsRespected` always holds |
| `StoppedOwnsNothing` | `StoppedRunnerOwnsNothing` always holds |

The argument. `ClaimsDistinct` alone is not inductive: a tick could mint a token
somebody still holds. `QueueInv` adds that a claim in progress has a token and
that no token in anybody's hands exceeds the run's attempts (`ClaimsBounded`), and
that a row has a token exactly while it is running (`TokenMatchesStatus`). A tick
mints `attempts + 1`, which is therefore new to every runner; every other step
mints nothing and lets no runner hold a token it did not hold (`Preserved`), and
the store's statements keep token, lease and status together (`RequeueOK`,
`CompleteOK`, `ClaimOK`). The action properties and the refinement follow from one
lemma on what a step may do to one row (`RowSteps`): a statement guarded by a held
token selects that row only while the token is current, and such a row is
running. `Limits` rests on `ActiveSteps` (only a dispatch that found capacity adds
an active run, and one only) and on facts about cardinalities (`Counts`).
`StoppedOwnsNothing` needs one more inductive invariant, about the claims a stop()
has not handed back yet.

`CronSpecsProofs` proves for any finite set of paths of any kinds, any services and
contents, any edits and crashes up to their bounds, and any `NextSlot`, from
`CronSpecsAssumption`:

| Theorem | Statement |
|---|---|
| `Invariance` | `SafeSpec => []SpecsInv` |
| `TypeCorrect` | `TypeOK` always holds, the items of every service's work included |
| `OneOffsRunOnce` | `OneRunPerRevision` always holds, whatever `Prompt` is |
| `CaughtUpOnce`, `KeysRunOnce` | with `Prompt`, or with one service, `CatchUpOnce` and `OneRunPerKey` always hold |
| `OverdueNotLost` | with one service, `OverdueKept`, whatever `Prompt` is |

The argument. That a schedule's runs have increasing keys is not inductive: it needs
that `next_run_at` is later than the insertion of every run the schedule has
(`SlotsAhead`), and that in turn needs that a slot on its way to the table has not
come yet, wherever it waits. `SlotFirst` says so of each queue of work: an item that
writes a slot is the first one, so that `Prompt` (time does not pass while one is at
a head) protects it. `BecomesOK` shows once that a step keeps this when it replaces
the head of a queue; each step then only shows what items it leaves. A new run gets
the slot of its row (`RunInserted`): later than all runs before it, and not later
than now. For one-offs the index of the INSERT carries the proof, and no assumption
of timing is used.

One service needs no `Prompt` (`OneService`), because nobody fires a schedule between
its computation of a slot and its UPDATE. What its queue then keeps is `Pending`: work
to compute a slot stands in front of all other work and is for distinct schedules that
have no slot; a slot to be written is for a schedule that has none or was asked for by
an edit, and is later than the schedule's runs. So a slot that is due can only be
replaced by the firing of it or for an edit (`NextKept`, `RestPending`). With several
services `OverdueKept` is false, `Prompt` or not: what one of them still has to compute
overwrites a slot that another has written and that came due meanwhile.

`CronEventsProofs` proves for any events, processes, specs, filters, keys and
windows, from `CronEventsAssumption` (specs and slots are finite sets of numbers,
windows and bounds are numbers):

| Theorem | Statement |
|---|---|
| `EventsInvariant` | `EventSpec => []EventsInv` |
| `TypeCorrect`, `EventRunsOnce`, `EveryEventSettles`, `LogIsTrue` | `TypeOK`, `OneRunPerEvent`, `LogSettles`, `LogTellsTheTruth` always hold |
| `ClaimedRunsKeepEvents`, `DebounceOnlyPostpones`, `NewRunsAreSpaced` | the action properties `ClaimedKeepsItsEvent`, `DebounceExtends`, `Spaced` |
| `IngressKeepsLifecycle` | the ingress and the runners together keep `RunLifecycle` |

The argument. `OneRunPerEvent` needs to know where a call stands: an event is in at
most one call (`Busy`, `Apart`), it has no run in a spec its loop has still to come to,
and none at all before the first one was queued (`Loops`). That is what the INSERT of
a logged event, which is refused for a known id, buys. The windows and the second half
of `LogTellsTheTruth` are about calls that do not overlap: then what the only call has
read is what the table still says (`Alone`), because runners change neither triggers nor
rows away. The run that stands for a suppressed event may be
moved to a later one, and goes on to stand for it because only calls that come later
move it, to an event received no earlier (`StandingKept`, from `Times` and `Alone`). That a claimed run keeps its event is not an invariant but needs one: the
`UPDATE` of a debounce names the row and its status, and `Loops` says it is the row found.

`TeamRunsProofs` proves for any teammates, runs, priorities and retries, any limit and
any number of restarts, from `TeamRunsAssumption` (the runs are a finite set of numbers,
which stand for their ids in order of creation, and the limit is at least 1):

| Theorem | Statement |
|---|---|
| `TeamInvariant` | `SafeTeamSpec => []TeamInv` |
| `TypeCorrect`, `OnePromptATime`, `WaitingRunsAreKept`, `SessionKnowsTheRuns`, `CleanedUpIsOver` | `TypeOK`, `NoDoubleBooking`, `NobodyForgotten`, `SessionTracksRuns`, `CleanupLeavesNothing` always hold |
| `SettledRunsStay` | the action property `SettledStays` |

The argument. The queue holds what waits, each once, and beside it only runs a restart
interrupted (`Queued`); what is executed is running or was cancelled meanwhile
(`Executed`); a teammate counts one prompt exactly while it works on one (`Booked`).
Every step but a few ends in a dispatch, so most of the proof is one set of lemmas
about `Dispatch`, given any runs, queue and teammates that satisfy these three: the picks
are those of the highest rank, a teammate accepts at most one of them, and after it
there is a timer or an execution for whatever still waits (`Awake`): if the limit stops
the loop, the runs that count against it are executed. `Awake` holds for cancelled runs
too, since their execution goes on and dispatches at its end. Cleanup drops nothing
because a teammate that works counts 1, and `Executed` leaves no other execution.

`SessionTurnsProofs` proves for any number of overlapping turns, any texts, prompts,
teammate runs and resumed statuses, from `SessionTurnsAssumption` (turns are a finite set
that a stop is not one of, the statuses are those of a session):

| Theorem | Statement |
|---|---|
| `SessionInvariant` | `Spec => []TurnsInv` |
| `TypeCorrect`, `DrainsNeverOverlap`, `SteersStayInFront`, `AbortedListHoldsPutBackOnly`, `NobodySleepsForNothing`, `NothingWaitsUnserved` | `TypeOK`, `OneDrainAtATime`, `SteersFirst`, `AbortingHoldsPutBackOnly`, `SleepersHaveWork`, `NoSilentStall` always hold |

The argument. Each edit of the list (`Enqueue`, `Update`, `RemoveAt`, the tail) keeps it
in the order of `Prioritised`, shown once per operator; the requeue of a failed drain does
not, and sets `putBack`. The flag of drain() is set exactly while a turn of its is under
way, and there is one (`Drainer`). While it is, the list of an aborting session is empty,
so that the requeue leaves one prompt, and no other drain starts there to leave a second
(`AbortingHoldsPutBackOnly`).
`NoSilentStall` is the hard one: that no drain is scheduled when the last turn returns
must not be because the turn believed the session to be ending. So the invariant says
that a live session whose agent is shut down has a shutdown under way (`Closing`), that a
session which failed or was cancelled has no turn left in its middle (`Over`), and that a
call which closes the session knows the status it aims at (`Aimed`). A session without a
row, whose status no update changes, is `running` (`Unsaved`). The end of a turn then
either finds nothing waiting, schedules a drain, or is what the property excepts
(`Stalled`): a caller's turn that failed or was aborted, an aborting session, a run whose
preparation threw.

`AgentLoopProofs` proves for any number of runs and tools and any configurations, from
`AgentLoopAssumption`:

| Theorem | Statement |
|---|---|
| `LoopInvariant` | `Spec => []LoopInv` |
| `TypeCorrect`, `EveryRequestAnswered`, `EveryRunEndsOnce` | `TypeOK`, `RequestsAnswered`, `EndsOnce` always hold |
| `NoToolAfterAbort` | the action property `NothingStartsAfterAbort` |

The argument. The controller belongs to the run in progress, and the status is
`running` only then (`Control`). What a run reports and announces follows from where it
stands, unless a hook threw at its end (`Results`). Tools are under way only while their
run executes them, one at a time unless they run side by side, or, side by side, after
it is over (`ToolsHeld`). An unanswered call is then one of the reply whose tools are being
prepared or executed; while results are recorded it is one whose tool is done and not yet
recorded; or it belongs to a run that ended without completing (`Pairs`). A request is
sent in none of these stages.

### Only model-checked

- `EveryRunSettles`, `Converges`, `ComesToRest`, `RunsSettle`, `AbortedRunsReturn`:
  liveness under fairness is beyond the prover. Their safety halves are proved
  (`NobodyForgotten`, `NoSilentStall`, `SleepersHaveWork`, `EndsOnce`).
- The four disagreements of section 5, which are counterexamples.

Attempts at the proofs corrected the project twice: `Spaced` was stated of any two
queued runs, where a debounce breaks it, and `SessionTurns` let a refused turn read the
status of before it was marked running. TLC had found neither within the bounds.

## 5. Findings

1. stop() while `startSession` is pending requeues the run, and `executeClaim` goes
   on to attach its session and send the turn: two runners can work on one run,
   and the row shows the wrong session (run `stop`).
2. `reconcileAll` removes every row without a file, programmatic schedules too: a
   restart of the daemon deletes them and cancels their queued runs (run `hub`).
3. A send while the turn before it is still being prepared is not queued: it starts
   a turn of its own, whose run is refused, and the refusal shuts the session down
   as failed (run `sends`).
4. A teammate shut down while it works fulfils its run with the finish reason
   "aborted", which `executeQueuedRun` does not read: the run is recorded as
   completed (run `team_shutdown`).

Met while modelling, with nothing in the repository that says otherwise, so no run:
`executeClaim` does not read the finish reason of a turn either, and records a
turn that was cut short as `done`. A crash between the INSERT of an event and the
queueing of its runs loses the event for good, since its redelivery counts as a
duplicate. Two processes that ingest at the same time may both pass a dedupe window.
Prompts enqueued while a session aborts are dropped without a word. An abort does not
reach a turn that is still being prepared, one that `drain()` has just taken included:
the run it starts forgets the request (`session-runtime-orchestrator.ts:741-743`). If
the idle update of an aborted turn fails twice, the session stays alive and aborting
until a later turn becomes idle, ignores every edit of its list, and a drained prompt is back on it.
A cancelled run whose execution fails with retries left is queued again, without an event.
An abort after the last event of a stream without tool calls goes unnoticed, and
the run completes; tools that run side by side may start after their run is over.
The calls an aborted run leaves unanswered stay in the transcript.

## 6. Not modelled, and why

Scheduler. SQLite itself: statements are atomic and BUSY errors are not modelled, the
store waits up to five seconds for a lock. Opening the store (schema statements). The
branch of `executeClaim` for a spec that does not exist: rows of `cron_specs` are
never deleted. Published events, logs and report contents: nothing reads them
back. The limit of 10 000 or 500 rows of a listing. Event specs as files (the
ingress takes them as constants). The clock going backwards. Several directories
mirrored into one `cron.db` by services with different settings. In `CronEvents`
a settled run is one more state of `RunLifecycle`: no query of the ingress tells it
from a running one.

Sessions. The start of a session and a send that finds none, which starts one
(`runTurn` restoring from a manifest); non-interactive sessions; the retry
after an authentication error; a store whose `updateStatus` returns and has updated no row; the status `pending`; modes, images and files of a
prompt.

Teams. Tasks, outcomes, mailbox and mission log. Heartbeats and progress notes, which
write only time stamps and text. `markStaleRunsInterrupted`, which nothing calls.
`team_run_task` passes neither priority nor retries, the constants do.
Events of recovered runs go out before the session listens.

Agent loop. A plugin whose setup fails for good. Two runs that overlap on one runtime: the core makes a new one for each
run (`session-runtime-orchestrator.ts:853-882`). What messages, usage and tool
inputs contain; `prepareTurn` and pending user messages, which rewrite or extend a
request without touching calls and results; the sub-agent graph.

Not begun: the hub's registries of approvals and capabilities and its client, the
hub's discovery, the session store, loop detection, the sandbox and the token
manager, MCP connections, calendars of cron expressions, the engine package (a
second implementation of sessions that the core does not use). Providers, schemas
and user interfaces are I/O and rendering.

## 7. Plan

Done: `RunLifecycle`, `CronQueue`, `CronSpecs`, `CronEvents`, `PendingPrompts` with
`SessionTurns`, `TeamRuns` and `AgentLoop`, each with its proofs. Next, in order:

1. `HubApprovals`: registries with disconnecting clients, where a capability request
   is cancelled with its client and an approval is not.
2. `TeamTasks`: dependencies, claims, fragments and outcomes; `getNextCronTime`
   against a definition on a small calendar.
