------------------------------ MODULE CronQueue ------------------------------
(***************************************************************************)
(* The run queue of cron.db and the runners that work it                   *)
(* (packages/core/src/cron/store and packages/core/src/cron/runner).       *)
(*                                                                         *)
(* cron_runs is a SQLite table shared by several processes: the hub daemon *)
(* holds two runners on it, and a CLI or an embedding application may hold *)
(* more.  A runner's tick claims every due row under a fresh token and a   *)
(* lease, executes each claim through an agent session, and settles the    *)
(* row with an UPDATE whose WHERE clause names the token.  Every SQL       *)
(* statement or transaction is one step; a runner's JavaScript runs to     *)
(* completion between two awaits, other processes interleave anywhere.     *)
(***************************************************************************)
EXTENDS Integers, FiniteSets

CONSTANTS
  Run,          \* cron_runs rows; the number of a row is its place in the claim order
  Runner,       \* CronRunner instances, each in a process of its own
  Spec,         \* cron_specs rows
  SpecOf,       \* the spec_id column of a run
  MaxParallel,  \* max_parallel of a spec
  GlobalLimit,  \* globalMaxConcurrency of a runner
  ClaimLimit,   \* rows one claimDueRuns takes at most (25)
  Timed,        \* the specs that set timeoutSeconds
  Timely,       \* TRUE: a heartbeat always runs before its lease ends
  MaxAttempts,  \* bound: attempts up to which live owners lose leases and stopped ones poll
  MaxFaults     \* bound: crashes, stops and failed report writes

ASSUME CronQueueAssumption ==
  /\ Run \subseteq Nat /\ IsFiniteSet(Run)
  /\ SpecOf \in [Run -> Spec]
  /\ MaxParallel \in [Spec -> Nat \ {0}]
  /\ GlobalLimit \in Nat \ {0}
  /\ ClaimLimit \in Nat \ {0}
  /\ Timed \subseteq Spec
  /\ Timely \in BOOLEAN
  /\ MaxAttempts \in Nat /\ MaxFaults \in Nat

VARIABLES
  \* the columns of cron_runs
  status,     \* status, "absent" before the INSERT
  token,      \* claim_token: the attempt that minted it, 0 for NULL
  lease,      \* claim_until_at against the clock: "none" for NULL
  attempts,   \* attempt_count
  session,    \* session_id: the attempt whose session it is, 0 for NULL
  due,        \* scheduled_for <= now
  enabled,    \* a spec is enabled and not removed
  \* the fields of a CronRunner
  mode,       \* started and stopping; "closed" is stopped without ever starting
  pending,    \* start() is awaiting its first tick
  held,       \* this.timer is an armed interval
  leaked,     \* an armed interval this.timer no longer refers to
  pc,         \* where executeClaim stands
  tok,        \* the claim token executeClaim holds
  agent,      \* the agent turn behind the session
  stopTok,    \* the token stop() will requeue once abortSession returns
  faults      \* faults so far, for the bound only

store == <<status, token, lease, attempts, session, due>>
timers == <<pending, held, leaked>>
vars == <<store, enabled, mode, timers, pc, tok, agent, stopTok, faults>>

NoToken == 0
Terminal == {"done", "failed", "cancelled"}
Statuses == {"absent", "queued", "running"} \cup Terminal
Modes == {"down", "idle", "started", "stopped", "closed"}
\* executeClaim holds a limiter slot and an activeRuns entry in these.
Executing == {"starting", "sending", "aborting", "finishing"}
PCs == {"idle", "claimed"} \cup Executing
AgentStates == {"none", "open", "aborted", "completed", "cutShort", "threw"}

\* Every column and field keeps its type: in particular no row ever leaves the six
\* statuses claimDueRuns and the reports know.
TypeOK ==
  /\ status \in [Run -> Statuses]
  /\ token \in [Run -> Nat]
  /\ lease \in [Run -> {"none", "live", "expired"}]
  /\ attempts \in [Run -> Nat]
  /\ session \in [Run -> Nat]
  /\ due \in [Run -> BOOLEAN]
  /\ enabled \in [Spec -> BOOLEAN]
  /\ mode \in [Runner -> Modes]
  /\ pending \in [Runner -> BOOLEAN]
  /\ held \in [Runner -> BOOLEAN]
  /\ leaked \in [Runner -> BOOLEAN]
  /\ pc \in [Runner -> [Run -> PCs]]
  /\ tok \in [Runner -> [Run -> Nat]]
  /\ agent \in [Runner -> [Run -> AgentStates]]
  /\ stopTok \in [Runner -> [Run -> Nat]]
  /\ faults \in Nat

Init ==
  /\ status = [r \in Run |-> "absent"]
  /\ token = [r \in Run |-> NoToken]
  /\ lease = [r \in Run |-> "none"]
  /\ attempts = [r \in Run |-> 0]
  /\ session = [r \in Run |-> NoToken]
  /\ due = [r \in Run |-> FALSE]
  /\ enabled = [s \in Spec |-> TRUE]
  /\ mode = [p \in Runner |-> "down"]
  /\ pending = [p \in Runner |-> FALSE]
  /\ held = [p \in Runner |-> FALSE]
  /\ leaked = [p \in Runner |-> FALSE]
  /\ pc = [p \in Runner |-> [r \in Run |-> "idle"]]
  /\ tok = [p \in Runner |-> [r \in Run |-> NoToken]]
  /\ agent = [p \in Runner |-> [r \in Run |-> "none"]]
  /\ stopTok = [p \in Runner |-> [r \in Run |-> NoToken]]
  /\ faults = 0

-----------------------------------------------------------------------------
(* The statements of SqliteCronStore, each over the set of rows its WHERE   *)
(* clause selects.                                                          *)

Update(f, rows, v) == [r \in Run |-> IF r \in rows THEN v ELSE f[r]]

\* Variant: the WHERE clause names the run only.
OwnedByRunId(r, t) == {r}

\* WHERE run_id = r AND claim_token = t
Owned(r, t) == {x \in {r} : token[x] = t}

StoreEnqueue(r, isDue) ==
  /\ status' = [status EXCEPT ![r] = "queued"]
  /\ due' = [due EXCEPT ![r] = isDue]
  /\ UNCHANGED <<token, lease, attempts, session>>

\* Variants: a status of another vocabulary, a kept claim_token.
RequeueAsPending(rows) ==
  /\ status' = Update(status, rows, "pending")
  /\ token' = Update(token, rows, NoToken)
  /\ lease' = Update(lease, rows, "none")
  /\ session' = Update(session, rows, NoToken)
  /\ UNCHANGED <<attempts, due>>

RequeueKeepingToken(rows) ==
  /\ status' = Update(status, rows, "queued")
  /\ lease' = Update(lease, rows, "none")
  /\ session' = Update(session, rows, NoToken)
  /\ UNCHANGED <<token, attempts, due>>

StoreRequeue(rows) ==
  /\ status' = Update(status, rows, "queued")
  /\ token' = Update(token, rows, NoToken)
  /\ lease' = Update(lease, rows, "none")
  /\ session' = Update(session, rows, NoToken)
  /\ UNCHANGED <<attempts, due>>

\* t is the session the caller passes, NoToken to keep the column.
StoreComplete(rows, outcome, t) ==
  /\ status' = Update(status, rows, outcome)
  /\ token' = Update(token, rows, NoToken)
  /\ lease' = Update(lease, rows, "none")
  /\ session' = IF t = NoToken THEN session ELSE Update(session, rows, t)
  /\ UNCHANGED <<attempts, due>>

\* Variants: lapsed claims are forgotten, live claims are taken.
ClaimableQueuedOnly(M) == {r \in Run : r \in M \/ (due[r] /\ status[r] = "queued")}

ClaimableAnyRunning(M) ==
  {r \in Run : r \in M \/ (due[r] /\ status[r] \in {"queued", "running"})}

\* Every queued or lapsed row once the runs M are inserted as due.
Claimable(M) ==
  {r \in Run : \/ r \in M
               \/ due[r] /\ status[r] = "queued"
               \/ due[r] /\ status[r] = "running" /\ lease[r] = "expired"}

\* ORDER BY COALESCE(scheduled_for, created_at) LIMIT ClaimLimit
Batch(M) ==
  {r \in Claimable(M) :
     Cardinality({x \in Claimable(M) : x < r}) < ClaimLimit}

\* Variant: a row that still has a token keeps it.
ClaimReusingToken(M) ==
  /\ status' = [r \in Run |-> IF r \in Batch(M) THEN "running"
                              ELSE IF r \in M THEN "queued" ELSE status[r]]
  /\ token' = [r \in Run |-> IF r \in Batch(M) /\ token[r] = NoToken
                             THEN attempts[r] + 1 ELSE token[r]]
  /\ attempts' = [r \in Run |-> IF r \in Batch(M) THEN attempts[r] + 1 ELSE attempts[r]]
  /\ lease' = Update(lease, Batch(M), "live")
  /\ session' = Update(session, Batch(M), NoToken)
  /\ due' = Update(due, M, TRUE)

StoreMaterializeAndClaim(M) ==
  /\ status' = [r \in Run |-> IF r \in Batch(M) THEN "running"
                              ELSE IF r \in M THEN "queued" ELSE status[r]]
  /\ token' = [r \in Run |-> IF r \in Batch(M) THEN attempts[r] + 1 ELSE token[r]]
  /\ attempts' = [r \in Run |-> IF r \in Batch(M) THEN attempts[r] + 1 ELSE attempts[r]]
  /\ lease' = Update(lease, Batch(M), "live")
  /\ session' = Update(session, Batch(M), NoToken)
  /\ due' = Update(due, M, TRUE)

-----------------------------------------------------------------------------
(* Work arriving, and the specs it belongs to.                              *)

\* A process that is not ticking inserts a run: an event run may be debounced.
Enqueue(r) ==
  /\ status[r] = "absent"
  /\ \E isDue \in BOOLEAN : StoreEnqueue(r, isDue)
  /\ UNCHANGED <<enabled, mode, timers, pc, tok, agent, stopTok, faults>>

Elapse(r) ==
  /\ status[r] # "absent" /\ ~due[r]
  /\ due' = [due EXCEPT ![r] = TRUE]
  /\ UNCHANGED <<status, token, lease, attempts, session,
                 enabled, mode, timers, pc, tok, agent, stopTok, faults>>

\* Pausing, deleting or invalidating a spec, and resuming or restoring it.
SetEnabled(s, b) ==
  /\ enabled' = [enabled EXCEPT ![s] = b]
  /\ UNCHANGED <<store, mode, timers, pc, tok, agent, stopTok, faults>>

\* Variant: the statement forgets status = 'queued'.
CancelAllRunsForSpec(s) ==
  /\ ~enabled[s]
  /\ status' = Update(status, {r \in Run : SpecOf[r] = s /\ status[r] # "absent"},
                      "cancelled")
  /\ UNCHANGED <<token, lease, attempts, session, due,
                 enabled, mode, timers, pc, tok, agent, stopTok, faults>>

\* The second statement of a removal, after markSpecRemoved.
CancelQueuedRunsForSpec(s) ==
  /\ ~enabled[s]
  /\ status' = Update(status, {r \in Run : SpecOf[r] = s /\ status[r] = "queued"},
                      "cancelled")
  /\ UNCHANGED <<token, lease, attempts, session, due,
                 enabled, mode, timers, pc, tok, agent, stopTok, faults>>

-----------------------------------------------------------------------------
(* A runner's tick and its lifecycle.                                       *)

Stopping(p) == mode[p] \in {"stopped", "closed"}

\* tick() has not settled: `ticking` is set and a further tick returns at once.
Ticking(p) == \E r \in Run : pc[p][r] # "idle"

\* The claims of a tick are handed to executeClaim without an await between.
Dispatching(p) == \E r \in Run : pc[p][r] = "claimed"

ActiveRuns(p) == {r \in Run : pc[p][r] \in Executing}

Materializable == {r \in Run : status[r] = "absent" /\ enabled[SpecOf[r]]}

\* materializeAll, claimDueRuns and the map over the claims.
TickBody(p, M) ==
  /\ StoreMaterializeAndClaim(M)
  /\ pc' = [pc EXCEPT ![p] = Update(pc[p], Batch(M), "claimed")]
  /\ tok' = [tok EXCEPT ![p] = [r \in Run |-> IF r \in Batch(M) THEN token'[r]
                                              ELSE tok[p][r]]]
  /\ UNCHANGED <<enabled, agent, stopTok, faults>>

Boot(p) ==
  /\ mode[p] = "down"
  /\ mode' = [mode EXCEPT ![p] = "idle"]
  /\ UNCHANGED <<store, enabled, timers, pc, tok, agent, stopTok, faults>>

\* start() awaits one tick before it arms the interval; if a tick is under way
\* the awaited call returns at once and the interval is armed immediately.
Start(p) ==
  /\ mode[p] \in {"idle", "stopped", "closed"}
  /\ ~Dispatching(p)
  /\ mode' = [mode EXCEPT ![p] = "started"]
  /\ \/ /\ ~Ticking(p)
        /\ \E M \in SUBSET Materializable : TickBody(p, M)
        /\ pending' = [pending EXCEPT ![p] = TRUE]
        /\ UNCHANGED <<held, leaked>>
     \/ /\ Ticking(p)
        /\ leaked' = [leaked EXCEPT ![p] = @ \/ held[p]]
        /\ held' = [held EXCEPT ![p] = TRUE]
        /\ UNCHANGED <<store, pc, tok, pending, enabled, agent, stopTok, faults>>

\* The first tick of start() settled: setInterval, whatever stop() did meanwhile.
ArmInterval(p) ==
  /\ pending[p] /\ ~Ticking(p)
  /\ pending' = [pending EXCEPT ![p] = FALSE]
  /\ leaked' = [leaked EXCEPT ![p] = @ \/ held[p]]
  /\ held' = [held EXCEPT ![p] = TRUE]
  /\ UNCHANGED <<store, enabled, mode, pc, tok, agent, stopTok, faults>>

\* A stopped runner whose interval is still armed claims and requeues for ever:
\* MaxAttempts bounds it.
Poll(p) ==
  /\ held[p] \/ leaked[p]
  /\ ~Ticking(p)
  /\ \E M \in SUBSET Materializable :
       /\ Stopping(p) => \A r \in Batch(M) : attempts[r] < MaxAttempts
       /\ TickBody(p, M)
  /\ UNCHANGED <<mode, timers>>

\* triggerScheduleNow: insert a manual run, then tick unless a tick is under way.
Trigger(p, r) ==
  /\ mode[p] # "down" /\ ~Dispatching(p)
  /\ r \in Materializable
  /\ \/ /\ Ticking(p)
        /\ StoreEnqueue(r, TRUE)
        /\ UNCHANGED <<enabled, pc, tok, agent, stopTok, faults>>
     \/ /\ ~Ticking(p)
        /\ \E M \in SUBSET Materializable : TickBody(p, M \cup {r})
  /\ UNCHANGED <<mode, timers>>

\* The activeRuns entries that have no sessionId yet.
Sessionless(p) == {r \in ActiveRuns(p) : pc[p][r] = "starting"}

\* stop(): clear the interval; a run without a session is requeued at once, one
\* with a session after abortSession returns.  A second stop() only clears.
Stop(p) ==
  /\ mode[p] # "down"
  /\ ~Dispatching(p)
  /\ faults < MaxFaults /\ faults' = faults + 1
  /\ held' = [held EXCEPT ![p] = FALSE]
  /\ \/ /\ mode[p] # "started"
        /\ mode' = [mode EXCEPT ![p] = IF @ = "idle" THEN "closed" ELSE @]
        /\ UNCHANGED <<store, agent, stopTok>>
     \/ /\ mode[p] = "started"
        /\ mode' = [mode EXCEPT ![p] = "stopped"]
        /\ StoreRequeue(UNION {Owned(r, tok[p][r]) : r \in Sessionless(p)})
        /\ agent' = [agent EXCEPT ![p] = [r \in Run |->
                       IF agent[p][r] = "open" THEN "aborted" ELSE agent[p][r]]]
        /\ stopTok' = [stopTok EXCEPT ![p] = [r \in Run |->
                         IF r \in ActiveRuns(p) \ Sessionless(p)
                         THEN tok[p][r] ELSE stopTok[p][r]]]
  /\ UNCHANGED <<enabled, pending, leaked, pc, tok>>

\* Variant: abortSession threw and took the requeue with it.
StopRequeueLost(p, r) ==
  /\ stopTok[p][r] # NoToken /\ ~Dispatching(p)
  /\ stopTok' = [stopTok EXCEPT ![p][r] = NoToken]
  /\ UNCHANGED <<store, enabled, mode, timers, pc, tok, agent, faults>>

StopRequeue(p, r) ==
  /\ stopTok[p][r] # NoToken /\ ~Dispatching(p)
  /\ StoreRequeue(Owned(r, stopTok[p][r]))
  /\ stopTok' = [stopTok EXCEPT ![p][r] = NoToken]
  /\ UNCHANGED <<enabled, mode, timers, pc, tok, agent, faults>>

\* The process is gone, or its store is closed and every later write throws.
Halt(p) ==
  /\ mode' = [mode EXCEPT ![p] = "down"]
  /\ pending' = [pending EXCEPT ![p] = FALSE]
  /\ held' = [held EXCEPT ![p] = FALSE]
  /\ leaked' = [leaked EXCEPT ![p] = FALSE]
  /\ pc' = [pc EXCEPT ![p] = [r \in Run |-> "idle"]]
  /\ tok' = [tok EXCEPT ![p] = [r \in Run |-> NoToken]]
  /\ agent' = [agent EXCEPT ![p] = [r \in Run |-> "none"]]
  /\ stopTok' = [stopTok EXCEPT ![p] = [r \in Run |-> NoToken]]
  /\ UNCHANGED <<store, enabled>>

Crash(p) ==
  /\ mode[p] # "down"
  /\ faults < MaxFaults /\ faults' = faults + 1
  /\ Halt(p)

\* dispose(): stop() has requeued what it could, then the store is closed.
CloseStore(p) ==
  /\ Stopping(p) /\ ~Dispatching(p)
  /\ \A r \in Run : stopTok[p][r] = NoToken
  /\ Halt(p)
  /\ UNCHANGED faults

-----------------------------------------------------------------------------
(* executeClaim, from one await to the next.                                *)

\* Variant: the comparison of acquire off by one.
HasCapacityOffByOne(p, s) ==
  /\ Cardinality(ActiveRuns(p)) <= GlobalLimit
  /\ Cardinality({r \in ActiveRuns(p) : SpecOf[r] = s}) <= MaxParallel[s]

HasCapacity(p, s) ==
  /\ Cardinality(ActiveRuns(p)) < GlobalLimit
  /\ Cardinality({r \in ActiveRuns(p) : SpecOf[r] = s}) < MaxParallel[s]

\* executeClaim returns, or its finally block ends.
Leave(p, r) ==
  /\ pc' = [pc EXCEPT ![p][r] = "idle"]
  /\ tok' = [tok EXCEPT ![p][r] = NoToken]
  /\ agent' = [agent EXCEPT ![p][r] = "none"]

\* The claims are dispatched in the order claimDueRuns returned them.
Dispatch(p, r) ==
  /\ pc[p][r] = "claimed"
  /\ \A x \in Run : pc[p][x] = "claimed" => r <= x
  /\ \/ /\ ~enabled[SpecOf[r]]
        /\ StoreComplete(Owned(r, tok[p][r]), "cancelled", NoToken)
        /\ Leave(p, r)
     \/ /\ enabled[SpecOf[r]]
        /\ ~HasCapacity(p, SpecOf[r]) \/ Stopping(p)
        /\ StoreRequeue(Owned(r, tok[p][r]))
        /\ Leave(p, r)
     \/ /\ enabled[SpecOf[r]] /\ HasCapacity(p, SpecOf[r]) /\ ~Stopping(p)
        /\ pc' = [pc EXCEPT ![p][r] = "starting"]
        /\ UNCHANGED <<store, tok, agent>>
  /\ UNCHANGED <<enabled, mode, timers, stopTok, faults>>

\* startSession returned: attachSessionIdToRun names no token; then the turn is sent.
SessionStarted(p, r) ==
  /\ pc[p][r] = "starting" /\ ~Dispatching(p)
  /\ pc' = [pc EXCEPT ![p][r] = "sending"]
  /\ agent' = [agent EXCEPT ![p][r] = "open"]
  /\ session' = [session EXCEPT ![r] = tok[p][r]]
  /\ UNCHANGED <<status, token, lease, attempts, due,
                 enabled, mode, timers, tok, stopTok, faults>>

\* writeCronRunReport is synchronous and may throw; each failure is a fault.
ReportWritten == UNCHANGED faults
ReportFails(n) == faults + n <= MaxFaults /\ faults' = faults + n

StartFails(p, r) ==
  /\ pc[p][r] = "starting" /\ ~Dispatching(p)
  /\ \/ ReportWritten /\ StoreComplete(Owned(r, tok[p][r]), "failed", NoToken)
     \/ ReportFails(1) /\ UNCHANGED store
  /\ Leave(p, r)
  /\ UNCHANGED <<enabled, mode, timers, stopTok>>

Conclude(p, r, result) ==
  /\ pc' = [pc EXCEPT ![p][r] = "finishing"]
  /\ agent' = [agent EXCEPT ![p][r] = result]
  /\ UNCHANGED <<enabled, mode, timers, tok, stopTok>>

\* sendSession returned a result: the runner does not look at finishReason, so a
\* turn the runtime cut short (aborted, or ended by an error) counts as done.
TurnReturns(p, r) ==
  /\ pc[p][r] = "sending" /\ ~Dispatching(p)
  /\ \/ ReportWritten /\ StoreComplete(Owned(r, tok[p][r]), "done", tok[p][r])
     \/ ReportFails(1) /\ StoreComplete(Owned(r, tok[p][r]), "failed", tok[p][r])
     \/ ReportFails(2) /\ UNCHANGED store
  /\ \E result \in {"completed", "cutShort"} : Conclude(p, r, result)

TurnThrows(p, r) ==
  /\ pc[p][r] = "sending" /\ ~Dispatching(p)
  /\ \/ ReportWritten /\ StoreComplete(Owned(r, tok[p][r]), "failed", tok[p][r])
     \/ ReportFails(1) /\ UNCHANGED store
  /\ Conclude(p, r, "threw")

\* withTimeout rejects: the catch block awaits abortSession first.
TurnTimesOut(p, r) ==
  /\ pc[p][r] = "sending" /\ SpecOf[r] \in Timed /\ ~Dispatching(p)
  /\ pc' = [pc EXCEPT ![p][r] = "aborting"]
  /\ agent' = [agent EXCEPT ![p][r] = "aborted"]
  /\ UNCHANGED <<store, enabled, mode, timers, tok, stopTok, faults>>

AbortReturns(p, r) ==
  /\ pc[p][r] = "aborting" /\ ~Dispatching(p)
  /\ \/ ReportWritten /\ StoreComplete(Owned(r, tok[p][r]), "failed", tok[p][r])
     \/ ReportFails(1) /\ UNCHANGED store
  /\ Conclude(p, r, "aborted")

\* stopSession settled: the finally block drops the activeRuns entry and the slot.
SessionStopped(p, r) ==
  /\ pc[p][r] = "finishing" /\ ~Dispatching(p)
  /\ Leave(p, r)
  /\ UNCHANGED <<store, enabled, mode, timers, stopTok, faults>>

-----------------------------------------------------------------------------
(* Leases.                                                                  *)

Beating(p, r) == pc[p][r] \in {"starting", "sending", "aborting"}

RenewClaim(p, r) ==
  /\ Beating(p, r) /\ ~Dispatching(p)
  /\ lease' = Update(lease, Owned(r, tok[p][r]), "live")
  /\ UNCHANGED <<status, token, attempts, session, due,
                 enabled, mode, timers, pc, tok, agent, stopTok, faults>>

\* The clock passes claim_until_at.  A runner whose heartbeat is late (a blocked
\* event loop, a suspended machine) loses the lease while it still executes.
LeaseLapses(r) ==
  /\ lease[r] = "live"
  /\ \/ Timely /\ \A p \in Runner : Beating(p, r) \/ pc[p][r] = "claimed"
                                      => tok[p][r] # token[r]
     \/ ~Timely /\ attempts[r] < MaxAttempts
  /\ lease' = [lease EXCEPT ![r] = "expired"]
  /\ UNCHANGED <<status, token, attempts, session, due,
                 enabled, mode, timers, pc, tok, agent, stopTok, faults>>

-----------------------------------------------------------------------------

ExecuteStep(p, r) ==
  \/ Dispatch(p, r) \/ SessionStarted(p, r) \/ StartFails(p, r)
  \/ TurnReturns(p, r) \/ TurnThrows(p, r)
  \/ TurnTimesOut(p, r) \/ AbortReturns(p, r) \/ SessionStopped(p, r)

RunnerStep(p) ==
  \/ Boot(p) \/ Start(p) \/ ArmInterval(p) \/ Poll(p)
  \/ Stop(p) \/ Crash(p) \/ CloseStore(p)

Next ==
  \/ \E r \in Run : Enqueue(r) \/ Elapse(r) \/ LeaseLapses(r)
  \/ \E s \in Spec : CancelQueuedRunsForSpec(s) \/ \E b \in BOOLEAN : SetEnabled(s, b)
  \/ \E p \in Runner : RunnerStep(p)
  \/ \E p \in Runner, r \in Run :
       Trigger(p, r) \/ StopRequeue(p, r) \/ RenewClaim(p, r) \/ ExecuteStep(p, r)

SafeSpec == Init /\ [][Next]_vars

\* Processes are brought up again and keep polling, every await of executeClaim
\* settles (a turn of a spec with a timeout by the timer alone), and time passes.
Fairness ==
  /\ \A r \in Run : WF_vars(Elapse(r)) /\ WF_vars(LeaseLapses(r))
  /\ \A p \in Runner :
       /\ WF_vars(Boot(p)) /\ WF_vars(Start(p)) /\ WF_vars(ArmInterval(p))
       /\ WF_vars(Poll(p))
  /\ \A p \in Runner, r \in Run :
       /\ WF_vars(Dispatch(p, r))
       /\ WF_vars(SessionStarted(p, r) \/ StartFails(p, r))
       /\ WF_vars(AbortReturns(p, r))
       /\ WF_vars(SessionStopped(p, r))
       /\ WF_vars(StopRequeue(p, r))
       /\ WF_vars(IF SpecOf[r] \in Timed THEN TurnTimesOut(p, r)
                  ELSE TurnReturns(p, r) \/ TurnThrows(p, r))

FairSpec == SafeSpec /\ Fairness

-----------------------------------------------------------------------------
(* What the queue promises.                                                 *)

\* A row carries a token exactly while it is running, the token is the newest one
\* minted for it, and no two runners ever believe in the same claim: whatever
\* lapses, is stopped or crashes, a WHERE claim_token clause selects one runner.
TokenMatchesStatus ==
  \A r \in Run :
    /\ (status[r] = "running") <=> (token[r] # NoToken)
    /\ (lease[r] = "none") <=> (token[r] = NoToken)
    /\ token[r] \in {NoToken, attempts[r]}
    /\ status[r] = "absent" => attempts[r] = 0

HeldTokens(p, r) == {tok[p][r], stopTok[p][r]} \ {NoToken}

ClaimsDistinct ==
  \A r \in Run : \A p, q \in Runner :
    p # q => HeldTokens(p, r) \cap HeldTokens(q, r) = {}

\* A claim in progress has a token, and no token is newer than the run's attempts.
ClaimsBounded ==
  \A p \in Runner, r \in Run :
    /\ pc[p][r] # "idle" => tok[p][r] # NoToken
    /\ \A t \in HeldTokens(p, r) : t <= attempts[r]

\* The invariant the proofs carry.
QueueInv == TypeOK /\ TokenMatchesStatus /\ ClaimsDistinct /\ ClaimsBounded

\* The outcome of a run is written once: no late completion of a lost claim, no
\* requeue by stop() and no cancellation moves a row that reached an outcome.
OutcomeIsFinal ==
  [][\A r \in Run : status[r] \in Terminal =>
       status'[r] = status[r] /\ attempts'[r] = attempts[r]]_vars

\* A running row leaves that status only by a runner that holds its current token,
\* and it changes hands only once the lease lapsed.
OnlyHolderSettles ==
  [][\A r \in Run : status[r] = "running" =>
       /\ status'[r] # "running" =>
            \E p \in Runner : token[r] \in HeldTokens(p, r)
       /\ status'[r] = "running" /\ token'[r] # token[r] => lease[r] = "expired"]_vars

\* The runs a runner executes never exceed its global limit nor, per spec,
\* max_parallel, although slots are taken at dispatch and freed after stopSession.
LimitsRespected ==
  \A p \in Runner :
    /\ Cardinality(ActiveRuns(p)) <= GlobalLimit
    /\ \A s \in Spec :
         Cardinality({r \in ActiveRuns(p) : SpecOf[r] = s}) <= MaxParallel[s]

\* Once stop() of a started runner has returned, the runner owns no row: each claim
\* it was executing is requeued or settled, even if its interval still polls.
StoppedRunnerOwnsNothing ==
  \A p \in Runner, r \in Run :
    mode[p] = "stopped" /\ stopTok[p][r] = NoToken /\ pc[p][r] \in Executing
      => token[r] # tok[p][r]

\* Every queued run reaches an outcome, through refused slots, stops, crashes,
\* lapsed leases and failed report writes.
EveryRunSettles ==
  \A r \in Run : status[r] = "queued" ~> status[r] \in Terminal

\* cron-runner.test.ts:267-341 expects stop() to abort the session of a run before
\* it hands the run back: no session of a runner works on a run it does not own.
LiveTurnOwnsRun ==
  \A p \in Runner, r \in Run :
    pc[p][r] = "sending" /\ agent[p][r] = "open" => token[r] = tok[p][r]

\* The queue implements the life of a run that RunLifecycle promises its users.
Lifecycle == INSTANCE RunLifecycle WITH state <- status, generation <- attempts

ImplementsLifecycle == Lifecycle!SafeSpec

=============================================================================
