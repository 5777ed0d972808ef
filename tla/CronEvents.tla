----------------------------- MODULE CronEvents -----------------------------
(***************************************************************************)
(* The event ingress (packages/core/src/cron/events) on cron.db: an event  *)
(* is logged, matched against the event specs and turned into queued runs, *)
(* debounced, deduplicated and cooled down on the way.  Every process with *)
(* automation enabled has an ingress; each SQL statement is one step, and  *)
(* the steps of several ingresses, of the runners and of the reconciler    *)
(* interleave.  The queue the runs enter is taken by its abstract          *)
(* specification, RunLifecycle, which CronQueue is proved to implement.    *)
(***************************************************************************)
EXTENDS Integers, FiniteSets, FiniteSetsExt

CONSTANTS
  Event,        \* event ids
  KeyOf,        \* the dedupe key of an event, given or derived
  Spec,         \* event specs; their numbers are the created_at order
  Matching,     \* the events whose type and attributes a spec's filters accept
  Debounce,     \* debounceSeconds of a spec, 0 for none
  DedupeWindow, \* dedupeWindowSeconds, 0 for none
  Cooldown,     \* cooldownSeconds, 0 for none
  Ingress,      \* CronEventIngress instances, each in a process of its own
  Slot,         \* bound: the rows a spec may get
  MaxTime,      \* bound: the clock
  MaxGrants,    \* bound: claims of one run
  MaxFaults     \* bound: statements that throw, and crashes

ASSUME CronEventsAssumption ==
  /\ Spec \subseteq Nat /\ IsFiniteSet(Spec)
  /\ Matching \in [Spec -> SUBSET Event]
  /\ Debounce \in [Spec -> Nat] /\ DedupeWindow \in [Spec -> Nat]
  /\ Cooldown \in [Spec -> Nat]
  /\ Slot \subseteq Nat /\ IsFiniteSet(Slot)
  /\ MaxTime \in Nat /\ MaxGrants \in Nat /\ MaxFaults \in Nat

Run == Spec \X Slot   \* cron_runs rows with trigger_kind 'event'

VARIABLES
  log,        \* processing_status of a cron_event_log row, "absent" before it
  received,   \* received_at
  state,      \* status of a run
  generation, \* claims of a run so far
  trigger,    \* trigger_event_id, as a set of at most one event
  scheduled,  \* scheduled_for
  ingest,     \* where an ingestEvent call stands and what it has read
  clock,
  faults,     \* faults so far, for the bound only
  overlapped, \* history: two ingestEvent calls were once under way together
  lost        \* history: the events whose call died before it wrote the outcome

Queue == INSTANCE RunLifecycle

rows == <<state, generation, trigger, scheduled>>
vars == <<log, received, rows, ingest, clock, faults, overlapped, lost>>

Statuses == {"received", "unmatched", "queued", "suppressed", "failed"}
Stages == {"idle", "finding", "extending", "deduping", "cooling",
           "enqueuing", "finishing", "failing"}

Idle == [at |-> "idle", event |-> {}, todo |-> {}, found |-> {}, until |-> 0,
         matched |-> FALSE, queued |-> FALSE]

Calls == [at : Stages, event : SUBSET Event, todo : SUBSET Spec, found : SUBSET Run,
          until : Nat, matched : BOOLEAN, queued : BOOLEAN]

\* Every column and local keeps its type: no log row leaves the statuses its CHECK
\* constraint names.
TypeOK ==
  /\ log \in [Event -> Statuses \cup {"absent"}]
  /\ received \in [Event -> Nat]
  /\ state \in [Run -> {"absent", "queued", "running"} \cup Queue!Outcomes]
  /\ generation \in [Run -> Nat]
  /\ trigger \in [Run -> SUBSET Event]
  /\ scheduled \in [Run -> Nat]
  /\ ingest \in [Ingress -> Calls]
  /\ clock \in Nat /\ faults \in Nat
  /\ overlapped \in BOOLEAN /\ lost \in SUBSET Event

Init ==
  /\ log = [e \in Event |-> "absent"]
  /\ received = [e \in Event |-> 0]
  /\ Queue!Init
  /\ trigger = [r \in Run |-> {}]
  /\ scheduled = [r \in Run |-> 0]
  /\ ingest = [p \in Ingress |-> Idle]
  /\ clock = 0 /\ faults = 0
  /\ overlapped = FALSE /\ lost = {}

-----------------------------------------------------------------------------
(* The statements of SqliteCronStore.                                       *)

\* The rows of spec s triggered by one of the events: the join of cron_runs and
\* cron_event_log on trigger_event_id.
RowsOf(s, events) ==
  {r \in Run : r[1] = s /\ state[r] # "absent" /\ trigger[r] \cap events # {}}

Group(e) == {t \in Event : KeyOf[t] = KeyOf[e]}

\* Variant: INSERT OR REPLACE.
AlwaysCreated(e) == TRUE

\* INSERT OR IGNORE: a known event id is a replay, and ingestEvent returns.
Created(e) == log[e] = "absent"

Since(time) == {t \in Event : received[t] >= time}

\* Variant: received_at > the start of the window.
RecentStrictly(s, e) ==
  RowsOf(s, Group(e) \cap Since(received[e] - DedupeWindow[s] + 1)) # {}

HasRecentEventRunForDedupe(s, e) ==
  RowsOf(s, Group(e) \cap Since(received[e] - DedupeWindow[s])) # {}

HasRecentEventRunForSpec(s, e) == RowsOf(s, Since(received[e] - Cooldown[s])) # {}

QueuedInGroup(s, e) == {r \in RowsOf(s, Group(e)) : state[r] = "queued"}

\* ORDER BY scheduled_for DESC LIMIT 1, ties either way.
FindQueuedEventRunForDedupe(s, e) ==
  {r \in QueuedInGroup(s, e) :
     \A x \in QueuedInGroup(s, e) : scheduled[x] <= scheduled[r]}

\* Variant: the UPDATE's WHERE clause forgets status = 'queued'.
ExtendableAny(r) == TRUE

Extendable(r) == state[r] = "queued"

EnqueueRun(s, e) ==
  LET r == <<s, Min({i \in Slot : state[<<s, i>>] = "absent"})>> IN
  /\ \E i \in Slot : state[<<s, i>>] = "absent"
  /\ state' = [state EXCEPT ![r] = "queued"]
  /\ trigger' = [trigger EXCEPT ![r] = {e}]
  /\ scheduled' = [scheduled EXCEPT ![r] = received[e] + Debounce[s]]
  /\ UNCHANGED generation

-----------------------------------------------------------------------------
(* ingestEvent: one call at a time in a process, a statement a step.        *)

\* The spec the loop is at, and the first query materializeForSpec makes for it.
Current(p) == Min(ingest[p].todo)

AfterDedupe(s) == IF Cooldown[s] > 0 THEN "cooling" ELSE "enqueuing"

AfterDebounce(s) == IF DedupeWindow[s] > 0 THEN "deduping" ELSE AfterDedupe(s)

FirstQuery(S) ==
  IF S = {} THEN "finishing"
  ELSE IF Debounce[Min(S)] > 0 THEN "finding" ELSE AfterDebounce(Min(S))

At(p, stage) == ingest[p].at = stage

GoTo(p, stage) == ingest' = [ingest EXCEPT ![p].at = stage]

\* materializeForSpec returned, with a run or without.
NextSpec(p, gotRun) ==
  LET rest == ingest[p].todo \ {Current(p)} IN
  ingest' = [ingest EXCEPT ![p] =
               [at |-> FirstQuery(rest), event |-> @.event, todo |-> rest, found |-> {},
                until |-> 0, matched |-> @.matched, queued |-> @.queued \/ gotRun]]

\* insertEventLog, and listEventSpecsForType with the filters: of the specs that accept
\* the event, those that are enabled, valid and not removed at that moment.  The whole
\* loop goes by what was read here.
Deliver(p, e) ==
  /\ At(p, "idle") /\ Created(e)
  /\ log' = [log EXCEPT ![e] = "received"]
  /\ received' = [received EXCEPT ![e] = clock]
  /\ \E specs \in SUBSET {s \in Spec : e \in Matching[s]} :
       ingest' = [ingest EXCEPT ![p] =
                    [at |-> FirstQuery(specs), event |-> {e}, todo |-> specs, found |-> {},
                     until |-> 0, matched |-> specs # {}, queued |-> FALSE]]
  /\ overlapped' = (overlapped \/ \E q \in Ingress : ~At(q, "idle"))
  /\ UNCHANGED <<rows, clock, faults, lost>>

Find(p) ==
  /\ At(p, "finding")
  /\ \E e \in ingest[p].event :
       LET hits == FindQueuedEventRunForDedupe(Current(p), e) IN
       \/ hits = {} /\ GoTo(p, AfterDebounce(Current(p)))
       \/ \E r \in hits :
            ingest' = [ingest EXCEPT ![p] = [@ EXCEPT !.at = "extending", !.found = {r},
                                                      !.until = scheduled[r]]]
  /\ UNCHANGED <<log, received, rows, clock, faults, overlapped, lost>>

\* Variant: the run is moved to the receipt of the event, not past it.
ReceiptOf(s, e, until) == received[e]

PostponedTo(s, e, until) == Max({until, received[e] + Debounce[s]})

\* updateQueuedEventRunForDebounce, or the queries for a new run when the row was
\* claimed, cancelled or settled since it was found.
Extend(p) ==
  /\ At(p, "extending")
  /\ \E e \in ingest[p].event, r \in ingest[p].found :
       \/ /\ Extendable(r)
          /\ trigger' = [trigger EXCEPT ![r] = {e}]
          /\ scheduled' = [scheduled EXCEPT ![r] =
                             PostponedTo(Current(p), e, ingest[p].until)]
          /\ NextSpec(p, TRUE)
          /\ UNCHANGED <<state, generation>>
       \/ /\ ~Extendable(r)
          /\ GoTo(p, AfterDebounce(Current(p)))
          /\ UNCHANGED rows
  /\ UNCHANGED <<log, received, clock, faults, overlapped, lost>>

Dedupe(p) ==
  /\ At(p, "deduping")
  /\ \E e \in ingest[p].event :
       \/ HasRecentEventRunForDedupe(Current(p), e) /\ NextSpec(p, FALSE)
       \/ ~HasRecentEventRunForDedupe(Current(p), e) /\ GoTo(p, AfterDedupe(Current(p)))
  /\ UNCHANGED <<log, received, rows, clock, faults, overlapped, lost>>

Cool(p) ==
  /\ At(p, "cooling")
  /\ \E e \in ingest[p].event :
       \/ HasRecentEventRunForSpec(Current(p), e) /\ NextSpec(p, FALSE)
       \/ ~HasRecentEventRunForSpec(Current(p), e) /\ GoTo(p, "enqueuing")
  /\ UNCHANGED <<log, received, rows, clock, faults, overlapped, lost>>

Enqueue(p) ==
  /\ At(p, "enqueuing")
  /\ \E e \in ingest[p].event : EnqueueRun(Current(p), e)
  /\ NextSpec(p, TRUE)
  /\ UNCHANGED <<log, received, clock, faults, overlapped, lost>>

\* Variants: a status of no log row; the outcome forgets the runs that were queued.
OutcomeProcessed(call) == IF call.queued THEN "processed" ELSE "suppressed"

OutcomeOfMatch(call) == IF call.matched THEN "suppressed" ELSE "unmatched"

Outcome(call) ==
  IF ~call.matched THEN "unmatched"
  ELSE IF call.queued THEN "queued" ELSE "suppressed"

Finish(p) ==
  /\ At(p, "finishing")
  /\ \E e \in ingest[p].event : log' = [log EXCEPT ![e] = Outcome(ingest[p])]
  /\ ingest' = [ingest EXCEPT ![p] = Idle]
  /\ UNCHANGED <<received, rows, clock, faults, overlapped, lost>>

-----------------------------------------------------------------------------
(* Statements that throw, and processes that die.                           *)

InTry(p) == ~At(p, "idle") /\ ~At(p, "failing")

\* A statement of the try block throws; enqueueRun may throw after its INSERT.
Throws(p) ==
  /\ InTry(p)
  /\ faults < MaxFaults /\ faults' = faults + 1
  /\ GoTo(p, "failing")
  /\ \/ UNCHANGED rows
     \/ At(p, "enqueuing") /\ \E e \in ingest[p].event : EnqueueRun(Current(p), e)
  /\ UNCHANGED <<log, received, clock, overlapped, lost>>

\* Variant: the catch block rethrows without writing the log.
RethrowOnly(p) == log' = log

\* The catch block's UPDATE.
MarkFailed(p) == \E e \in ingest[p].event : log' = [log EXCEPT ![e] = "failed"]

Fail(p) ==
  /\ At(p, "failing")
  /\ MarkFailed(p)
  /\ ingest' = [ingest EXCEPT ![p] = Idle]
  /\ UNCHANGED <<received, rows, clock, faults, overlapped, lost>>

\* The process dies, or the UPDATE of the catch block throws as well.
Dies(p) ==
  /\ ~At(p, "idle")
  /\ faults < MaxFaults /\ faults' = faults + 1
  /\ lost' = lost \cup ingest[p].event
  /\ ingest' = [ingest EXCEPT ![p] = Idle]
  /\ UNCHANGED <<log, received, rows, clock, overlapped>>

-----------------------------------------------------------------------------
(* The rest of cron.db: the queue and the clock.                            *)

\* A runner claims a due run and may hand it back; a removal cancels a queued one.  The
\* ingress tells a settled run from a running one nowhere: settling is left out.
QueueStep(r) ==
  /\ state[r] \in {"queued", "running"}
  /\ \E to \in {"queued", "running", "cancelled"}, n \in {0, 1} :
       /\ to = "running" => scheduled[r] <= clock
       /\ generation[r] + n <= MaxGrants
       /\ state' = [state EXCEPT ![r] = to]
       /\ generation' = [generation EXCEPT ![r] = @ + n]
       /\ Queue!Grant(r) \/ Queue!HandBack(r) \/ Queue!Withdraw(r)
  /\ UNCHANGED <<log, received, trigger, scheduled, ingest, clock, faults,
                 overlapped, lost>>

Tick ==
  /\ clock < MaxTime
  /\ clock' = clock + 1
  /\ UNCHANGED <<log, received, rows, ingest, faults, overlapped, lost>>

Statement(p) ==
  \/ Find(p) \/ Extend(p) \/ Dedupe(p) \/ Cool(p) \/ Enqueue(p)
  \/ Finish(p) \/ Fail(p)

Next ==
  \/ \E p \in Ingress : \/ \E e \in Event : Deliver(p, e)
                        \/ Statement(p) \/ Throws(p) \/ Dies(p)
  \/ \E r \in Run : QueueStep(r)
  \/ Tick

EventSpec == Init /\ [][Next]_vars

-----------------------------------------------------------------------------
(* Properties.                                                              *)

Rows == {r \in Run : state[r] # "absent"}

\* However often an event is delivered, to however many processes, and whichever
\* claims, crashes and errors come between, no spec ever has two runs for it:
\* ingestEvent's replay check and the early return after a debounce.
OneRunPerEvent ==
  \A q, r \in Rows : q # r /\ q[1] = r[1] => trigger[q] \cap trigger[r] = {}

\* While no two calls overlapped, a run is queued for an event only if the other runs of
\* the spec stand for earlier ones: of its group, by more than the dedupe window; of any
\* group, by more than the cooldown: materializeForSpec's two suppressions.  A debounced
\* extension asks neither of them, so two queued runs may well come closer afterwards.
Spaced ==
  [][~overlapped' =>
       \A q \in Rows, r \in Rows' \ Rows : \A t \in trigger[q], u \in trigger'[r] :
         q[1] = r[1] =>
           /\ DedupeWindow[q[1]] > 0 /\ KeyOf[t] = KeyOf[u]
                => received[u] - received[t] > DedupeWindow[q[1]]
           /\ Cooldown[q[1]] > 0 => received[u] - received[t] > Cooldown[q[1]]]_vars

\* A run of spec s in the table that stands for event e: triggered by an event that is
\* not older than the window s grants, and of e's group unless s has a cooldown.
StandsFor(r, e) ==
  \E t \in trigger[r] :
    \/ Cooldown[r[1]] > 0 /\ received[t] + Cooldown[r[1]] >= received[e]
    \/ KeyOf[t] = KeyOf[e] /\ received[t] + DedupeWindow[r[1]] >= received[e]

\* The log tells what became of an event: one logged as unmatched or suppressed
\* triggers no run; and, while no calls overlapped, one logged as queued or suppressed
\* has a run in a matching spec that stands for it, though later events may have taken
\* the run over: the status ingestEvent computes from the loop.
LogTellsTheTruth ==
  \A e \in Event :
    /\ log[e] \in {"unmatched", "suppressed"} => \A r \in Rows : e \notin trigger[r]
    /\ log[e] \in {"queued", "suppressed"} /\ ~overlapped =>
         \E r \in Rows : e \in Matching[r[1]] /\ StandsFor(r, e)

\* A run that was claimed or settled keeps the event and the time it was claimed with,
\* also when the claim comes between the lookup of the debounced run and the UPDATE.
ClaimedKeepsItsEvent ==
  [][\A r \in Rows : state[r] # "queued" =>
       trigger'[r] = trigger[r] /\ scheduled'[r] = scheduled[r]]_vars

\* While no calls overlapped, a further event of its group only postpones a queued run
\* and only moves it to a later event: the debounce.
DebounceExtends ==
  [][~overlapped' => \A r \in Rows :
       /\ scheduled'[r] >= scheduled[r]
       /\ \A t \in trigger[r], u \in trigger'[r] : received[u] >= received[t]]_vars

\* Every logged event gets its outcome, also when a statement throws: one still marked
\* received is under way or its process died on it.  The try and the catch of
\* ingestEvent.
LogSettles ==
  \A e \in Event : log[e] = "received" =>
    e \in lost \/ \E p \in Ingress : e \in ingest[p].event

=============================================================================
