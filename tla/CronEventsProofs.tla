-------------------------- MODULE CronEventsProofs ---------------------------
(***************************************************************************)
(* TLAPS proofs about CronEvents, for every set of events, event specs and *)
(* ingress processes, every choice of filters, keys and windows and every  *)
(* bound on rows, time, claims and faults.                                 *)
(***************************************************************************)
EXTENDS CronEvents, WellFoundedInduction, TLAPS

\* A call under way has one event, whose log row waits for its outcome.
Busy ==
  \A p \in Ingress :
    /\ ingest[p].at = "idle" => ingest[p] = Idle
    /\ ingest[p].at # "idle" => \E e \in Event : ingest[p].event = {e} /\ log[e] = "received"

Apart == \A p, q \in Ingress : p # q => ingest[p].event \cap ingest[q].event = {}

\* A row has one trigger, an event that was logged; what is no row has none.
Triggers ==
  \A r \in Run : IF state[r] = "absent" THEN trigger[r] = {}
                 ELSE \E e \in Event : trigger[r] = {e} /\ log[e] # "absent"

\* The loop over the specs: where it stands, and that the event has no run in the specs
\* that are still to come, or in any before the first was queued.
LoopOf(p) ==
  InTry(p) =>
    /\ \A e \in ingest[p].event :
         /\ \A s \in ingest[p].todo : e \in Matching[s]
         /\ \A r \in Run : e \in trigger[r] => ingest[p].queued /\ r[1] \notin ingest[p].todo
    /\ ingest[p].at = "finishing" <=> ingest[p].todo = {}
    /\ ~ingest[p].matched => ingest[p].todo = {} /\ ~ingest[p].queued
    /\ ingest[p].at = "extending" =>
         \E r \in Run : /\ ingest[p].found = {r} /\ r[1] = Current(p) /\ state[r] # "absent"
    /\ ingest[p].at = "cooling" => Cooldown[Current(p)] > 0

Loops == \A p \in Ingress : LoopOf(p)

LogKnown ==
  \A e \in Event : log[e] \in {"unmatched", "suppressed"} => \A r \in Run : e \notin trigger[r]

Times ==
  \A e \in Event : log[e] # "absent" => received[e] <= clock

\* A matching row that stands for an event.
HasStanding(e) ==
  \E r \in Run : state[r] # "absent" /\ e \in Matching[r[1]] /\ StandsFor(r, e)

\* What the only call under way has read is what the table still says.
AloneOf(p) ==
  \A e \in ingest[p].event :
    /\ \A q \in Ingress \ {p} : ingest[q].at = "idle"
    /\ \A t \in Event : log[t] # "absent" => received[t] <= received[e]
    /\ InTry(p) /\ ingest[p].matched /\ ingest[p].todo = {} => HasStanding(e)
    /\ ingest[p].at = "extending" =>
         \A r \in ingest[p].found : trigger[r] \subseteq Group(e) /\ ingest[p].until = scheduled[r]
    /\ ingest[p].at \in {"cooling", "enqueuing"} /\ DedupeWindow[Current(p)] > 0 =>
         ~HasRecentEventRunForDedupe(Current(p), e)
    /\ ingest[p].at = "enqueuing" /\ Cooldown[Current(p)] > 0 =>
         ~HasRecentEventRunForSpec(Current(p), e)

Alone ==
  ~overlapped =>
    /\ \A p \in Ingress : AloneOf(p)
    /\ \A e \in Event : log[e] \in {"queued", "suppressed"} => HasStanding(e)

EventsInv ==
  /\ TypeOK /\ Busy /\ Apart /\ Triggers /\ OneRunPerEvent /\ Loops /\ LogKnown /\ LogSettles
  /\ Times /\ Alone

-----------------------------------------------------------------------------
(* Lemmas about the operators.                                              *)

\* The least element of a set of numbers.
LEMMA MinOfNats ==
  ASSUME NEW S, S \subseteq Nat, S # {}
  PROVE  Min(S) \in S /\ \A y \in S : Min(S) <= y
<1>1. IsWellFoundedOn({p \in Nat \X Nat : p[1] < p[2]}, Nat)
  BY NatLessThanWellFounded DEF OpToRel
<1>2. PICK x \in S : \A y \in S : ~ (<<y, x>> \in {p \in Nat \X Nat : p[1] < p[2]})
  BY <1>1, WFMin
<1>3. \A y \in S : x <= y
  <2> SUFFICES ASSUME NEW y \in S
               PROVE  x <= y
    OBVIOUS
  <2>1. x \in Nat /\ y \in Nat
    OBVIOUS
  <2>2. ~ (y < x)
    BY <1>2, <2>1
  <2> QED
    BY <2>1, <2>2
<1> QED
  BY <1>3 DEF Min

\* The later of two times.
LEMMA LaterOfTwo ==
  ASSUME NEW a \in Nat, NEW b \in Nat
  PROVE  Max({a, b}) \in Nat /\ Max({a, b}) >= a /\ Max({a, b}) >= b
<1>1. \E x \in {a, b} : \A y \in {a, b} : x >= y
  <2>1. CASE a >= b
    BY <2>1
  <2>2. CASE b >= a
    BY <2>2
  <2> QED
    BY <2>1, <2>2
<1>2. Max({a, b}) \in {a, b} /\ \A y \in {a, b} : Max({a, b}) >= y
  BY <1>1 DEF Max
<1> QED
  BY <1>2

\* The spec the loop is at is one of those to come.
LEMMA CurrentTodo ==
  ASSUME TypeOK, NEW p \in Ingress, ingest[p].todo # {}
  PROVE  Current(p) \in ingest[p].todo /\ Current(p) \in Spec
<1>1. ingest[p].todo \subseteq Spec
  BY DEF TypeOK, Calls
<1>2. Current(p) \in ingest[p].todo
  BY <1>1, CronEventsAssumption, MinOfNats DEF Current
<1> QED
  BY <1>1, <1>2

\* enqueueRun inserts one row for the spec.
LEMMA Enqueued ==
  ASSUME TypeOK, NEW s \in Spec, NEW e, EnqueueRun(s, e)
  PROVE  \E r \in Run :
           /\ r[1] = s /\ state[r] = "absent"
           /\ state' = [state EXCEPT ![r] = "queued"]
           /\ trigger' = [trigger EXCEPT ![r] = {e}]
           /\ scheduled' = [scheduled EXCEPT ![r] = received[e] + Debounce[s]]
           /\ generation' = generation
<1> DEFINE free == {i \in Slot : state[<<s, i>>] = "absent"}
<1>1. free \subseteq Nat /\ free # {}
  BY CronEventsAssumption DEF EnqueueRun
<1>2. Min(free) \in free
  BY <1>1, MinOfNats
<1>3. <<s, Min(free)>> \in Run
  BY <1>2 DEF Run
<1> QED
  BY <1>2, <1>3 DEF EnqueueRun

\* The stages a call goes to between the queries.
LEMMA NextStages ==
  /\ \A s \in Spec : /\ AfterDedupe(s) \in {"cooling", "enqueuing"}
                     /\ AfterDebounce(s) \in {"deduping", "cooling", "enqueuing"}
  /\ \A S \in SUBSET Spec :
       /\ S = {} => FirstQuery(S) = "finishing"
       /\ S # {} => FirstQuery(S) \in {"finding", "deduping", "cooling", "enqueuing"}
<1>1. \A s \in Spec : /\ AfterDedupe(s) \in {"cooling", "enqueuing"}
                      /\ AfterDebounce(s) \in {"deduping", "cooling", "enqueuing"}
  BY DEF AfterDedupe, AfterDebounce
<1>2. ASSUME NEW S \in SUBSET Spec, S # {}
      PROVE  Min(S) \in Spec
  BY <1>2, CronEventsAssumption, MinOfNats
<1> QED
  BY <1>1, <1>2 DEF FirstQuery

\* The cooldown is asked of specs that have one.
LEMMA CoolingStages ==
  /\ \A s \in Spec : AfterDedupe(s) = "cooling" \/ AfterDebounce(s) = "cooling" => Cooldown[s] > 0
  /\ \A S \in SUBSET Spec : FirstQuery(S) = "cooling" => Cooldown[Min(S)] > 0
<1>1. \A s \in Spec : AfterDedupe(s) = "cooling" \/ AfterDebounce(s) = "cooling" => Cooldown[s] > 0
  BY DEF AfterDedupe, AfterDebounce
<1>2. ASSUME NEW S \in SUBSET Spec, FirstQuery(S) = "cooling"
      PROVE  Cooldown[Min(S)] > 0
  <2>1. S # {} /\ AfterDebounce(Min(S)) = "cooling"
    BY <1>2 DEF FirstQuery
  <2>2. Min(S) \in Spec
    BY <2>1, CronEventsAssumption, MinOfNats
  <2> QED
    BY <1>1, <2>1, <2>2
<1> QED
  BY <1>1, <1>2

\* What the statements that move a call on leave in its locals.
LEMMA WentTo ==
  ASSUME TypeOK, NEW p \in Ingress, NEW stage \in Stages, GoTo(p, stage)
  PROVE  /\ ingest' \in [Ingress -> Calls]
         /\ \A q \in Ingress \ {p} : ingest'[q] = ingest[q]
         /\ ingest'[p].at = stage
         /\ ingest'[p].event = ingest[p].event /\ ingest'[p].todo = ingest[p].todo
         /\ ingest'[p].found = ingest[p].found /\ ingest'[p].until = ingest[p].until
         /\ ingest'[p].matched = ingest[p].matched /\ ingest'[p].queued = ingest[p].queued
  BY DEF TypeOK, Calls, GoTo

LEMMA WentOn ==
  ASSUME TypeOK, NEW p \in Ingress, NEW gotRun \in BOOLEAN, NextSpec(p, gotRun)
  PROVE  /\ ingest' \in [Ingress -> Calls]
         /\ \A q \in Ingress \ {p} : ingest'[q] = ingest[q]
         /\ ingest'[p].at = FirstQuery(ingest[p].todo \ {Current(p)})
         /\ ingest'[p].event = ingest[p].event
         /\ ingest'[p].todo = ingest[p].todo \ {Current(p)}
         /\ ingest'[p].found = {} /\ ingest'[p].until = 0
         /\ ingest'[p].matched = ingest[p].matched
         /\ ingest'[p].queued = (ingest[p].queued \/ gotRun)
<1>1. ingest[p].todo \ {Current(p)} \in SUBSET Spec
  BY DEF TypeOK, Calls
<1>2. FirstQuery(ingest[p].todo \ {Current(p)}) \in Stages
  BY <1>1, NextStages DEF Stages
<1> DEFINE call == [at |-> FirstQuery(ingest[p].todo \ {Current(p)}),
                    event |-> ingest[p].event, todo |-> ingest[p].todo \ {Current(p)},
                    found |-> {}, until |-> 0, matched |-> ingest[p].matched,
                    queued |-> ingest[p].queued \/ gotRun]
<1>3. ingest[p] \in Calls /\ ingest \in [Ingress -> Calls]
  BY DEF TypeOK
<1>5. ingest' = [ingest EXCEPT ![p] = call]
  BY DEF NextSpec
<1>6. call \in Calls
  BY <1>1, <1>2, <1>3 DEF Calls
<1> HIDE DEF call
<1>7. ingest' \in [Ingress -> Calls] /\ \A q \in Ingress \ {p} : ingest'[q] = ingest[q]
  BY <1>3, <1>5, <1>6
<1>8. ingest'[p] = call
  BY <1>3, <1>5
<1> QED
  BY <1>7, <1>8 DEF call

-----------------------------------------------------------------------------
(* What the steps do.                                                       *)

\* A statement of the try block that does not end the call.
Working(p) == Find(p) \/ Extend(p) \/ Dedupe(p) \/ Cool(p) \/ Enqueue(p) \/ Throws(p)

\* The call ends: its outcome is written, or its process dies.
Ending(p) == Finish(p) \/ Fail(p) \/ Dies(p)

\* The row a statement of the call of p writes, for its event.
Writes(p, r, e) ==
  /\ r[1] = Current(p)
  /\ \/ ingest[p].at = "enqueuing" /\ state[r] = "absent"
     \/ /\ ingest[p].at = "extending" /\ r \in ingest[p].found /\ state[r] = "queued"
        /\ scheduled'[r] = PostponedTo(Current(p), e, ingest[p].until)
  /\ state' = [state EXCEPT ![r] = "queued"]
  /\ trigger' = [trigger EXCEPT ![r] = {e}]
  /\ scheduled' \in [Run -> Nat] /\ generation' = generation
  /\ \A x \in Run \ {r} : scheduled'[x] = scheduled[x]

\* The specs that are to come are specs, and there is a current one where it is needed.
LEMMA Pending ==
  ASSUME TypeOK, Loops, NEW p \in Ingress,
         ingest[p].at \in {"finding", "extending", "deduping", "cooling", "enqueuing"}
  PROVE  /\ InTry(p) /\ ingest[p].todo # {}
         /\ Current(p) \in ingest[p].todo /\ Current(p) \in Spec
<1>1. InTry(p) /\ ingest[p].todo # {}
  BY DEF InTry, At, Loops, LoopOf
<1> QED
  BY <1>1, CurrentTodo

LEMMA WritesExtend ==
  ASSUME TypeOK, Busy, Loops, NEW p \in Ingress, At(p, "extending"),
         NEW e \in ingest[p].event, NEW r \in ingest[p].found, Extendable(r),
         trigger' = [trigger EXCEPT ![r] = {e}],
         scheduled' = [scheduled EXCEPT ![r] = PostponedTo(Current(p), e, ingest[p].until)],
         UNCHANGED <<state, generation>>
  PROVE  r \in Run /\ e \in Event /\ Writes(p, r, e)
<1>1. Current(p) \in Spec
  BY Pending DEF At
<1>2. r \in Run /\ r[1] = Current(p)
  BY DEF Loops, LoopOf, InTry, At
<1>3. e \in Event /\ ingest[p].until \in Nat
  BY DEF TypeOK, Calls
<1>4. received[e] + Debounce[Current(p)] \in Nat
  <2>1. received[e] \in Nat
    BY <1>3 DEF TypeOK
  <2>2. Debounce[Current(p)] \in Nat
    BY <1>1, CronEventsAssumption
  <2> QED
    BY <2>1, <2>2
<1>5. PostponedTo(Current(p), e, ingest[p].until) \in Nat
  BY <1>3, <1>4, LaterOfTwo DEF PostponedTo
<1>6. state' = [state EXCEPT ![r] = "queued"]
  BY <1>2 DEF Extendable, TypeOK
<1>7. /\ scheduled' \in [Run -> Nat] /\ \A x \in Run \ {r} : scheduled'[x] = scheduled[x]
      /\ scheduled'[r] = PostponedTo(Current(p), e, ingest[p].until)
  BY <1>2, <1>5 DEF TypeOK
<1> QED
  BY <1>2, <1>3, <1>6, <1>7 DEF Writes, Extendable, At

LEMMA WritesEnqueue ==
  ASSUME TypeOK, Busy, Loops, NEW p \in Ingress, At(p, "enqueuing"),
         NEW e \in ingest[p].event, EnqueueRun(Current(p), e)
  PROVE  e \in Event /\ \E r \in Run : Writes(p, r, e)
<1>1. Current(p) \in Spec
  BY Pending DEF At
<1>2. PICK r \in Run :
           /\ r[1] = Current(p) /\ state[r] = "absent"
           /\ state' = [state EXCEPT ![r] = "queued"]
           /\ trigger' = [trigger EXCEPT ![r] = {e}]
           /\ scheduled' = [scheduled EXCEPT ![r] = received[e] + Debounce[Current(p)]]
           /\ generation' = generation
  BY <1>1, Enqueued
<1>3. e \in Event
  BY DEF TypeOK, Calls
<1>4. received[e] + Debounce[Current(p)] \in Nat
  <2>1. received[e] \in Nat
    BY <1>3 DEF TypeOK
  <2>2. Debounce[Current(p)] \in Nat
    BY <1>1, CronEventsAssumption
  <2> QED
    BY <2>1, <2>2
<1>5. scheduled' \in [Run -> Nat] /\ \A x \in Run \ {r} : scheduled'[x] = scheduled[x]
  BY <1>2, <1>4 DEF TypeOK
<1> QED
  BY <1>2, <1>3, <1>5 DEF Writes, At

\* A working call keeps its event and leaves the log and the other calls alone; of the
\* rows it writes at most one of the current spec, for its event.
LEMMA WorkingSteps ==
  ASSUME TypeOK, Busy, Loops, NEW p \in Ingress, Working(p)
  PROVE  /\ UNCHANGED log /\ UNCHANGED received /\ UNCHANGED clock /\ UNCHANGED lost
         /\ UNCHANGED overlapped /\ faults' \in Nat
         /\ InTry(p) /\ ingest'[p].at # "idle"
         /\ ingest' \in [Ingress -> Calls] /\ \A q \in Ingress \ {p} : ingest'[q] = ingest[q]
         /\ ingest'[p].event = ingest[p].event
         /\ \/ UNCHANGED rows
            \/ /\ Current(p) \in ingest[p].todo
               /\ \E e \in ingest[p].event, r \in Run : e \in Event /\ Writes(p, r, e)
<1> USE DEF At, InTry
<1>1. \A S \in SUBSET Spec : FirstQuery(S) # "idle"
  BY NextStages
<1>2. ingest[p].todo \ {Current(p)} \in SUBSET Spec
  BY DEF TypeOK, Calls
<1>3. \A b \in BOOLEAN : NextSpec(p, b) =>
        /\ ingest' \in [Ingress -> Calls] /\ \A q \in Ingress \ {p} : ingest'[q] = ingest[q]
        /\ ingest'[p].event = ingest[p].event /\ ingest'[p].at # "idle"
  BY <1>1, <1>2, WentOn
<1>4. \A stage \in Stages \ {"idle"} : GoTo(p, stage) =>
        /\ ingest' \in [Ingress -> Calls] /\ \A q \in Ingress \ {p} : ingest'[q] = ingest[q]
        /\ ingest'[p].event = ingest[p].event /\ ingest'[p].at # "idle"
  BY WentTo
<1>5. InTry(p) => ingest[p].at \in {"finding", "extending", "deduping", "cooling", "enqueuing",
                                    "finishing"}
  BY DEF TypeOK, Calls, Stages
<1>6. CASE Find(p)
  <2>1. Current(p) \in Spec
    BY <1>6, Pending DEF Find
  <2>2. AfterDebounce(Current(p)) \in Stages \ {"idle"}
    BY <2>1, NextStages DEF Stages
  <2>3. CASE GoTo(p, AfterDebounce(Current(p)))
    BY <1>4, <1>6, <2>2, <2>3 DEF Find, TypeOK
  <2>4. ASSUME NEW e \in ingest[p].event, NEW r \in FindQueuedEventRunForDedupe(Current(p), e),
               ingest' = [ingest EXCEPT ![p] = [@ EXCEPT !.at = "extending", !.found = {r},
                                                         !.until = scheduled[r]]]
        PROVE  /\ ingest' \in [Ingress -> Calls] /\ \A q \in Ingress \ {p} : ingest'[q] = ingest[q]
               /\ ingest'[p].event = ingest[p].event /\ ingest'[p].at # "idle"
    <3>1. r \in Run /\ scheduled[r] \in Nat
      BY DEF TypeOK, FindQueuedEventRunForDedupe, QueuedInGroup, RowsOf
    <3> QED
      BY <2>4, <3>1 DEF TypeOK, Calls, Stages
  <2> QED
    BY <1>6, <2>3, <2>4 DEF Find, TypeOK
<1>7. CASE Extend(p)
  <2>1. Current(p) \in Spec /\ Current(p) \in ingest[p].todo
    BY <1>7, Pending DEF Extend
  <2>2. AfterDebounce(Current(p)) \in Stages \ {"idle"}
    BY <2>1, NextStages DEF Stages
  <2>3. CASE GoTo(p, AfterDebounce(Current(p))) /\ UNCHANGED rows
    BY <1>4, <1>7, <2>2, <2>3 DEF Extend, TypeOK
  <2>4. ASSUME NEW e \in ingest[p].event, NEW r \in ingest[p].found, Extendable(r),
               trigger' = [trigger EXCEPT ![r] = {e}],
               scheduled' = [scheduled EXCEPT ![r] =
                               PostponedTo(Current(p), e, ingest[p].until)],
               NextSpec(p, TRUE), UNCHANGED <<state, generation>>
        PROVE  /\ ingest' \in [Ingress -> Calls] /\ \A q \in Ingress \ {p} : ingest'[q] = ingest[q]
               /\ ingest'[p].event = ingest[p].event /\ ingest'[p].at # "idle"
               /\ \E d \in ingest[p].event, x \in Run : d \in Event /\ Writes(p, x, d)
    BY <1>3, <1>7, <2>4, WritesExtend DEF Extend
  <2> QED
    BY <1>7, <2>1, <2>3, <2>4 DEF Extend, TypeOK
<1>8. CASE Dedupe(p)
  <2>1. AfterDedupe(Current(p)) \in Stages \ {"idle"}
    BY <1>8, Pending, NextStages DEF Dedupe, Stages
  <2> QED
    BY <1>3, <1>4, <1>8, <2>1 DEF Dedupe, TypeOK
<1>9. CASE Cool(p)
  <2>1. "enqueuing" \in Stages \ {"idle"}
    BY DEF Stages
  <2> QED
    BY <1>3, <1>4, <1>9, <2>1 DEF Cool, TypeOK
<1>10. CASE Enqueue(p)
  <2>1. Current(p) \in ingest[p].todo
    BY <1>10, Pending DEF Enqueue
  <2>2. \E e \in ingest[p].event, r \in Run : e \in Event /\ Writes(p, r, e)
    BY <1>10, WritesEnqueue DEF Enqueue
  <2> QED
    BY <1>3, <1>10, <2>1, <2>2 DEF Enqueue, TypeOK
<1>11. CASE Throws(p)
  <2>1. "failing" \in Stages \ {"idle"}
    BY DEF Stages
  <2>2. \/ UNCHANGED rows
        \/ /\ Current(p) \in ingest[p].todo
           /\ \E e \in ingest[p].event, r \in Run : e \in Event /\ Writes(p, r, e)
    BY <1>11, Pending, WritesEnqueue DEF Throws
  <2> QED
    BY <1>4, <1>11, <2>1, <2>2 DEF Throws, TypeOK
<1> QED
  BY <1>6, <1>7, <1>8, <1>9, <1>10, <1>11 DEF Working

\* A delivered event is logged and starts a call of its own.
LEMMA DeliverSteps ==
  ASSUME TypeOK, NEW p \in Ingress, NEW e \in Event, Deliver(p, e)
  PROVE  /\ ingest[p].at = "idle" /\ log[e] = "absent"
         /\ log' = [log EXCEPT ![e] = "received"]
         /\ received' = [received EXCEPT ![e] = clock]
         /\ UNCHANGED rows /\ UNCHANGED clock /\ UNCHANGED lost /\ UNCHANGED faults
         /\ \A q \in Ingress \ {p} : ingest'[q] = ingest[q]
  BY DEF Deliver, Created, At, TypeOK

\* The call starts with the specs that match.
LEMMA DeliverCalls ==
  ASSUME TypeOK, NEW p \in Ingress, NEW e \in Event, Deliver(p, e)
  PROVE  /\ ingest' \in [Ingress -> Calls]
         /\ ingest'[p].event = {e} /\ ~ingest'[p].queued
         /\ ingest'[p].at \notin {"idle", "failing"}
         /\ \E specs \in SUBSET {s \in Spec : e \in Matching[s]} :
              /\ ingest'[p].at = FirstQuery(specs) /\ ingest'[p].todo = specs
              /\ ingest'[p].matched <=> specs # {}
<1>1. PICK specs \in SUBSET {s \in Spec : e \in Matching[s]} :
       ingest' = [ingest EXCEPT ![p] =
                    [at |-> FirstQuery(specs), event |-> {e}, todo |-> specs, found |-> {},
                     until |-> 0, matched |-> specs # {}, queued |-> FALSE]]
  BY DEF Deliver
<1> DEFINE call == [at |-> FirstQuery(specs), event |-> {e}, todo |-> specs, found |-> {},
                    until |-> 0, matched |-> specs # {}, queued |-> FALSE]
<1>2. FirstQuery(specs) \in Stages \ {"idle", "failing"}
  <2>1. specs \in SUBSET Spec
    OBVIOUS
  <2> QED
    BY <2>1, NextStages DEF Stages
<1>3. call \in Calls
  BY <1>2 DEF Calls
<1>4. ingest' = [ingest EXCEPT ![p] = call] /\ ingest \in [Ingress -> Calls]
  BY <1>1 DEF TypeOK
<1>5. ingest' \in [Ingress -> Calls] /\ ingest'[p] = call
  BY <1>3, <1>4
<1>6. /\ ingest'[p].at = FirstQuery(specs) /\ ingest'[p].todo = specs
      /\ ingest'[p].event = {e} /\ ingest'[p].queued = FALSE
      /\ ingest'[p].matched = (specs # {})
  BY <1>5
<1> HIDE DEF call
<1> QED
  BY <1>2, <1>5, <1>6

LEMMA OutcomesOfCalls ==
  ASSUME NEW call
  PROVE  Outcome(call) \in Statuses \ {"received"}
  BY DEF Outcome, Statuses

\* A call that ends leaves its locals blank, and the log with its outcome or, if the
\* process died on it, as it was.
LEMMA EndingSteps ==
  ASSUME TypeOK, Busy, NEW p \in Ingress, Ending(p)
  PROVE  /\ ingest[p].at # "idle" /\ ingest' = [ingest EXCEPT ![p] = Idle]
         /\ ingest'[p] = Idle /\ \A q \in Ingress \ {p} : ingest'[q] = ingest[q]
         /\ UNCHANGED rows /\ UNCHANGED received /\ UNCHANGED clock /\ UNCHANGED overlapped
         /\ faults' \in Nat
         /\ \/ log' = log /\ lost' = lost \cup ingest[p].event
            \/ /\ lost' = lost
               /\ \E e \in Event :
                    /\ ingest[p].event = {e}
                    /\ \/ log' = [log EXCEPT ![e] = "failed"]
                       \/ /\ ingest[p].at = "finishing"
                          /\ log' = [log EXCEPT ![e] = Outcome(ingest[p])]
<1>1. ingest[p].at # "idle" /\ ingest' = [ingest EXCEPT ![p] = Idle]
  BY DEF Ending, Finish, Fail, Dies, At
<1>2. PICK e \in Event : ingest[p].event = {e}
  BY <1>1 DEF Busy
<1>3. CASE Finish(p)
  BY <1>1, <1>2, <1>3 DEF Finish, TypeOK, At
<1>4. CASE Fail(p)
  <2>1. /\ log' = [log EXCEPT ![e] = "failed"] /\ UNCHANGED lost /\ UNCHANGED rows
        /\ UNCHANGED received /\ UNCHANGED clock /\ UNCHANGED overlapped /\ UNCHANGED faults
    BY <1>2, <1>4 DEF Fail, MarkFailed
  <2>2. ingest'[p] = Idle /\ \A q \in Ingress \ {p} : ingest'[q] = ingest[q]
    BY <1>1 DEF TypeOK
  <2>3. faults' \in Nat
    BY <2>1 DEF TypeOK
  <2> QED
    BY <1>1, <1>2, <2>1, <2>2, <2>3
<1>5. CASE Dies(p)
  BY <1>1, <1>5 DEF Dies, TypeOK
<1> QED
  BY <1>3, <1>4, <1>5 DEF Ending

\* The queue and the clock leave the ingress alone, and no row comes or goes.
LEMMA QuietSteps ==
  ASSUME TypeOK, (\E r \in Run : QueueStep(r)) \/ Tick \/ UNCHANGED vars
  PROVE  /\ UNCHANGED log /\ UNCHANGED received /\ UNCHANGED ingest /\ UNCHANGED lost
         /\ UNCHANGED overlapped /\ UNCHANGED trigger /\ UNCHANGED scheduled
         /\ clock' \in Nat /\ clock' >= clock /\ UNCHANGED faults
         /\ state' \in [Run -> {"absent", "queued", "running"} \cup Queue!Outcomes]
         /\ generation' \in [Run -> Nat]
         /\ \A r \in Run : state'[r] = "absent" <=> state[r] = "absent"
<1>1. ASSUME NEW r \in Run, QueueStep(r)
      PROVE  /\ state' \in [Run -> {"absent", "queued", "running"} \cup Queue!Outcomes]
             /\ generation' \in [Run -> Nat]
             /\ \A x \in Run : state'[x] = "absent" <=> state[x] = "absent"
  <2>1. PICK to \in {"queued", "running", "cancelled"}, n \in {0, 1} :
          /\ state' = [state EXCEPT ![r] = to]
          /\ generation' = [generation EXCEPT ![r] = @ + n]
    BY <1>1 DEF QueueStep
  <2>2. state[r] \in {"queued", "running"}
    BY <1>1 DEF QueueStep
  <2>3. generation' \in [Run -> Nat]
    BY <2>1 DEF TypeOK
  <2>4. state' \in [Run -> {"absent", "queued", "running"} \cup Queue!Outcomes]
    BY <2>1 DEF TypeOK, Queue!Outcomes
  <2>5. \A x \in Run : state'[x] = "absent" <=> state[x] = "absent"
    BY <2>1, <2>2 DEF TypeOK
  <2> QED
    BY <2>3, <2>4, <2>5
<1>2. CASE \E r \in Run : QueueStep(r)
  <2>1. /\ UNCHANGED log /\ UNCHANGED received /\ UNCHANGED ingest /\ UNCHANGED lost
        /\ UNCHANGED overlapped /\ UNCHANGED trigger /\ UNCHANGED scheduled
        /\ UNCHANGED clock /\ UNCHANGED faults
    BY <1>2 DEF QueueStep
  <2>2. clock \in Nat
    BY DEF TypeOK
  <2> QED
    BY <1>1, <1>2, <2>1, <2>2
<1>3. CASE Tick
  BY <1>3 DEF Tick, rows, TypeOK
<1>4. CASE UNCHANGED vars
  BY <1>4 DEF vars, rows, TypeOK
<1> QED
  BY <1>2, <1>3, <1>4

\* Every step is one of these.
LEMMA StepKinds ==
  ASSUME [Next]_vars
  PROVE  \/ \E p \in Ingress : (\E e \in Event : Deliver(p, e)) \/ Working(p) \/ Ending(p)
         \/ (\E r \in Run : QueueStep(r)) \/ Tick \/ UNCHANGED vars
  BY DEF Next, Statement, Working, Ending

-----------------------------------------------------------------------------
(* The parts of the invariant.                                              *)

LEMMA TypeStep ==
  ASSUME TypeOK, Busy, Loops, [Next]_vars
  PROVE  TypeOK'
<1>1. ASSUME NEW p \in Ingress, NEW e \in Event, Deliver(p, e)
      PROVE  TypeOK'
  <2>1. overlapped' \in BOOLEAN
    BY <1>1 DEF Deliver, TypeOK
  <2> QED
    <3>1. log' \in [Event -> Statuses \cup {"absent"}] /\ received' \in [Event -> Nat]
      BY <1>1, DeliverSteps DEF TypeOK, Statuses
    <3>2. ingest' \in [Ingress -> Calls] /\ UNCHANGED rows /\ UNCHANGED clock
          /\ UNCHANGED lost /\ UNCHANGED faults
      BY <1>1, DeliverSteps, DeliverCalls
    <3> QED
      BY <2>1, <3>1, <3>2 DEF TypeOK, rows
<1>2. ASSUME NEW p \in Ingress, Working(p)
      PROVE  TypeOK'
  <2>1. CASE UNCHANGED rows
    BY <1>2, <2>1, WorkingSteps DEF TypeOK, rows
  <2>2. ASSUME NEW e \in Event, NEW r \in Run, Writes(p, r, e)
        PROVE  TypeOK'
    <3>1. /\ state' \in [Run -> {"absent", "queued", "running"} \cup Queue!Outcomes]
          /\ trigger' \in [Run -> SUBSET Event] /\ generation' \in [Run -> Nat]
          /\ scheduled' \in [Run -> Nat]
      BY <2>2 DEF Writes, TypeOK
    <3> QED
      BY <1>2, <3>1, WorkingSteps DEF TypeOK
  <2> QED
    BY <1>2, <2>1, <2>2, WorkingSteps
<1>3. ASSUME NEW p \in Ingress, Ending(p)
      PROVE  TypeOK'
  <2>1. Idle \in Calls
    BY DEF Idle, Calls, Stages
  <2>2. ingest' \in [Ingress -> Calls]
    BY <1>3, <2>1, EndingSteps DEF TypeOK
  <2>3. ingest[p].event \in SUBSET Event
    BY DEF TypeOK, Calls
  <2>4. log' \in [Event -> Statuses \cup {"absent"}] /\ lost' \in SUBSET Event
    BY <1>3, <2>3, EndingSteps, OutcomesOfCalls DEF TypeOK, Statuses
  <2> QED
    BY <1>3, <2>2, <2>4, EndingSteps DEF TypeOK, rows
<1>4. ASSUME (\E r \in Run : QueueStep(r)) \/ Tick \/ UNCHANGED vars
      PROVE  TypeOK'
  BY <1>4, QuietSteps DEF TypeOK
<1> QED
  BY <1>1, <1>2, <1>3, <1>4, StepKinds

LEMMA BusyStep ==
  ASSUME TypeOK, Busy, Apart, Loops, [Next]_vars
  PROVE  Busy' /\ Apart'
<1>1. ASSUME NEW p \in Ingress, NEW e \in Event, Deliver(p, e)
      PROVE  Busy' /\ Apart'
  <2>1. /\ ingest'[p].at # "idle" /\ ingest'[p].event = {e}
        /\ \A q \in Ingress \ {p} : ingest'[q] = ingest[q]
        /\ log[e] = "absent" /\ log'[e] = "received" /\ \A t \in Event \ {e} : log'[t] = log[t]
    BY <1>1, DeliverSteps, DeliverCalls DEF TypeOK
  <2>2. \A q \in Ingress : e \notin ingest[q].event
    BY <2>1 DEF Busy, Idle
  <2>3. Busy'
    BY <2>1 DEF Busy, Idle
  <2> QED
    BY <2>1, <2>2, <2>3 DEF Apart
<1>2. ASSUME NEW p \in Ingress, Working(p)
      PROVE  Busy' /\ Apart'
  <2>1. /\ ingest[p].at # "idle" /\ ingest'[p].at # "idle"
        /\ ingest'[p].event = ingest[p].event /\ log' = log
        /\ \A q \in Ingress \ {p} : ingest'[q] = ingest[q]
    BY <1>2, WorkingSteps DEF InTry, At
  <2> QED
    BY <2>1 DEF Busy, Apart, Idle
<1>3. ASSUME NEW p \in Ingress, Ending(p)
      PROVE  Busy' /\ Apart'
  <2>1. /\ ingest'[p] = Idle /\ \A q \in Ingress \ {p} : ingest'[q] = ingest[q]
        /\ \A t \in Event \ ingest[p].event : log'[t] = log[t]
    BY <1>3, EndingSteps DEF TypeOK
  <2> QED
    BY <2>1 DEF Busy, Apart, Idle
<1>4. ASSUME (\E r \in Run : QueueStep(r)) \/ Tick \/ UNCHANGED vars
      PROVE  Busy' /\ Apart'
  BY <1>4, QuietSteps DEF Busy, Apart
<1> QED
  BY <1>1, <1>2, <1>3, <1>4, StepKinds

LEMMA SettlesStep ==
  ASSUME TypeOK, Busy, Loops, LogSettles, Times, [Next]_vars
  PROVE  LogSettles' /\ Times'
<1>1. ASSUME NEW p \in Ingress, NEW e \in Event, Deliver(p, e)
      PROVE  LogSettles' /\ Times'
  <2>1. /\ ingest'[p].event = {e} /\ lost' = lost /\ ingest[p].at = "idle"
        /\ \A q \in Ingress \ {p} : ingest'[q] = ingest[q]
        /\ \A t \in Event \ {e} : log'[t] = log[t] /\ received'[t] = received[t]
        /\ received'[e] = clock /\ clock' = clock
    BY <1>1, DeliverSteps, DeliverCalls DEF TypeOK
  <2>2. LogSettles'
    BY <2>1 DEF LogSettles, Busy, Idle
  <2>3. clock \in Nat
    BY DEF TypeOK
  <2>4. Times'
    BY <2>1, <2>3 DEF Times
  <2> QED
    BY <2>2, <2>4
<1>2. ASSUME NEW p \in Ingress, Working(p)
      PROVE  LogSettles' /\ Times'
  BY <1>2, WorkingSteps DEF LogSettles, Times
<1>3. ASSUME NEW p \in Ingress, Ending(p)
      PROVE  LogSettles' /\ Times'
  <2>1. /\ \A q \in Ingress \ {p} : ingest'[q] = ingest[q]
        /\ received' = received /\ clock' = clock /\ lost \subseteq lost'
        /\ \A t \in Event \ ingest[p].event : log'[t] = log[t]
        /\ \A t \in ingest[p].event : log'[t] # "received" \/ t \in lost'
        /\ \A t \in Event : log'[t] # "absent" => log[t] # "absent"
    BY <1>3, EndingSteps, OutcomesOfCalls DEF TypeOK, Busy, Statuses
  <2> QED
    BY <2>1 DEF LogSettles, Times
<1>4. ASSUME (\E r \in Run : QueueStep(r)) \/ Tick \/ UNCHANGED vars
      PROVE  LogSettles' /\ Times'
  <2>1. /\ UNCHANGED log /\ UNCHANGED received /\ UNCHANGED ingest /\ UNCHANGED lost
        /\ clock' \in Nat /\ clock' >= clock
    BY <1>4, QuietSteps
  <2>2. LogSettles'
    BY <2>1 DEF LogSettles
  <2>3. ASSUME NEW t \in Event, log'[t] # "absent"
        PROVE  received'[t] <= clock'
    <3>1. received[t] <= clock /\ received[t] \in Nat /\ clock \in Nat
      BY <2>1, <2>3 DEF Times, TypeOK
    <3> QED
      BY <2>1, <3>1
  <2> QED
    BY <2>2, <2>3 DEF Times
<1> QED
  BY <1>1, <1>2, <1>3, <1>4, StepKinds

\* The triggers, and that no spec has two runs for an event.
LEMMA TriggersStep ==
  ASSUME TypeOK, Busy, Loops, Triggers, OneRunPerEvent, [Next]_vars
  PROVE  Triggers' /\ OneRunPerEvent'
<1>1. ASSUME NEW p \in Ingress, NEW e \in Event, Deliver(p, e)
      PROVE  Triggers' /\ OneRunPerEvent'
  <2>1. UNCHANGED rows /\ \A t \in Event : log[t] # "absent" => log'[t] # "absent"
    BY <1>1, DeliverSteps DEF TypeOK
  <2> QED
    BY <2>1 DEF Triggers, OneRunPerEvent, Rows, rows
<1>2. ASSUME NEW p \in Ingress, Working(p)
      PROVE  Triggers' /\ OneRunPerEvent'
  <2>1. CASE UNCHANGED rows
    BY <1>2, <2>1, WorkingSteps DEF Triggers, OneRunPerEvent, Rows, rows
  <2>2. ASSUME Current(p) \in ingest[p].todo, NEW e \in ingest[p].event, e \in Event,
               NEW r \in Run, Writes(p, r, e)
        PROVE  Triggers' /\ OneRunPerEvent'
    <3>1. /\ r[1] \in ingest[p].todo
          /\ \A x \in Run \ {r} : trigger'[x] = trigger[x] /\ state'[x] = state[x]
          /\ trigger'[r] = {e} /\ state'[r] = "queued"
      BY <2>2 DEF Writes, TypeOK
    <3>2. log' = log /\ log[e] # "absent" /\ InTry(p)
      BY <1>2, <2>2, WorkingSteps DEF Busy, InTry, At
    <3>3. \A x \in Run : e \in trigger[x] => x[1] # r[1]
      BY <2>2, <3>1, <3>2 DEF Loops, LoopOf
    <3>4. Triggers'
      BY <2>2, <3>1, <3>2 DEF Triggers
    <3>5. OneRunPerEvent'
      BY <3>1, <3>3 DEF OneRunPerEvent, Rows
    <3> QED
      BY <3>4, <3>5
  <2> QED
    BY <1>2, <2>1, <2>2, WorkingSteps
<1>3. ASSUME NEW p \in Ingress, Ending(p)
      PROVE  Triggers' /\ OneRunPerEvent'
  <2>1. UNCHANGED rows /\ \A t \in Event : log[t] # "absent" => log'[t] # "absent"
    BY <1>3, EndingSteps, OutcomesOfCalls DEF TypeOK, Statuses
  <2> QED
    BY <2>1 DEF Triggers, OneRunPerEvent, Rows, rows
<1>4. ASSUME (\E r \in Run : QueueStep(r)) \/ Tick \/ UNCHANGED vars
      PROVE  Triggers' /\ OneRunPerEvent'
  BY <1>4, QuietSteps DEF Triggers, OneRunPerEvent, Rows
<1> QED
  BY <1>1, <1>2, <1>3, <1>4, StepKinds

\* A call whose rows and locals others leave alone goes on as it was.
LEMMA LoopsOthers ==
  ASSUME Loops, NEW q \in Ingress, ingest'[q] = ingest[q],
         \A e \in ingest[q].event, r \in Run : e \in trigger'[r] => e \in trigger[r],
         \A r \in Run : state'[r] = "absent" => state[r] = "absent"
  PROVE  LoopOf(q)'
<1>1. Current(q)' = Current(q) /\ InTry(q)' = InTry(q)
  BY DEF Current, InTry, At
<1>2. InTry(q) => LoopOf(q)'
  <2> SUFFICES ASSUME InTry(q)
               PROVE  LoopOf(q)'
    OBVIOUS
  <2>1. \A e \in ingest'[q].event :
          /\ \A s \in ingest'[q].todo : e \in Matching[s]
          /\ \A r \in Run : e \in trigger'[r] =>
               ingest'[q].queued /\ r[1] \notin ingest'[q].todo
    BY DEF Loops, LoopOf
  <2>2. /\ ingest'[q].at = "finishing" <=> ingest'[q].todo = {}
        /\ ~ingest'[q].matched => ingest'[q].todo = {} /\ ~ingest'[q].queued
    BY DEF Loops, LoopOf
  <2>3. ingest'[q].at = "extending" =>
          \E r \in Run : /\ ingest'[q].found = {r} /\ r[1] = Current(q)
                         /\ state'[r] # "absent"
    BY DEF Loops, LoopOf
  <2>4. ingest'[q].at = "cooling" => Cooldown[Current(q)] > 0
    BY DEF Loops, LoopOf
  <2> QED
    BY <1>1, <2>1, <2>2, <2>3, <2>4 DEF LoopOf
<1> QED
  BY <1>1, <1>2 DEF LoopOf

\* The next query for the same spec, or none after a statement threw.
LEMMA LoopGoesTo ==
  ASSUME TypeOK, Loops, NEW p \in Ingress, InTry(p), ingest[p].todo # {},
         NEW stage \in {"deduping", "cooling", "enqueuing"}, GoTo(p, stage),
         stage = "cooling" => Cooldown[Current(p)] > 0, UNCHANGED rows
  PROVE  LoopOf(p)'
<1>1. stage \in Stages
  BY DEF Stages
<1>2. /\ ingest'[p].at = stage
      /\ ingest'[p].event = ingest[p].event /\ ingest'[p].todo = ingest[p].todo
      /\ ingest'[p].matched = ingest[p].matched /\ ingest'[p].queued = ingest[p].queued
  BY <1>1, WentTo
<1>3. Current(p)' = Current(p)
  BY <1>2 DEF Current
<1> QED
  BY <1>2, <1>3 DEF Loops, LoopOf, rows

\* The next spec: the one that was current is off the list, with a run or without.
LEMMA LoopNext ==
  ASSUME TypeOK, Loops, NEW p \in Ingress, InTry(p), ingest[p].todo # {},
         NEW gotRun \in BOOLEAN, NextSpec(p, gotRun),
         \/ UNCHANGED rows
         \/ gotRun /\ \E e \in ingest[p].event, r \in Run : Writes(p, r, e)
  PROVE  LoopOf(p)'
<1> DEFINE rest == ingest[p].todo \ {Current(p)}
<1>1. /\ ingest'[p].at = FirstQuery(rest)
      /\ ingest'[p].event = ingest[p].event /\ ingest'[p].todo = rest
      /\ ingest'[p].matched = ingest[p].matched
      /\ ingest'[p].queued = (ingest[p].queued \/ gotRun)
  BY WentOn
<1>2. rest \in SUBSET Spec
  BY DEF TypeOK, Calls
<1>3. FirstQuery(rest) # "extending" /\ (FirstQuery(rest) = "finishing" <=> rest = {})
  BY <1>2, NextStages
<1>4. ingest[p].matched
  BY DEF Loops, LoopOf
<1>8. FirstQuery(rest) = "cooling" => Cooldown[Min(rest)] > 0
  BY <1>2, CoolingStages
<1>9. Current(p)' = Min(rest)
  BY <1>1 DEF Current
<1>5. \A e \in ingest[p].event : \A s \in rest : e \in Matching[s]
  BY DEF Loops, LoopOf
<1>6. \A e \in ingest[p].event, r \in Run :
        e \in trigger[r] => ingest[p].queued /\ r[1] \notin ingest[p].todo
  BY DEF Loops, LoopOf
<1>7. \A e \in ingest[p].event, r \in Run :
        e \in trigger'[r] => (ingest[p].queued \/ gotRun) /\ r[1] \notin rest
  <2>1. CASE UNCHANGED rows
    BY <1>6, <2>1 DEF rows
  <2>2. ASSUME gotRun, NEW d \in ingest[p].event, NEW x \in Run, Writes(p, x, d)
        PROVE  \A e \in ingest[p].event, r \in Run :
                 e \in trigger'[r] => (ingest[p].queued \/ gotRun) /\ r[1] \notin rest
    BY <1>6, <2>2 DEF Writes, TypeOK
  <2> QED
    BY <2>1, <2>2
<1> HIDE DEF rest
<1> QED
  BY <1>1, <1>3, <1>4, <1>5, <1>7, <1>8, <1>9 DEF LoopOf

LEMMA LoopsStep ==
  ASSUME TypeOK, Busy, Apart, Triggers, Loops, [Next]_vars
  PROVE  Loops'
<1>1. ASSUME NEW p \in Ingress, NEW e \in Event, Deliver(p, e)
      PROVE  Loops'
  <2>1. UNCHANGED rows /\ log[e] = "absent" /\ \A q \in Ingress \ {p} : ingest'[q] = ingest[q]
    BY <1>1, DeliverSteps
  <2>2. LoopOf(p)'
    <3>1. \A r \in Run : e \notin trigger'[r]
      BY <2>1 DEF Triggers, rows
    <3>2. PICK specs \in SUBSET {s \in Spec : e \in Matching[s]} :
            /\ ingest'[p].at = FirstQuery(specs) /\ ingest'[p].todo = specs
            /\ ingest'[p].matched <=> specs # {}
      BY <1>1, DeliverCalls
    <3>3. ingest'[p].event = {e} /\ ~ingest'[p].queued
      BY <1>1, DeliverCalls
    <3>4. specs \in SUBSET Spec
      OBVIOUS
    <3>5. FirstQuery(specs) # "extending" /\ (FirstQuery(specs) = "finishing" <=> specs = {})
      BY <3>4, NextStages
    <3>6. ingest'[p].at = "cooling" => Cooldown[Current(p)'] > 0
      BY <3>2, <3>4, CoolingStages DEF Current
    <3> QED
      BY <3>1, <3>2, <3>3, <3>5, <3>6 DEF LoopOf
  <2>3. \A q \in Ingress \ {p} : LoopOf(q)'
    BY <2>1, LoopsOthers DEF rows
  <2> QED
    BY <2>2, <2>3 DEF Loops
<1>2. ASSUME NEW p \in Ingress, Working(p)
      PROVE  Loops'
  <2>1. \A q \in Ingress \ {p} : LoopOf(q)'
    <3>1. \A q \in Ingress \ {p} :
            ingest'[q] = ingest[q] /\ ingest[p].event \cap ingest[q].event = {}
      BY <1>2, WorkingSteps DEF Apart
    <3>2. CASE UNCHANGED rows
      BY <3>1, <3>2, LoopsOthers DEF rows
    <3>3. ASSUME NEW d \in ingest[p].event, NEW x \in Run, Writes(p, x, d)
          PROVE  \A q \in Ingress \ {p} : LoopOf(q)'
      <4>1. \A r \in Run : trigger'[r] = trigger[r] \/ trigger'[r] = {d}
        BY <3>3 DEF Writes, TypeOK
      <4>2. \A r \in Run : state'[r] = "absent" => state[r] = "absent"
        BY <3>3 DEF Writes, TypeOK
      <4> QED
        BY <3>1, <4>1, <4>2, LoopsOthers
    <3> QED
      BY <1>2, <3>2, <3>3, WorkingSteps
  <2>2. LoopOf(p)'
    <3>1. CASE Throws(p)
      <4>1. GoTo(p, "failing") /\ "failing" \in Stages
        BY <3>1 DEF Throws, Stages
      <4>2. ingest'[p].at = "failing"
        BY <4>1, WentTo
      <4> QED
        BY <4>2 DEF LoopOf, InTry, At
    <3>2. CASE Find(p) \/ Extend(p) \/ Dedupe(p) \/ Cool(p) \/ Enqueue(p)
      <4>1. InTry(p) /\ ingest[p].todo # {} /\ Current(p) \in Spec
        BY <3>2, Pending DEF Find, Extend, Dedupe, Cool, Enqueue, At
      <4>2. /\ AfterDebounce(Current(p)) \in {"deduping", "cooling", "enqueuing"}
            /\ AfterDedupe(Current(p)) \in {"deduping", "cooling", "enqueuing"}
        BY <4>1, NextStages
      <4>8. /\ AfterDebounce(Current(p)) = "cooling" => Cooldown[Current(p)] > 0
            /\ AfterDedupe(Current(p)) = "cooling" => Cooldown[Current(p)] > 0
        BY <4>1, CoolingStages
      <4>3. CASE Find(p)
        <5>1. UNCHANGED rows
          BY <4>3 DEF Find
        <5>2. ASSUME NEW e \in ingest[p].event,
                     NEW r \in FindQueuedEventRunForDedupe(Current(p), e),
                     ingest' = [ingest EXCEPT ![p] =
                       [@ EXCEPT !.at = "extending", !.found = {r}, !.until = scheduled[r]]]
              PROVE  LoopOf(p)'
          <6>1. r \in Run /\ r[1] = Current(p) /\ state[r] # "absent"
            BY DEF FindQueuedEventRunForDedupe, QueuedInGroup, RowsOf
          <6>2. /\ ingest'[p].at = "extending" /\ ingest'[p].found = {r}
                /\ ingest'[p].event = ingest[p].event /\ ingest'[p].todo = ingest[p].todo
                /\ ingest'[p].matched = ingest[p].matched
                /\ ingest'[p].queued = ingest[p].queued
            BY <5>2 DEF TypeOK, Calls
          <6>3. Current(p)' = Current(p)
            BY <6>2 DEF Current
          <6> QED
            BY <4>1, <5>1, <6>1, <6>2, <6>3 DEF Loops, LoopOf, rows
        <5>3. CASE GoTo(p, AfterDebounce(Current(p)))
          BY <4>1, <4>2, <4>8, <5>1, <5>3, LoopGoesTo
        <5> QED
          BY <4>3, <5>2, <5>3 DEF Find
      <4>4. CASE Extend(p)
        <5>1. CASE GoTo(p, AfterDebounce(Current(p))) /\ UNCHANGED rows
          BY <4>1, <4>2, <4>8, <5>1, LoopGoesTo
        <5>2. CASE NextSpec(p, TRUE) /\ \E e \in ingest[p].event, r \in Run : Writes(p, r, e)
          BY <4>1, <5>2, LoopNext
        <5> QED
          BY <4>4, <5>1, <5>2, WritesExtend DEF Extend
      <4>5. CASE Dedupe(p)
        BY <4>1, <4>2, <4>5, <4>8, LoopGoesTo, LoopNext DEF Dedupe
      <4>6. CASE Cool(p)
        BY <4>1, <4>2, <4>6, <4>8, LoopGoesTo, LoopNext DEF Cool
      <4>7. CASE Enqueue(p)
        <5>1. NextSpec(p, TRUE) /\ \E e \in ingest[p].event, r \in Run : Writes(p, r, e)
          BY <4>7, WritesEnqueue DEF Enqueue
        <5> QED
          BY <4>1, <5>1, LoopNext
      <4> QED
        BY <3>2, <4>3, <4>4, <4>5, <4>6, <4>7
    <3> QED
      BY <1>2, <3>1, <3>2 DEF Working
  <2> QED
    BY <2>1, <2>2 DEF Loops
<1>3. ASSUME NEW p \in Ingress, Ending(p)
      PROVE  Loops'
  <2>1. UNCHANGED rows /\ ingest'[p] = Idle /\ \A q \in Ingress \ {p} : ingest'[q] = ingest[q]
    BY <1>3, EndingSteps
  <2>2. LoopOf(p)'
    BY <2>1 DEF LoopOf, InTry, At, Idle
  <2>3. \A q \in Ingress \ {p} : LoopOf(q)'
    BY <2>1, LoopsOthers DEF rows
  <2> QED
    BY <2>2, <2>3 DEF Loops
<1>4. ASSUME (\E r \in Run : QueueStep(r)) \/ Tick \/ UNCHANGED vars
      PROVE  Loops'
  BY <1>4, QuietSteps, LoopsOthers DEF Loops
<1> QED
  BY <1>1, <1>2, <1>3, <1>4, StepKinds

\* An event that was logged as unmatched or suppressed triggers no run.
LEMMA LogKnownStep ==
  ASSUME TypeOK, Busy, Apart, Triggers, Loops, LogKnown, [Next]_vars
  PROVE  LogKnown'
<1>1. ASSUME NEW p \in Ingress, NEW e \in Event, Deliver(p, e)
      PROVE  LogKnown'
  <2>1. UNCHANGED rows /\ log'[e] = "received" /\ \A t \in Event \ {e} : log'[t] = log[t]
    BY <1>1, DeliverSteps DEF TypeOK
  <2> QED
    BY <2>1 DEF LogKnown, rows
<1>2. ASSUME NEW p \in Ingress, Working(p)
      PROVE  LogKnown'
  <2>1. log' = log
    BY <1>2, WorkingSteps
  <2>2. CASE UNCHANGED rows
    BY <2>1, <2>2 DEF LogKnown, rows
  <2>3. ASSUME NEW d \in ingest[p].event, NEW x \in Run, Writes(p, x, d)
        PROVE  LogKnown'
    <3>1. \A r \in Run : trigger'[r] = trigger[r] \/ trigger'[r] = {d}
      BY <2>3 DEF Writes, TypeOK
    <3>2. log[d] = "received"
      BY <1>2, <2>3, WorkingSteps DEF Busy, InTry, At
    <3> QED
      BY <2>1, <3>1, <3>2 DEF LogKnown
  <2> QED
    BY <1>2, <2>2, <2>3, WorkingSteps
<1>3. ASSUME NEW p \in Ingress, Ending(p)
      PROVE  LogKnown'
  <2>1. UNCHANGED rows
    BY <1>3, EndingSteps
  <2>2. ASSUME NEW e \in Event, ingest[p].event = {e}, ingest[p].at = "finishing",
               log' = [log EXCEPT ![e] = Outcome(ingest[p])]
        PROVE  LogKnown'
    <3>1. \A t \in Event \ {e} : log'[t] = log[t]
      BY <2>2 DEF TypeOK
    <3>2. log'[e] \in {"unmatched", "suppressed"} => ~ingest[p].queued
      BY <2>2 DEF TypeOK, Outcome, Loops, LoopOf, InTry, At
    <3>3. ~ingest[p].queued => \A r \in Run : e \notin trigger[r]
      BY <2>2 DEF Loops, LoopOf, InTry, At
    <3> QED
      BY <2>1, <3>1, <3>2, <3>3 DEF LogKnown, rows
  <2>3. CASE \E e \in Event : log' = [log EXCEPT ![e] = "failed"]
    BY <2>1, <2>3 DEF LogKnown, rows, TypeOK
  <2>4. CASE log' = log
    BY <2>1, <2>4 DEF LogKnown, rows
  <2> QED
    BY <1>3, <2>2, <2>3, <2>4, EndingSteps
<1>4. ASSUME (\E r \in Run : QueueStep(r)) \/ Tick \/ UNCHANGED vars
      PROVE  LogKnown'
  BY <1>4, QuietSteps DEF LogKnown
<1> QED
  BY <1>1, <1>2, <1>3, <1>4, StepKinds

-----------------------------------------------------------------------------
(* While no two calls overlapped.                                           *)

\* The order of the queries: the windows a spec has are asked before it gets a row.
LEMMA QueryOrder ==
  /\ \A s \in Spec : /\ AfterDedupe(s) = "enqueuing" => Cooldown[s] = 0
                     /\ AfterDebounce(s) \in {"cooling", "enqueuing"} => DedupeWindow[s] = 0
                     /\ AfterDebounce(s) = "enqueuing" => Cooldown[s] = 0
  /\ \A S \in SUBSET Spec : S # {} =>
       /\ FirstQuery(S) \in {"cooling", "enqueuing"} => DedupeWindow[Min(S)] = 0
       /\ FirstQuery(S) = "enqueuing" => Cooldown[Min(S)] = 0
<1>1. ASSUME NEW s \in Spec
      PROVE  /\ AfterDedupe(s) = "enqueuing" => Cooldown[s] = 0
             /\ AfterDebounce(s) \in {"cooling", "enqueuing"} => DedupeWindow[s] = 0
             /\ AfterDebounce(s) = "enqueuing" => Cooldown[s] = 0
  <2>1. DedupeWindow[s] \in Nat /\ Cooldown[s] \in Nat
    BY CronEventsAssumption
  <2> QED
    BY <2>1 DEF AfterDedupe, AfterDebounce
<1>2. ASSUME NEW S \in SUBSET Spec, S # {}
      PROVE  /\ FirstQuery(S) \in {"cooling", "enqueuing"} => DedupeWindow[Min(S)] = 0
             /\ FirstQuery(S) = "enqueuing" => Cooldown[Min(S)] = 0
  <2>1. Min(S) \in Spec
    BY <1>2, CronEventsAssumption, MinOfNats
  <2> QED
    BY <1>1, <1>2, <2>1 DEF FirstQuery
<1> QED
  BY <1>1, <1>2

\* A row that stands for an event goes on to stand for it when it is written for a later
\* event of its group.
LEMMA StandingKept ==
  ASSUME TypeOK, NEW p \in Ingress, NEW d \in Event, NEW x \in Run, Writes(p, x, d),
         state[x] = "absent" \/ trigger[x] \subseteq Group(d),
         \A t \in Event : log[t] # "absent" => received[t] <= received[d],
         Triggers, UNCHANGED received, NEW e \in Event, HasStanding(e)
  PROVE  HasStanding(e)'
<1>1. PICK r \in Run : state[r] # "absent" /\ e \in Matching[r[1]] /\ StandsFor(r, e)
  BY DEF HasStanding
<1>2. /\ \A y \in Run \ {x} : trigger'[y] = trigger[y] /\ state'[y] = state[y]
      /\ trigger'[x] = {d} /\ state'[x] = "queued"
  BY DEF Writes, TypeOK
<1>3. CASE r # x
  <2>1. StandsFor(r, e)'
    BY <1>1, <1>2, <1>3 DEF StandsFor
  <2> QED
    BY <1>1, <1>2, <1>3, <2>1 DEF HasStanding
<1>4. CASE r = x
  <2>1. PICK t \in Event :
          /\ t \in trigger[x] /\ KeyOf[t] = KeyOf[d] /\ received[t] <= received[d]
          /\ \/ Cooldown[r[1]] > 0 /\ received[t] + Cooldown[r[1]] >= received[e]
             \/ KeyOf[t] = KeyOf[e] /\ received[t] + DedupeWindow[r[1]] >= received[e]
    BY <1>1, <1>4 DEF StandsFor, Triggers, Group
  <2>2. Cooldown[r[1]] \in Nat /\ DedupeWindow[r[1]] \in Nat
    BY CronEventsAssumption DEF Run
  <2>3. received[t] \in Nat /\ received[d] \in Nat /\ received[e] \in Nat
    BY DEF TypeOK
  <2>4. \/ Cooldown[r[1]] > 0 /\ received[d] + Cooldown[r[1]] >= received[e]
        \/ KeyOf[d] = KeyOf[e] /\ received[d] + DedupeWindow[r[1]] >= received[e]
    BY <2>1, <2>2, <2>3
  <2>5. StandsFor(r, e)'
    BY <1>2, <1>4, <2>4 DEF StandsFor
  <2> QED
    BY <1>1, <1>2, <1>4, <2>5 DEF HasStanding
<1> QED
  BY <1>3, <1>4

\* A suppression finds a row that stands for the event.
LEMMA SuppressedStands ==
  ASSUME TypeOK, NEW s \in Spec, NEW e \in Event, e \in Matching[s],
         \/ HasRecentEventRunForDedupe(s, e)
         \/ HasRecentEventRunForSpec(s, e) /\ Cooldown[s] > 0
  PROVE  HasStanding(e)
<1>0. /\ DedupeWindow[s] \in Nat /\ Cooldown[s] \in Nat
      /\ \A t \in Event : received[t] \in Nat
  BY CronEventsAssumption DEF TypeOK
<1>1. CASE HasRecentEventRunForDedupe(s, e)
  <2>1. PICK r \in Run, t \in Event :
          /\ r[1] = s /\ state[r] # "absent" /\ t \in trigger[r]
          /\ KeyOf[t] = KeyOf[e] /\ received[t] >= received[e] - DedupeWindow[s]
    BY <1>1 DEF HasRecentEventRunForDedupe, RowsOf, Group, Since
  <2>2. received[t] + DedupeWindow[s] >= received[e]
    BY <1>0, <2>1
  <2> QED
    BY <2>1, <2>2 DEF HasStanding, StandsFor
<1>2. CASE HasRecentEventRunForSpec(s, e) /\ Cooldown[s] > 0
  <2>1. PICK r \in Run, t \in Event :
          /\ r[1] = s /\ state[r] # "absent" /\ t \in trigger[r]
          /\ received[t] >= received[e] - Cooldown[s]
    BY <1>2 DEF HasRecentEventRunForSpec, RowsOf, Since
  <2>2. received[t] + Cooldown[s] >= received[e]
    BY <1>0, <2>1
  <2> QED
    BY <1>2, <2>1, <2>2 DEF HasStanding, StandsFor
<1> QED
  BY <1>1, <1>2

\* The row that was written for an event stands for it.
LEMMA WrittenStands ==
  ASSUME TypeOK, NEW p \in Ingress, NEW e \in Event, NEW r \in Run, Writes(p, r, e),
         e \in Matching[Current(p)], UNCHANGED received
  PROVE  HasStanding(e)'
<1>1. r[1] = Current(p) /\ trigger'[r] = {e} /\ state'[r] = "queued"
  BY DEF Writes, TypeOK
<1>2. DedupeWindow[r[1]] \in Nat /\ received[e] \in Nat
  BY CronEventsAssumption DEF TypeOK, Run
<1>3. received[e] + DedupeWindow[r[1]] >= received[e]
  BY <1>2
<1>4. StandsFor(r, e)'
  BY <1>1, <1>3 DEF StandsFor
<1> QED
  BY <1>1, <1>4 DEF HasStanding

\* What stands for an event goes on to when neither triggers nor times change.
LEMMA StandingStays ==
  ASSUME NEW e \in Event, HasStanding(e), received'[e] = received[e],
         \A r \in Run : /\ trigger'[r] = trigger[r]
                        /\ state'[r] = "absent" => state[r] = "absent"
                        /\ \A t \in trigger[r] : received'[t] = received[t]
  PROVE  HasStanding(e)'
<1>1. PICK r \in Run : state[r] # "absent" /\ e \in Matching[r[1]] /\ StandsFor(r, e)
  BY DEF HasStanding
<1>2. StandsFor(r, e)'
  BY <1>1 DEF StandsFor
<1> QED
  BY <1>1, <1>2 DEF HasStanding

\* The queries read rows and times only.
LEMMA SameQueries ==
  ASSUME UNCHANGED trigger, UNCHANGED received, NEW s, NEW e \in Event,
         \A r \in Run : state'[r] = "absent" <=> state[r] = "absent"
  PROVE  /\ HasRecentEventRunForDedupe(s, e)' <=> HasRecentEventRunForDedupe(s, e)
         /\ HasRecentEventRunForSpec(s, e)' <=> HasRecentEventRunForSpec(s, e)
<1>1. \A events : RowsOf(s, events)' = RowsOf(s, events)
  BY DEF RowsOf
<1>2. \A time : Since(time)' = Since(time)
  BY DEF Since
<1>3. received'[e] = received[e]
  OBVIOUS
<1> QED
  BY <1>1, <1>2, <1>3 DEF HasRecentEventRunForDedupe, HasRecentEventRunForSpec, RowsOf, Since

LogStands == \A e \in Event : log[e] \in {"queued", "suppressed"} => HasStanding(e)

\* An idle call has no event to be alone with.
LEMMA IdleAlone ==
  ASSUME Busy, NEW q \in Ingress, ingest[q].at = "idle", ingest'[q] = ingest[q]
  PROVE  AloneOf(q)'
<1>1. ingest'[q].event = {}
  BY DEF Busy, Idle
<1> QED
  BY <1>1 DEF AloneOf

\* The call goes on to the next query of its spec, none of the rows changed.
LEMMA AloneGoesTo ==
  ASSUME TypeOK, Loops, NEW p \in Ingress, AloneOf(p), InTry(p), ingest[p].todo # {},
         NEW stage \in {"deduping", "cooling", "enqueuing"}, GoTo(p, stage),
         UNCHANGED rows, UNCHANGED log, UNCHANGED received,
         \A e \in ingest[p].event :
           /\ stage \in {"cooling", "enqueuing"} /\ DedupeWindow[Current(p)] > 0 =>
                ~HasRecentEventRunForDedupe(Current(p), e)
           /\ stage = "enqueuing" /\ Cooldown[Current(p)] > 0 =>
                ~HasRecentEventRunForSpec(Current(p), e)
  PROVE  AloneOf(p)'
<1>1. stage \in Stages
  BY DEF Stages
<1>2. /\ ingest'[p].at = stage /\ ingest'[p].todo = ingest[p].todo
      /\ ingest'[p].event = ingest[p].event /\ ingest[p].event \subseteq Event
      /\ \A q \in Ingress \ {p} : ingest'[q] = ingest[q]
  BY <1>1, WentTo DEF TypeOK, Calls
<1>3. Current(p)' = Current(p)
  BY <1>2 DEF Current
<1> SUFFICES ASSUME NEW e \in ingest[p].event
             PROVE  /\ \A q \in Ingress \ {p} : ingest'[q].at = "idle"
                    /\ \A t \in Event : log'[t] # "absent" => received'[t] <= received'[e]
                    /\ stage \in {"cooling", "enqueuing"} /\ DedupeWindow[Current(p)] > 0 =>
                         ~HasRecentEventRunForDedupe(Current(p), e)'
                    /\ stage = "enqueuing" /\ Cooldown[Current(p)] > 0 =>
                         ~HasRecentEventRunForSpec(Current(p), e)'
  BY <1>2, <1>3 DEF AloneOf
<1>5. /\ \A q \in Ingress \ {p} : ingest'[q].at = "idle"
      /\ \A t \in Event : log'[t] # "absent" => received'[t] <= received'[e]
  BY <1>2 DEF AloneOf
<1>6. /\ HasRecentEventRunForDedupe(Current(p), e)' <=> HasRecentEventRunForDedupe(Current(p), e)
      /\ HasRecentEventRunForSpec(Current(p), e)' <=> HasRecentEventRunForSpec(Current(p), e)
  BY <1>2, <1>3 DEF HasRecentEventRunForDedupe, HasRecentEventRunForSpec, RowsOf, Since, rows
<1> QED
  BY <1>2, <1>5, <1>6

\* The call goes on to the next spec: the one that was current has a row that stands for
\* the event.
LEMMA AloneNext ==
  ASSUME TypeOK, Loops, NEW p \in Ingress, AloneOf(p), InTry(p), ingest[p].todo # {},
         NEW gotRun \in BOOLEAN, NextSpec(p, gotRun), UNCHANGED log, UNCHANGED received,
         \A e \in ingest[p].event : HasStanding(e)'
  PROVE  AloneOf(p)'
<1> DEFINE rest == ingest[p].todo \ {Current(p)}
<1>1. /\ ingest'[p].at = FirstQuery(rest) /\ ingest'[p].todo = rest
      /\ ingest'[p].event = ingest[p].event
      /\ \A q \in Ingress \ {p} : ingest'[q] = ingest[q]
  BY WentOn
<1>2. rest \in SUBSET Spec
  BY DEF TypeOK, Calls
<1>3. FirstQuery(rest) # "extending"
  BY <1>2, NextStages
<1>4. Current(p)' = Min(rest)
  BY <1>1 DEF Current
<1>5. /\ FirstQuery(rest) \in {"cooling", "enqueuing"} => rest # {} /\ DedupeWindow[Min(rest)] = 0
      /\ FirstQuery(rest) = "enqueuing" => rest # {} /\ Cooldown[Min(rest)] = 0
  BY <1>2, QueryOrder, NextStages
<1> HIDE DEF rest
<1> SUFFICES ASSUME NEW e \in ingest[p].event
             PROVE  /\ \A q \in Ingress \ {p} : ingest'[q].at = "idle"
                    /\ \A t \in Event : log'[t] # "absent" => received'[t] <= received'[e]
                    /\ HasStanding(e)'
                    /\ ~(/\ FirstQuery(rest) \in {"cooling", "enqueuing"}
                         /\ DedupeWindow[Min(rest)] > 0)
                    /\ ~(FirstQuery(rest) = "enqueuing" /\ Cooldown[Min(rest)] > 0)
  BY <1>1, <1>3, <1>4 DEF AloneOf
<1>6. /\ \A q \in Ingress \ {p} : ingest'[q].at = "idle"
      /\ \A t \in Event : log'[t] # "absent" => received'[t] <= received'[e]
  BY <1>1 DEF AloneOf
<1>7. ~(FirstQuery(rest) \in {"cooling", "enqueuing"} /\ DedupeWindow[Min(rest)] > 0)
      /\ ~(FirstQuery(rest) = "enqueuing" /\ Cooldown[Min(rest)] > 0)
  BY <1>5
<1> QED
  BY <1>6, <1>7

\* Of the row a call writes: it is new, or it was triggered by an event of the group.
LEMMA WritesInGroup ==
  ASSUME NEW p \in Ingress, AloneOf(p), NEW e \in ingest[p].event, NEW r, Writes(p, r, e)
  PROVE  state[r] = "absent" \/ trigger[r] \subseteq Group(e)
  BY DEF Writes, AloneOf

LEMMA AloneWorks ==
  ASSUME TypeOK, Busy, Triggers, Loops, NEW p \in Ingress, AloneOf(p), LogStands, Working(p)
  PROVE  AloneOf(p)' /\ LogStands'
<1>1. PICK e \in Event : ingest[p].event = {e}
  BY WorkingSteps DEF Busy, InTry, At
<1>2. UNCHANGED log /\ UNCHANGED received
  BY WorkingSteps
<1>3. \A t \in Event : log[t] # "absent" => received[t] <= received[e]
  BY <1>1 DEF AloneOf
<1>4. \A t \in Event : HasStanding(t) => HasStanding(t)'
  <2> SUFFICES ASSUME NEW t \in Event, HasStanding(t)
               PROVE  HasStanding(t)'
    OBVIOUS
  <2>1. CASE UNCHANGED rows
    BY <1>2, <2>1, StandingStays DEF rows
  <2>2. ASSUME NEW r \in Run, Writes(p, r, e)
        PROVE  HasStanding(t)'
    <3>1. state[r] = "absent" \/ trigger[r] \subseteq Group(e)
      BY <1>1, <2>2, WritesInGroup
    <3> QED
      BY <1>2, <1>3, <2>2, <3>1, StandingKept
  <2> QED
    BY <1>1, <2>1, <2>2, WorkingSteps
<1>5. LogStands'
  BY <1>2, <1>4 DEF LogStands
<1>6. CASE Throws(p)
  <2>1. GoTo(p, "failing") /\ "failing" \in Stages
    BY <1>6 DEF Throws, Stages
  <2>2. /\ ingest'[p].at = "failing" /\ ingest'[p].event = ingest[p].event
        /\ \A q \in Ingress \ {p} : ingest'[q] = ingest[q]
    BY <2>1, WentTo
  <2>3. ~InTry(p)'
    BY <2>2 DEF InTry, At
  <2>4. \A q \in Ingress \ {p} : ingest'[q].at = "idle"
    BY <1>1, <2>2 DEF AloneOf
  <2> QED
    BY <1>1, <1>2, <1>3, <1>5, <2>2, <2>3, <2>4 DEF AloneOf
<1>7. ASSUME Find(p) \/ Extend(p) \/ Dedupe(p) \/ Cool(p) \/ Enqueue(p)
      PROVE  AloneOf(p)'
  <2>1. /\ InTry(p) /\ ingest[p].todo # {} /\ Current(p) \in Spec
        /\ Current(p) \in ingest[p].todo
    BY <1>7, Pending DEF Find, Extend, Dedupe, Cool, Enqueue, At
  <2>2. e \in Matching[Current(p)]
    BY <1>1, <2>1 DEF Loops, LoopOf
  <2>3. /\ AfterDebounce(Current(p)) \in {"deduping", "cooling", "enqueuing"}
        /\ AfterDedupe(Current(p)) \in {"deduping", "cooling", "enqueuing"}
    BY <2>1, NextStages
  <2>4. /\ AfterDedupe(Current(p)) = "enqueuing" => Cooldown[Current(p)] = 0
        /\ AfterDebounce(Current(p)) \in {"cooling", "enqueuing"} => DedupeWindow[Current(p)] = 0
        /\ AfterDebounce(Current(p)) = "enqueuing" => Cooldown[Current(p)] = 0
    BY <2>1, QueryOrder
  <2>5. ASSUME GoTo(p, AfterDebounce(Current(p))), UNCHANGED rows
        PROVE  AloneOf(p)'
    BY <1>2, <2>1, <2>3, <2>4, <2>5, AloneGoesTo
  <2>6. ASSUME NEW gotRun \in BOOLEAN, NextSpec(p, gotRun), HasStanding(e)'
        PROVE  AloneOf(p)'
    BY <1>1, <1>2, <2>1, <2>6, AloneNext
  <2>7. CASE Find(p)
    <3>1. UNCHANGED rows
      BY <2>7 DEF Find
    <3>2. ASSUME NEW r \in FindQueuedEventRunForDedupe(Current(p), e),
                 ingest' = [ingest EXCEPT ![p] =
                   [@ EXCEPT !.at = "extending", !.found = {r}, !.until = scheduled[r]]]
          PROVE  AloneOf(p)'
      <4>1. r \in Run /\ trigger[r] \cap Group(e) # {} /\ state[r] # "absent"
        BY DEF FindQueuedEventRunForDedupe, QueuedInGroup, RowsOf
      <4>2. trigger[r] \subseteq Group(e)
        BY <4>1 DEF Triggers
      <4>3. /\ ingest'[p].at = "extending" /\ ingest'[p].found = {r}
            /\ ingest'[p].until = scheduled[r]
            /\ ingest'[p].event = ingest[p].event /\ ingest'[p].todo = ingest[p].todo
            /\ \A q \in Ingress \ {p} : ingest'[q] = ingest[q]
        BY <3>2 DEF TypeOK, Calls
      <4>4. \A q \in Ingress \ {p} : ingest'[q].at = "idle"
        BY <1>1, <4>3 DEF AloneOf
      <4> QED
        BY <1>1, <1>2, <1>3, <2>1, <3>1, <4>2, <4>3, <4>4 DEF AloneOf, rows
    <3> QED
      BY <1>1, <2>5, <2>7, <3>1, <3>2 DEF Find
  <2>8. CASE Extend(p)
    <3>1. CASE GoTo(p, AfterDebounce(Current(p))) /\ UNCHANGED rows
      BY <2>5, <3>1
    <3>2. ASSUME NEW r \in Run, Writes(p, r, e), NextSpec(p, TRUE)
          PROVE  AloneOf(p)'
      <4>1. HasStanding(e)'
        BY <1>2, <2>2, <3>2, WrittenStands
      <4> QED
        BY <2>6, <3>2, <4>1
    <3> QED
      BY <1>1, <2>8, <3>1, <3>2, WritesExtend DEF Extend
  <2>9. CASE Dedupe(p)
    <3>1. UNCHANGED rows
      BY <2>9 DEF Dedupe
    <3>2. CASE HasRecentEventRunForDedupe(Current(p), e) /\ NextSpec(p, FALSE)
      <4>1. HasStanding(e)'
        BY <1>4, <2>1, <2>2, <3>2, SuppressedStands
      <4> QED
        BY <2>6, <3>2, <4>1
    <3>3. CASE ~HasRecentEventRunForDedupe(Current(p), e) /\ GoTo(p, AfterDedupe(Current(p)))
      BY <1>1, <1>2, <2>1, <2>3, <2>4, <3>1, <3>3, AloneGoesTo
    <3> QED
      BY <1>1, <2>9, <3>2, <3>3 DEF Dedupe
  <2>10. CASE Cool(p)
    <3>1. UNCHANGED rows /\ ingest[p].at = "cooling"
      BY <2>10 DEF Cool, At
    <3>2. CASE HasRecentEventRunForSpec(Current(p), e) /\ NextSpec(p, FALSE)
      <4>1. Cooldown[Current(p)] > 0
        BY <2>1, <3>1 DEF Loops, LoopOf
      <4>2. HasStanding(e)'
        BY <1>4, <2>1, <2>2, <3>2, <4>1, SuppressedStands
      <4> QED
        BY <2>6, <3>2, <4>2
    <3>3. CASE ~HasRecentEventRunForSpec(Current(p), e) /\ GoTo(p, "enqueuing")
      <4>1. DedupeWindow[Current(p)] > 0 => ~HasRecentEventRunForDedupe(Current(p), e)
        BY <1>1, <3>1 DEF AloneOf
      <4> QED
        BY <1>1, <1>2, <2>1, <3>1, <3>3, <4>1, AloneGoesTo
    <3> QED
      BY <1>1, <2>10, <3>2, <3>3 DEF Cool
  <2>11. CASE Enqueue(p)
    <3>1. PICK r \in Run : Writes(p, r, e)
      BY <1>1, <2>11, WritesEnqueue DEF Enqueue
    <3>2. HasStanding(e)'
      BY <1>2, <2>2, <3>1, WrittenStands
    <3> QED
      BY <2>6, <2>11, <3>2 DEF Enqueue
  <2> QED
    BY <1>7, <2>7, <2>8, <2>9, <2>10, <2>11
<1> QED
  BY <1>5, <1>6, <1>7 DEF Working

LEMMA AloneDelivers ==
  ASSUME TypeOK, Busy, Triggers, Times, Alone,
         NEW p \in Ingress, NEW e \in Event, Deliver(p, e), ~overlapped'
  PROVE  (\A q \in Ingress : AloneOf(q)') /\ LogStands'
<1>1. /\ log[e] = "absent" /\ log'[e] = "received" /\ received'[e] = clock
      /\ \A t \in Event \ {e} : log'[t] = log[t] /\ received'[t] = received[t]
      /\ UNCHANGED rows /\ \A q \in Ingress \ {p} : ingest'[q] = ingest[q]
  BY DeliverSteps DEF TypeOK
<1>2. ~overlapped /\ \A q \in Ingress : ingest[q].at = "idle"
  BY DEF Deliver, At
<1>3. \A q \in Ingress \ {p} : AloneOf(q)' /\ ingest'[q].at = "idle"
  BY <1>1, <1>2, IdleAlone
<1>4. AloneOf(p)'
  <2>1. PICK specs \in SUBSET {s \in Spec : e \in Matching[s]} :
          /\ ingest'[p].at = FirstQuery(specs) /\ ingest'[p].todo = specs
          /\ ingest'[p].matched <=> specs # {}
    BY DeliverCalls
  <2>2. ingest'[p].event = {e}
    BY DeliverCalls
  <2>3. specs \in SUBSET Spec
    OBVIOUS
  <2>4. /\ FirstQuery(specs) # "extending"
        /\ FirstQuery(specs) \in {"cooling", "enqueuing"} => DedupeWindow[Min(specs)] = 0
        /\ FirstQuery(specs) = "enqueuing" => Cooldown[Min(specs)] = 0
    BY <2>3, NextStages, QueryOrder
  <2>5. Current(p)' = Min(specs)
    BY <2>1 DEF Current
  <2>6. \A t \in Event : log'[t] # "absent" => received'[t] <= received'[e]
    BY <1>1 DEF Times, TypeOK
  <2>7. /\ ~(ingest'[p].at \in {"cooling", "enqueuing"} /\ DedupeWindow[Min(specs)] > 0)
        /\ ~(ingest'[p].at = "enqueuing" /\ Cooldown[Min(specs)] > 0)
    BY <2>1, <2>4
  <2>8. ~(ingest'[p].matched /\ ingest'[p].todo = {}) /\ ingest'[p].at # "extending"
    BY <2>1, <2>4
  <2> QED
    BY <1>3, <2>2, <2>5, <2>6, <2>7, <2>8 DEF AloneOf
<1>5. LogStands'
  <2> SUFFICES ASSUME NEW t \in Event, log'[t] \in {"queued", "suppressed"}
               PROVE  HasStanding(t)'
    BY DEF LogStands
  <2>1. t # e
    BY <1>1
  <2>2. HasStanding(t) /\ received'[t] = received[t]
    BY <1>1, <1>2, <2>1 DEF Alone
  <2>3. \A r \in Run : \A u \in trigger[r] : received'[u] = received[u]
    BY <1>1 DEF Triggers
  <2> QED
    BY <1>1, <2>2, <2>3, StandingStays DEF rows
<1> QED
  BY <1>3, <1>4, <1>5

LEMMA AloneEnds ==
  ASSUME TypeOK, Busy, Loops, NEW p \in Ingress, AloneOf(p), LogStands, Ending(p)
  PROVE  AloneOf(p)' /\ LogStands'
<1>1. /\ ingest[p].at # "idle" /\ ingest'[p] = Idle /\ UNCHANGED rows /\ UNCHANGED received
  BY EndingSteps
<1>2. AloneOf(p)'
  <2>1. ingest'[p].event = {}
    BY <1>1 DEF Idle
  <2> QED
    BY <2>1 DEF AloneOf
<1>3. \A t \in Event : HasStanding(t) => HasStanding(t)'
  BY <1>1, StandingStays DEF rows
<1>4. ASSUME NEW t \in Event, log'[t] \in {"queued", "suppressed"}
      PROVE  HasStanding(t)
  <2>1. CASE log[t] \in {"queued", "suppressed"}
    BY <2>1 DEF LogStands
  <2>2. CASE log[t] \notin {"queued", "suppressed"}
    <3>1. /\ ingest[p].event = {t} /\ ingest[p].at = "finishing"
          /\ Outcome(ingest[p]) \in {"queued", "suppressed"}
      BY <1>4, <2>2, EndingSteps DEF TypeOK
    <3>2. ingest[p].matched
      BY <3>1 DEF Outcome
    <3>3. InTry(p) /\ ingest[p].todo = {}
      BY <3>1 DEF InTry, At, Loops, LoopOf
    <3> QED
      BY <3>1, <3>2, <3>3 DEF AloneOf
  <2> QED
    BY <2>1, <2>2
<1> QED
  BY <1>2, <1>3, <1>4 DEF LogStands

LEMMA AloneQuiet ==
  ASSUME TypeOK, (\E r \in Run : QueueStep(r)) \/ Tick \/ UNCHANGED vars, LogStands,
         \A p \in Ingress : AloneOf(p)
  PROVE  (\A p \in Ingress : AloneOf(p)') /\ LogStands'
<1>1. /\ UNCHANGED log /\ UNCHANGED received /\ UNCHANGED ingest /\ UNCHANGED trigger
      /\ UNCHANGED scheduled /\ \A r \in Run : state'[r] = "absent" <=> state[r] = "absent"
  BY QuietSteps
<1>2. \A t \in Event : HasStanding(t) => HasStanding(t)'
  BY <1>1, StandingStays
<1>3. LogStands'
  BY <1>1, <1>2 DEF LogStands
<1>4. ASSUME NEW p \in Ingress
      PROVE  AloneOf(p)'
  <2>1. InTry(p)' = InTry(p) /\ Current(p)' = Current(p)
    BY <1>1 DEF InTry, At, Current
  <2>2. ingest[p].event \subseteq Event
    BY DEF TypeOK, Calls
  <2> SUFFICES ASSUME NEW e \in Event, e \in ingest[p].event
               PROVE  /\ \A q \in Ingress \ {p} : ingest[q].at = "idle"
                      /\ \A t \in Event : log[t] # "absent" => received[t] <= received[e]
                      /\ InTry(p) /\ ingest[p].matched /\ ingest[p].todo = {} => HasStanding(e)'
                      /\ ingest[p].at = "extending" =>
                           \A r \in ingest[p].found :
                             trigger[r] \subseteq Group(e) /\ ingest[p].until = scheduled[r]
                      /\ ingest[p].at \in {"cooling", "enqueuing"} /\ DedupeWindow[Current(p)] > 0
                           => ~HasRecentEventRunForDedupe(Current(p), e)'
                      /\ ingest[p].at = "enqueuing" /\ Cooldown[Current(p)] > 0 =>
                           ~HasRecentEventRunForSpec(Current(p), e)'
    BY <1>1, <2>1, <2>2 DEF AloneOf
  <2>3. /\ HasRecentEventRunForDedupe(Current(p), e)' <=> HasRecentEventRunForDedupe(Current(p), e)
        /\ HasRecentEventRunForSpec(Current(p), e)' <=> HasRecentEventRunForSpec(Current(p), e)
    BY <1>1, <2>1 DEF HasRecentEventRunForDedupe, HasRecentEventRunForSpec, RowsOf, Since
  <2>4. /\ \A q \in Ingress \ {p} : ingest[q].at = "idle"
        /\ \A t \in Event : log[t] # "absent" => received[t] <= received[e]
        /\ InTry(p) /\ ingest[p].matched /\ ingest[p].todo = {} => HasStanding(e)
        /\ ingest[p].at = "extending" =>
             \A r \in ingest[p].found :
               trigger[r] \subseteq Group(e) /\ ingest[p].until = scheduled[r]
        /\ ingest[p].at \in {"cooling", "enqueuing"} /\ DedupeWindow[Current(p)] > 0
             => ~HasRecentEventRunForDedupe(Current(p), e)
        /\ ingest[p].at = "enqueuing" /\ Cooldown[Current(p)] > 0 =>
             ~HasRecentEventRunForSpec(Current(p), e)
    BY DEF AloneOf
  <2> QED
    BY <1>2, <2>3, <2>4
<1> QED
  BY <1>3, <1>4

LEMMA AloneStep ==
  ASSUME TypeOK, Busy, Apart, Triggers, Loops, Times, Alone, [Next]_vars
  PROVE  Alone'
<1> SUFFICES ASSUME ~overlapped'
             PROVE  (\A q \in Ingress : AloneOf(q)') /\ LogStands'
  BY DEF Alone, LogStands
<1>1. ~overlapped => (\A q \in Ingress : AloneOf(q)) /\ LogStands
  BY DEF Alone, LogStands
<1>2. ASSUME NEW p \in Ingress, Working(p) \/ Ending(p)
      PROVE  (\A q \in Ingress : AloneOf(q)') /\ LogStands'
  <2>1. ~overlapped /\ ingest[p].at # "idle" /\ \A q \in Ingress \ {p} : ingest'[q] = ingest[q]
    BY <1>2, WorkingSteps, EndingSteps DEF InTry, At
  <2>2. \A q \in Ingress \ {p} : AloneOf(q)'
    BY <1>1, <2>1, IdleAlone DEF AloneOf, Busy
  <2>3. AloneOf(p)' /\ LogStands'
    BY <1>1, <1>2, <2>1, AloneWorks, AloneEnds
  <2> QED
    BY <2>2, <2>3
<1>3. ASSUME NEW p \in Ingress, NEW e \in Event, Deliver(p, e)
      PROVE  (\A q \in Ingress : AloneOf(q)') /\ LogStands'
  BY <1>3, AloneDelivers
<1>4. ASSUME (\E r \in Run : QueueStep(r)) \/ Tick \/ UNCHANGED vars
      PROVE  (\A q \in Ingress : AloneOf(q)') /\ LogStands'
  <2>1. ~overlapped
    BY <1>4, QuietSteps
  <2> QED
    BY <1>1, <1>4, <2>1, AloneQuiet
<1> QED
  BY <1>2, <1>3, <1>4, StepKinds

LEMMA EventsInit ==
  ASSUME Init
  PROVE  EventsInv
<1>1. TypeOK
  BY CronEventsAssumption DEF Init, TypeOK, Queue!Init, Idle, Calls, Stages
<1>2. Busy /\ Apart /\ Loops /\ LogKnown /\ LogSettles /\ Times
  BY DEF Init, Busy, Apart, Idle, Loops, LoopOf, InTry, At, LogKnown, LogSettles, Times
<1>3. Triggers /\ OneRunPerEvent
  BY DEF Init, Queue!Init, Triggers, OneRunPerEvent, Rows
<1>4. Alone
  BY DEF Init, Idle, Alone, AloneOf
<1> QED
  BY <1>1, <1>2, <1>3, <1>4 DEF EventsInv

-----------------------------------------------------------------------------
(* The theorems.                                                            *)

\* The inductive invariant: every reachable state of the ingresses has it.
THEOREM EventsInvariant == EventSpec => []EventsInv
<1>1. Init => EventsInv
  BY EventsInit
<1>2. EventsInv /\ [Next]_vars => EventsInv'
  <2> SUFFICES ASSUME EventsInv, [Next]_vars
               PROVE  EventsInv'
    OBVIOUS
  <2> USE DEF EventsInv
  <2>1. TypeOK' /\ Busy' /\ Apart'
    BY TypeStep, BusyStep
  <2>2. Triggers' /\ OneRunPerEvent'
    BY TriggersStep
  <2>3. Loops' /\ LogKnown'
    BY LoopsStep, LogKnownStep
  <2>4. LogSettles' /\ Times'
    BY SettlesStep
  <2>5. Alone'
    BY AloneStep
  <2> QED
    BY <2>1, <2>2, <2>3, <2>4, <2>5
<1> QED
  BY <1>1, <1>2, PTL DEF EventSpec

\* Every column and local keeps its type: no log row leaves the statuses its CHECK
\* constraint names.
THEOREM TypeCorrect == EventSpec => []TypeOK
<1>1. EventsInv => TypeOK
  BY DEF EventsInv
<1> QED
  BY <1>1, EventsInvariant, PTL

\* However often an event is delivered, to however many processes, no spec has two runs
\* for it: ingestEvent's replay check and the early return after a debounce.
THEOREM EventRunsOnce == EventSpec => []OneRunPerEvent
<1>1. EventsInv => OneRunPerEvent
  BY DEF EventsInv
<1> QED
  BY <1>1, EventsInvariant, PTL

\* Every logged event gets its outcome unless its process died on it: the try and the
\* catch of ingestEvent.
THEOREM EveryEventSettles == EventSpec => []LogSettles
<1>1. EventsInv => LogSettles
  BY DEF EventsInv
<1> QED
  BY <1>1, EventsInvariant, PTL

\* The log tells what became of an event: the status ingestEvent computes from the loop.
THEOREM LogIsTrue == EventSpec => []LogTellsTheTruth
<1>1. EventsInv => LogTellsTheTruth
  BY DEF EventsInv, LogKnown, Alone, HasStanding, LogTellsTheTruth, Rows
<1> QED
  BY <1>1, EventsInvariant, PTL

\* What a step of the ingress does to a row, if anything.
LEMMA RowSteps ==
  ASSUME EventsInv, [Next]_vars
  PROVE  \/ trigger' = trigger /\ scheduled' = scheduled
            /\ \A r \in Run : state'[r] = "absent" <=> state[r] = "absent"
         \/ \E p \in Ingress : \E e \in ingest[p].event, r \in Run :
              /\ e \in Event /\ Writes(p, r, e) /\ overlapped' = overlapped
<1> USE DEF EventsInv
<1>1. ASSUME NEW p \in Ingress, (\E e \in Event : Deliver(p, e)) \/ Ending(p)
      PROVE  UNCHANGED rows
  BY <1>1, DeliverSteps, EndingSteps
<1>2. ASSUME NEW p \in Ingress, Working(p)
      PROVE  UNCHANGED rows \/ \E e \in ingest[p].event, r \in Run :
               e \in Event /\ Writes(p, r, e) /\ overlapped' = overlapped
  BY <1>2, WorkingSteps
<1>3. ASSUME (\E r \in Run : QueueStep(r)) \/ Tick \/ UNCHANGED vars
      PROVE  /\ trigger' = trigger /\ scheduled' = scheduled
             /\ \A r \in Run : state'[r] = "absent" <=> state[r] = "absent"
  BY <1>3, QuietSteps
<1> QED
  BY <1>1, <1>2, <1>3, StepKinds DEF rows

\* A run that was claimed or settled keeps the event and the time it was claimed with:
\* the WHERE clause of updateQueuedEventRunForDebounce, and a new row for a new run.
THEOREM ClaimedRunsKeepEvents == EventSpec => ClaimedKeepsItsEvent
<1>1. ASSUME EventsInv, [Next]_vars, NEW x \in Rows, state[x] # "queued"
      PROVE  trigger'[x] = trigger[x] /\ scheduled'[x] = scheduled[x]
  <2>1. ASSUME NEW p \in Ingress, NEW e \in ingest[p].event, NEW r \in Run, Writes(p, r, e)
        PROVE  trigger'[x] = trigger[x] /\ scheduled'[x] = scheduled[x]
    <3>1. x \in Run /\ x # r
      BY <1>1, <2>1 DEF Writes, Rows
    <3> QED
      BY <1>1, <2>1, <3>1 DEF Writes, EventsInv, TypeOK
  <2> QED
    BY <1>1, <2>1, RowSteps
<1>2. EventsInv /\ [Next]_vars =>
        [\A r \in Rows : state[r] # "queued" =>
           trigger'[r] = trigger[r] /\ scheduled'[r] = scheduled[r]]_vars
  BY <1>1
<1> QED
  BY <1>2, EventsInvariant, PTL DEF EventSpec, ClaimedKeepsItsEvent

\* While no two calls overlapped, a further event of its group only postpones a queued run
\* and only moves it to a later event: the debounce.
THEOREM DebounceOnlyPostpones == EventSpec => DebounceExtends
<1>1. ASSUME EventsInv, [Next]_vars, ~overlapped', NEW x \in Rows
      PROVE  /\ scheduled'[x] >= scheduled[x]
             /\ \A t \in trigger[x], u \in trigger'[x] : received[u] >= received[t]
  <2>1. /\ x \in Run /\ state[x] # "absent" /\ scheduled[x] \in Nat
        /\ \A t \in Event : received[t] \in Nat
    BY <1>1 DEF Rows, EventsInv, TypeOK
  <2>2. PICK d \in Event : trigger[x] = {d} /\ log[d] # "absent"
    BY <1>1, <2>1 DEF EventsInv, Triggers
  <2>3. CASE trigger'[x] = trigger[x] /\ scheduled'[x] = scheduled[x]
    BY <2>1, <2>2, <2>3
  <2>4. ASSUME NEW p \in Ingress, NEW e \in ingest[p].event, e \in Event, NEW r \in Run,
               Writes(p, r, e), overlapped' = overlapped, x = r
        PROVE  /\ scheduled'[x] >= scheduled[x]
               /\ \A t \in trigger[x], u \in trigger'[x] : received[u] >= received[t]
    <3>1. AloneOf(p)
      BY <1>1, <2>4 DEF EventsInv, Alone
    <3>2. /\ ingest[p].at = "extending" /\ x \in ingest[p].found
          /\ scheduled'[x] = PostponedTo(Current(p), e, ingest[p].until)
      BY <2>1, <2>4 DEF Writes
    <3>3. ingest[p].until = scheduled[x] /\ received[d] <= received[e]
      BY <2>2, <2>4, <3>1, <3>2 DEF AloneOf
    <3>4. Current(p) \in Spec
      BY <1>1, <3>2, Pending DEF EventsInv
    <3>5. received[e] + Debounce[Current(p)] \in Nat
      <4>1. Debounce[Current(p)] \in Nat /\ received[e] \in Nat
        BY <2>1, <2>4, <3>4, CronEventsAssumption
      <4> QED
        BY <4>1
    <3>6. scheduled'[x] >= scheduled[x]
      BY <2>1, <3>2, <3>3, <3>5, LaterOfTwo DEF PostponedTo
    <3>7. trigger'[x] = {e}
      BY <1>1, <2>4 DEF Writes, EventsInv, TypeOK
    <3> QED
      BY <2>2, <3>3, <3>6, <3>7
  <2>5. ASSUME NEW p \in Ingress, NEW e \in ingest[p].event, NEW r \in Run,
               Writes(p, r, e), x # r
        PROVE  trigger'[x] = trigger[x] /\ scheduled'[x] = scheduled[x]
    BY <1>1, <2>1, <2>5 DEF Writes, EventsInv, TypeOK
  <2> QED
    BY <1>1, <2>3, <2>4, <2>5, RowSteps
<1>2. EventsInv /\ [Next]_vars =>
        [~overlapped' => \A r \in Rows :
           /\ scheduled'[r] >= scheduled[r]
           /\ \A t \in trigger[r], u \in trigger'[r] : received[u] >= received[t]]_vars
  BY <1>1
<1> QED
  BY <1>2, EventsInvariant, PTL DEF EventSpec, DebounceExtends

\* While no two calls overlapped, a run is queued for an event only outside the windows of
\* the runs its spec has: the two suppressions of materializeForSpec.
THEOREM NewRunsAreSpaced == EventSpec => Spaced
<1>1. ASSUME EventsInv, [Next]_vars, ~overlapped', NEW q \in Rows, NEW r \in Rows' \ Rows,
             NEW t \in trigger[q], NEW u \in trigger'[r], q[1] = r[1]
      PROVE  /\ DedupeWindow[q[1]] > 0 /\ KeyOf[t] = KeyOf[u]
                  => received[u] - received[t] > DedupeWindow[q[1]]
             /\ Cooldown[q[1]] > 0 => received[u] - received[t] > Cooldown[q[1]]
  <2>1. q \in Run /\ r \in Run /\ state[q] # "absent" /\ state[r] = "absent" /\ state'[r] # "absent"
    BY DEF Rows
  <2>2. PICK p \in Ingress : \E e \in ingest[p].event, x \in Run :
              /\ e \in Event /\ Writes(p, x, e) /\ overlapped' = overlapped
    BY <1>1, <2>1, RowSteps
  <2>3. PICK e \in ingest[p].event, x \in Run :
              /\ e \in Event /\ Writes(p, x, e) /\ overlapped' = overlapped
    BY <2>2
  <2>4. x = r /\ u = e
    BY <1>1, <2>1, <2>3 DEF Writes, EventsInv, TypeOK
  <2>5. ingest[p].at = "enqueuing" /\ r[1] = Current(p)
    BY <2>1, <2>3, <2>4 DEF Writes
  <2>6. AloneOf(p)
    BY <1>1, <2>3 DEF EventsInv, Alone
  <2>7. Current(p) \in Spec
    BY <1>1, <2>5, Pending DEF EventsInv
  <2>8. /\ t \in Event /\ received[t] \in Nat /\ received[u] \in Nat
        /\ DedupeWindow[q[1]] \in Nat /\ Cooldown[q[1]] \in Nat
    BY <1>1, <2>1, <2>3, <2>4, <2>5, <2>7, CronEventsAssumption DEF EventsInv, TypeOK
  <2>9. ASSUME DedupeWindow[q[1]] > 0, KeyOf[t] = KeyOf[u]
        PROVE  received[u] - received[t] > DedupeWindow[q[1]]
    <3>1. ~HasRecentEventRunForDedupe(q[1], u)
      BY <1>1, <2>3, <2>4, <2>5, <2>6, <2>9 DEF AloneOf
    <3>2. ~(received[t] >= received[u] - DedupeWindow[q[1]])
      BY <2>1, <2>8, <2>9, <3>1 DEF HasRecentEventRunForDedupe, RowsOf, Group, Since
    <3> QED
      BY <2>8, <3>2
  <2>10. ASSUME Cooldown[q[1]] > 0
         PROVE  received[u] - received[t] > Cooldown[q[1]]
    <3>1. ~HasRecentEventRunForSpec(q[1], u)
      BY <1>1, <2>3, <2>4, <2>5, <2>6, <2>10 DEF AloneOf
    <3>2. ~(received[t] >= received[u] - Cooldown[q[1]])
      BY <2>1, <2>8, <3>1 DEF HasRecentEventRunForSpec, RowsOf, Since
    <3> QED
      BY <2>8, <3>2
  <2> QED
    BY <2>9, <2>10
<1>2. EventsInv /\ [Next]_vars =>
        [~overlapped' =>
           \A q \in Rows, r \in Rows' \ Rows : \A t \in trigger[q], u \in trigger'[r] :
             q[1] = r[1] =>
               /\ DedupeWindow[q[1]] > 0 /\ KeyOf[t] = KeyOf[u]
                    => received[u] - received[t] > DedupeWindow[q[1]]
               /\ Cooldown[q[1]] > 0 => received[u] - received[t] > Cooldown[q[1]]]_vars
  BY <1>1
<1> QED
  BY <1>2, EventsInvariant, PTL DEF EventSpec, Spaced

\* The ingress and the steps it takes of the queue together keep what the queue promises
\* about a run: nothing the ingress writes takes a claimed run back or revives a settled one.
THEOREM IngressKeepsLifecycle == EventSpec => Queue!SafeSpec
<1>1. Init => Queue!Init
  BY DEF Init
<1>2. EventsInv /\ [Next]_vars => [Queue!Next]_(Queue!vars)
  <2> SUFFICES ASSUME EventsInv, [Next]_vars
               PROVE  Queue!Next \/ UNCHANGED <<state, generation>>
    BY DEF Queue!vars
  <2> USE DEF EventsInv
  <2>1. ASSUME NEW p \in Ingress, (\E e \in Event : Deliver(p, e)) \/ Ending(p)
        PROVE  UNCHANGED <<state, generation>>
    BY <2>1, DeliverSteps, EndingSteps DEF rows
  <2>2. ASSUME NEW p \in Ingress, Working(p)
        PROVE  Queue!Next \/ UNCHANGED <<state, generation>>
    <3>1. ASSUME NEW e, NEW r \in Run, Writes(p, r, e)
          PROVE  Queue!Next
      <4>1. \A x \in Run \ {r} : Queue!Stays(x)
        BY <3>1 DEF Writes, TypeOK, Queue!Stays, Queue!Keeps
      <4>2. Queue!Submit(r) \/ Queue!Stays(r)
        BY <3>1 DEF Writes, TypeOK, Queue!Stays, Queue!Keeps, Queue!Submit
      <4> QED
        BY <4>1, <4>2 DEF Queue!Next, Queue!Step
    <3> QED
      BY <2>2, <3>1, WorkingSteps DEF rows
  <2>3. ASSUME NEW r \in Run, QueueStep(r)
        PROVE  Queue!Next
    <3>1. \A x \in Run \ {r} : Queue!Stays(x)
      BY <2>3 DEF QueueStep, TypeOK, Queue!Stays, Queue!Keeps
    <3>2. Queue!Step(r)
      BY <2>3 DEF QueueStep, Queue!Step
    <3> QED
      BY <3>1, <3>2 DEF Queue!Next
  <2>4. CASE Tick \/ UNCHANGED vars
    BY <2>4 DEF Tick, vars, rows
  <2> QED
    BY <2>1, <2>2, <2>3, <2>4, StepKinds
<1> QED
  BY <1>1, <1>2, EventsInvariant, PTL DEF EventSpec, Queue!SafeSpec

=============================================================================
